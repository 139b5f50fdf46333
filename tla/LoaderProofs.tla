----------------------------- MODULE LoaderProofs -----------------------------
(***************************************************************************)
(* Proofs about Loader: what a load holds at each of its calls, what is    *)
(* left when one of them fails, and where the pages of a program lead, for *)
(* any number of slots, any set of programs and any sizes of pages and     *)
(* addresses.                                                              *)
(***************************************************************************)
EXTENDS Loader, NatLemmas

-------------------------------------------------------------------------------
(* The inductive invariant. *)

Directories == [Pages -> [page : Nat, writable : BOOLEAN]]

LoaderShapes ==
    /\ pc \in Calls \cup {"idle", "wild"}
    /\ slot \in Slots
    /\ trying \in {"elf", "binary"}
    /\ live \in [Slots -> SUBSET Structs]
    /\ file \subseteq {"path", "descriptor"}
    /\ filetype \in [Slots -> {"elf", "binary"}]
    /\ loaded \subseteq Slots

(* The structs a load holds before each call: those of the process and of  *)
(* the attempt that goes on.  task_new may have failed without being       *)
(* noticed.                                                                *)
Attempt == {"process"} \cup (IF trying = "elf" THEN {"elf_file"} ELSE {})

HoldsAtCall ==
    /\ pc = "process" => live[slot] = {}
    /\ pc = "elf_file" => live[slot] = {"process"}
    /\ pc \in {"open", "stat", "image"} => live[slot] = Attempt
    /\ pc \in {"read", "validate", "stack"} => live[slot] = Attempt \cup {"image"}
    /\ pc = "task" => live[slot] = Attempt \cup {"image", "stack"}
    /\ pc = "map" => live[slot] \in {Attempt \cup {"image", "stack"},
                                     Attempt \cup {"image", "stack", "task", "directory"}}

Loading ==
    pc \in Calls =>
        /\ slot \notin loaded
        /\ HoldsAtCall
        /\ pc \in {"process", "elf_file", "validate"} => trying = "elf"
        /\ filetype[slot] = IF pc \in {"stack", "task", "map"} THEN trying ELSE "elf"

(* A slot holds something only for a process in the table and for the load *)
(* that goes on.                                                           *)
OthersEmpty == \A s \in Slots \ loaded : (s # slot \/ pc = "idle") => live[s] = {}

OpenOnlyReading ==
    pc \notin {"stat", "image", "read", "validate", "wild"} => "descriptor" \notin file

(* What program, bounds and pages are. *)
ImageOK ==
    /\ program \in Programs \cup {NoProgram}
    /\ pages \in Directories
    /\ pc \in Calls \ {"stack", "task", "map"} => program = NoProgram
    /\ pc \in {"stack", "task", "map"} =>
          /\ program \in Programs
          /\ trying = "elf" => bounds = elf_process_pheaders(program.phdrs)
    /\ pc = "idle" /\ program # NoProgram =>
          /\ MapProgram(filetype[slot], program).ok
          /\ pages = MapProgram(filetype[slot], program).dir
          /\ filetype[slot] = "elf" => bounds = elf_process_pheaders(program.phdrs)

LoaderInv ==
    /\ LoaderShapes
    /\ Loading
    /\ OthersEmpty
    /\ CompleteProcess
    /\ OpenOnlyReading
    /\ ImageOK

-------------------------------------------------------------------------------
(* Addresses and pages. *)

(* An address, its page and its place in the page. *)
LEMMA PageOf ==
    ASSUME NEW a \in Nat
    PROVE  Page(a) \in Nat /\ a % PageSize \in 0 .. PageSize - 1
           /\ a = PageSize * Page(a) + (a % PageSize)
<1>1. /\ a % PageSize \in 0 .. PageSize - 1 /\ a \div PageSize \in Int
      /\ a = PageSize * (a \div PageSize) + (a % PageSize)
  <2>1. PageSize \in Nat \ {0} /\ a \in Int
    BY ElfAssumption
  <2> QED
    BY <2>1, DivMod, Zenon
<1>2. a \div PageSize >= 0
  BY ElfAssumption
<1> QED
  BY <1>1, <1>2 DEF Page

MapResults == [ok : BOOLEAN, dir : Directories]

LEMMA MapToType ==
    ASSUME NEW dir \in Directories, NEW virt \in Nat, NEW phys \in Nat, NEW end \in Nat,
           NEW writable \in BOOLEAN
    PROVE  paging_map_to(dir, virt, phys, end, writable) \in MapResults
<1>1. Page(virt) \in Nat /\ Page(phys) \in Nat
  BY PageOf
<1>2. ASSUME end >= phys
      PROVE  Page(end - phys) \in Nat
  BY <1>2, PageOf
<1>3. \A p \in Pages : p \in Page(virt) .. Page(virt) + Page(end - phys) - 1 /\ end >= phys =>
         Page(phys) + p - Page(virt) \in Nat
  BY <1>1, <1>2
<1>4. [p \in Pages |-> IF end >= phys /\ p \in Page(virt) .. Page(virt) + Page(end - phys) - 1
                       THEN [page |-> Page(phys) + p - Page(virt), writable |-> writable]
                       ELSE dir[p]] \in Directories
  BY <1>3 DEF Directories
<1> QED
  BY <1>4 DEF paging_map_to, MapResults

LEMMA AlignTypes ==
    ASSUME NEW a \in Nat
    PROVE  paging_align_to_lower_page(a) \in Nat /\ paging_align_address(a) \in Nat
<1>1. a % PageSize \in Nat /\ a % PageSize <= a /\ a % PageSize < PageSize
  <2> DEFINE x == PageSize * Page(a)
             r == a % PageSize
  <2>1. PageSize \in Nat /\ r \in 0 .. PageSize - 1 /\ a = x + r
    BY PageOf, ElfAssumption
  <2>2. x \in Nat
    BY PageOf, <2>1, ProductNat, Zenon
  <2> HIDE DEF x, r
  <2>3. r \in Nat /\ r <= a /\ r < PageSize
    BY <2>1, <2>2
  <2> QED
    BY <2>3 DEF r
<1>2. PageSize \in Nat /\ Word \in Nat \ {0}
  BY ElfAssumption
<1>3. a + PageSize - (a % PageSize) \in Nat
  BY <1>1, <1>2
<1>4. (a + PageSize - (a % PageSize)) % Word \in Nat
  BY <1>2, <1>3
<1> QED
  BY <1>1, <1>4 DEF paging_align_to_lower_page, paging_align_address

LEMMA MapHeaderType ==
    ASSUME NEW dir \in Directories, NEW h \in Phdrs
    PROVE  MapHeader(dir, h) \in MapResults
<1>1. /\ h.offset \in Nat /\ h.vaddr \in Nat /\ h.memsz \in Nat /\ h.writable \in BOOLEAN
      /\ ImageAddress \in Nat /\ Word \in Nat \ {0}
  BY ElfAssumption DEF Phdrs, Addresses
<1> DEFINE phys == (ImageAddress + h.offset) % Word
<1>2. phys \in Nat /\ (phys + h.memsz) % Word \in Nat
  <2>1. phys \in Nat
    BY <1>1
  <2> HIDE DEF phys
  <2> QED
    BY <1>1, <2>1
<1> HIDE DEF phys
<1>3. /\ paging_align_to_lower_page(h.vaddr) \in Nat /\ paging_align_to_lower_page(phys) \in Nat
      /\ paging_align_address((phys + h.memsz) % Word) \in Nat
  BY <1>1, <1>2, AlignTypes
<1> QED
  BY <1>1, <1>3, MapToType DEF MapHeader, phys

(* The loop of process_map_elf: what the directory is after each header. *)
ElfMapped(after, dir, phdrs) ==
    /\ after \in [0 .. Len(phdrs) -> MapResults]
    /\ after[0] = [ok |-> TRUE, dir |-> dir]
    /\ \A k \in 1 .. Len(phdrs) :
          after[k] = IF after[k - 1].ok THEN MapHeader(after[k - 1].dir, phdrs[k])
                     ELSE after[k - 1]
    /\ process_map_elf(dir, phdrs) = after[Len(phdrs)]

LEMMA MapElfLoop ==
    ASSUME NEW dir \in Directories, NEW phdrs \in Seq(Phdrs)
    PROVE  \E after : ElfMapped(after, dir, phdrs)
<1> DEFINE N == Len(phdrs)
           base == [ok |-> TRUE, dir |-> dir]
           Body(g) == [k \in 0 .. N |->
                         IF k = 0 THEN base
                         ELSE IF g[k - 1].ok THEN MapHeader(g[k - 1].dir, phdrs[k])
                         ELSE g[k - 1]]
           after == CHOOSE g : g = Body(g)
           step == [x \in MapResults \X (1 .. N) |->
                      IF x[1].ok THEN MapHeader(x[1].dir, phdrs[x[2]]) ELSE x[1]]
<1>1. N \in Nat /\ \A k \in 1 .. N : phdrs[k] \in Phdrs
  OBVIOUS
<1>2. base \in MapResults
  BY DEF MapResults
<1>3. /\ step \in [MapResults \X (1 .. N) -> MapResults]
      /\ \A x \in MapResults, k \in 1 .. N :
            step[<<x, k>>] = IF x.ok THEN MapHeader(x.dir, phdrs[k]) ELSE x
  <2>1. \A x \in MapResults, k \in 1 .. N : MapHeader(x.dir, phdrs[k]) \in MapResults
    BY <1>1, MapHeaderType DEF MapResults
  <2> QED
    BY <2>1
<1> HIDE DEF step, base, N
<1>4. PICK g : LoopValues(g, N, MapResults, base, step)
  BY <1>1, <1>2, <1>3, LoopHasValues, Zenon
<1>5. ASSUME NEW k \in 0 .. N
      PROVE  g[k] = Body(g)[k]
  <2>1. CASE k = 0
    BY <1>4, <2>1 DEF LoopValues
  <2>2. CASE k # 0
    <3>1. k \in 1 .. N /\ k - 1 \in 0 .. N
      BY <1>1, <2>2
    <3>2. g[k] = step[<<g[k - 1], k>>] /\ g[k - 1] \in MapResults
      BY <1>4, <3>1 DEF LoopValues
    <3> QED
      BY <1>3, <2>2, <3>1, <3>2
  <2> QED
    BY <2>1, <2>2
<1>6. g = Body(g)
  BY <1>4, <1>5 DEF LoopValues
<1>7. after = Body(after)
  BY <1>6
<1>8. process_map_elf(dir, phdrs) = after[N]
  BY DEF process_map_elf, base, N
<1> HIDE DEF after
<1>9. /\ after[0] = base
      /\ \A k \in 1 .. N : after[k] = IF after[k - 1].ok THEN MapHeader(after[k - 1].dir, phdrs[k])
                                      ELSE after[k - 1]
  BY <1>1, <1>7
<1> DEFINE S == {k \in 0 .. N : after[k] \in MapResults}
<1>10. 0 \in S
  BY <1>1, <1>2, <1>9
<1>11. ASSUME NEW k \in S \cap (0 .. N - 1)
       PROVE  k + 1 \in S
  <2>1. k + 1 \in 1 .. N /\ k + 1 - 1 = k /\ after[k] \in MapResults
    BY <1>1
  <2>2. phdrs[k + 1] \in Phdrs /\ after[k].dir \in Directories
    BY <1>1, <2>1 DEF MapResults
  <2>3. MapHeader(after[k].dir, phdrs[k + 1]) \in MapResults
    BY <2>2, MapHeaderType
  <2>4. after[k + 1] \in MapResults
    BY <1>9, <2>1, <2>3
  <2> QED
    BY <1>1, <2>1, <2>4
<1>12. 0 .. N \subseteq S
  <2> HIDE DEF S
  <2> QED
    BY <1>1, <1>10, <1>11, Induction
<1>13. after \in [0 .. N -> MapResults]
  <2>1. after = [k \in 0 .. N |-> after[k]]
    BY <1>7
  <2> QED
    BY <1>12, <2>1
<1>14. ElfMapped(after, dir, phdrs)
  BY <1>8, <1>9, <1>13 DEF ElfMapped, base, N
<1> QED
  BY <1>14

(* The directory of any program has the type of a directory. *)
LEMMA MapPartTypes ==
    ASSUME NEW prog \in Programs
    PROVE  /\ process_map_elf(paging_new_4gb, prog.phdrs) \in MapResults
           /\ process_map_binary(paging_new_4gb, prog.size) \in MapResults
<1>1. prog.size \in Nat /\ prog.phdrs \in Seq(Phdrs)
  BY LoaderAssumption
<1>2. paging_new_4gb \in Directories
  BY DEF paging_new_4gb, Directories, Pages
<1>3. process_map_elf(paging_new_4gb, prog.phdrs) \in MapResults
  <2>1. PICK after : ElfMapped(after, paging_new_4gb, prog.phdrs)
    BY <1>1, <1>2, MapElfLoop
  <2>2. Len(prog.phdrs) \in 0 .. Len(prog.phdrs)
    BY <1>1
  <2> QED
    BY <2>1, <2>2 DEF ElfMapped
<1>4. process_map_binary(paging_new_4gb, prog.size) \in MapResults
  <2> DEFINE end == paging_align_address(ImageAddress + prog.size)
             m == paging_map_to(paging_new_4gb, ProgramAddress, ImageAddress, end, TRUE)
  <2>1. ImageAddress \in Nat /\ ProgramAddress \in Nat /\ ImageAddress + prog.size \in Nat
    BY <1>1, ElfAssumption
  <2>2. end \in Nat
    BY <2>1, AlignTypes
  <2> HIDE DEF end
  <2>3. m \in MapResults
    BY <1>2, <2>1, <2>2, MapToType
  <2> HIDE DEF m
  <2>4. [m EXCEPT !.ok = TRUE] \in MapResults
    BY <2>3 DEF MapResults
  <2> QED
    BY <2>4 DEF process_map_binary, m, end
<1> QED
  BY <1>3, <1>4

LEMMA MapProgramType ==
    ASSUME NEW ft, NEW prog \in Programs
    PROVE  MapProgram(ft, prog) \in MapResults
<1> DEFINE m == IF ft = "elf" THEN process_map_elf(paging_new_4gb, prog.phdrs)
                ELSE process_map_binary(paging_new_4gb, prog.size)
<1>5. m \in MapResults
  BY MapPartTypes
<1> HIDE DEF m
<1>6. MapStack(m.dir) \in Directories
  <2>1. /\ StackEnd \in Nat /\ StackAddress \in Nat /\ StackAddress + StackSize \in Nat
        /\ m.dir \in Directories
    BY <1>5, ElfAssumption DEF MapResults
  <2>2. paging_map_to(m.dir, StackEnd, StackAddress, StackAddress + StackSize, TRUE) \in MapResults
    BY <2>1, MapToType
  <2> QED
    BY <2>2 DEF MapStack, MapResults
<1>7. [m EXCEPT !.dir = MapStack(@)] \in MapResults
  BY <1>5, <1>6 DEF MapResults
<1> QED
  BY <1>5, <1>7 DEF MapProgram, m

LEMMA NewDirectory == paging_new_4gb \in Directories
BY DEF paging_new_4gb, Directories, Pages

-------------------------------------------------------------------------------
(* Each step keeps the invariant. *)

LEMMA InitLoaderInv == LoaderInit => LoaderInv
<1> SUFFICES ASSUME LoaderInit PROVE LoaderInv
  OBVIOUS
<1>1. 0 \in Slots
  BY LoaderAssumption DEF Slots
<1> QED
  BY <1>1, NewDirectory
     DEF LoaderInit, LoaderInv, LoaderShapes, Loading, OthersEmpty, CompleteProcess,
         OpenOnlyReading, ImageOK, Calls

(* A step of a load that goes on: the structs of its slot change, the      *)
(* other slots do not.                                                     *)
LEMMA LoadStep ==
    ASSUME LoaderInv, pc \in Calls, LoaderShapes', slot' = slot, loaded' = loaded,
           \A s \in Slots : s # slot => live'[s] = live[s] /\ filetype'[s] = filetype[s],
           Loading', OpenOnlyReading', ImageOK', pc' = "idle" => live'[slot] = {}
    PROVE  LoaderInv'
<1>1. slot \notin loaded /\ loaded \subseteq Slots
  BY DEF LoaderInv, Loading, LoaderShapes
<1>2. OthersEmpty'
  BY <1>1 DEF LoaderInv, OthersEmpty
<1>3. CompleteProcess'
  BY <1>1 DEF LoaderInv, CompleteProcess
<1> QED
  BY <1>2, <1>3 DEF LoaderInv

(* The kernel goes wild. *)
LEMMA WildKeeps ==
    ASSUME LoaderInv, pc \in Calls, Wild
    PROVE  LoaderInv'
<1>1. /\ pc' = "wild"
      /\ UNCHANGED <<slot, trying, live, file, filetype, loaded, program, bounds, pages>>
  BY DEF Wild, imageVars
<1>2. LoaderShapes' /\ Loading' /\ OpenOnlyReading'
  BY <1>1 DEF LoaderInv, LoaderShapes, Loading, OpenOnlyReading, Calls
<1>3. ImageOK'
  BY <1>1 DEF LoaderInv, ImageOK, Calls
<1> QED
  BY <1>1, <1>2, <1>3, LoadStep

(* A load that fails leaves nothing behind, if the slot held only what     *)
(* process_free_process gives back.                                        *)
LEMMA FailKeeps ==
    ASSUME LoaderInv, pc \in Calls, NEW rest, LoadFails(rest), rest \subseteq process_free_process(slot),
           file' \subseteq file, "descriptor" \notin file'
    PROVE  LoaderInv'
<1>1. /\ pc' = "idle" /\ program' = NoProgram /\ pages' = paging_new_4gb
      /\ UNCHANGED <<slot, trying, filetype, loaded>>
      /\ live' = [live EXCEPT ![slot] = rest \ process_free_process(slot)]
  BY DEF LoadFails
<1>2. slot \in Slots /\ live \in [Slots -> SUBSET Structs]
  BY DEF LoaderInv, LoaderShapes
<1>3. live' = [live EXCEPT ![slot] = {}]
  BY <1>1
<1>4. /\ live' \in [Slots -> SUBSET Structs] /\ live'[slot] = {}
      /\ \A s \in Slots : s # slot => live'[s] = live[s]
  BY <1>2, <1>3
<1>5. LoaderShapes'
  BY <1>1, <1>4 DEF LoaderInv, LoaderShapes
<1>6. Loading' /\ OpenOnlyReading'
  BY <1>1 DEF Loading, OpenOnlyReading, Calls
<1>7. ImageOK'
  BY <1>1, NewDirectory DEF ImageOK
<1> QED
  BY <1>1, <1>4, <1>5, <1>6, <1>7, LoadStep

(* The error exits of elf_load and process_load_binary. *)
LEMMA DataFailsKeeps ==
    ASSUME LoaderInv, pc \in {"open", "stat", "image", "read"}, DataFails
    PROVE  LoaderInv'
<1>1. /\ file' = file \ {"descriptor"}
      /\ LoadFails(live[slot] \ FreedByLoader)
  BY DEF DataFails, fclose
<1>2. /\ trying \in {"elf", "binary"} /\ filetype[slot] = "elf" /\ pc \in Calls
      /\ live[slot] = Attempt \/ live[slot] = Attempt \cup {"image"}
  BY DEF LoaderInv, LoaderShapes, Loading, HoldsAtCall, Calls
<1>3. live[slot] \ FreedByLoader \subseteq process_free_process(slot)
  BY <1>2 DEF Attempt, FreedByLoader, process_free_process
<1> QED
  BY <1>1, <1>2, <1>3, FailKeeps

LEMMA ProcessLoadKeeps ==
    ASSUME LoaderInv, process_load
    PROVE  LoaderInv'
<1>1. /\ pc = "idle" /\ loaded # Slots
      /\ slot' = Min(Slots \ loaded)
      /\ filetype' = [filetype EXCEPT ![slot'] = "elf"]
      /\ trying' = "elf" /\ pc' = "process"
      /\ program' = NoProgram /\ pages' = paging_new_4gb
      /\ UNCHANGED <<live, file, loaded>>
  BY DEF process_load
<1>2. slot' \in Slots \ loaded
  <2>1. Slots \ loaded \subseteq Nat /\ Slots \ loaded # {}
    BY <1>1, LoaderAssumption DEF Slots, LoaderInv, LoaderShapes
  <2> QED
    BY <1>1, <2>1, MinElement
<1>3. live[slot'] = {}
  BY <1>1, <1>2 DEF LoaderInv, OthersEmpty
<1>4. filetype'[slot'] = "elf" /\ \A s \in Slots \ {slot'} : filetype'[s] = filetype[s]
  BY <1>1, <1>2 DEF LoaderInv, LoaderShapes
<1>5. LoaderShapes'
  BY <1>1, <1>2 DEF LoaderInv, LoaderShapes, Calls
<1>6. Loading'
  BY <1>1, <1>2, <1>3, <1>4 DEF Loading, HoldsAtCall
<1>7. OthersEmpty' /\ CompleteProcess'
  BY <1>1, <1>2, <1>4 DEF LoaderInv, LoaderShapes, OthersEmpty, CompleteProcess
<1>8. OpenOnlyReading'
  BY <1>1 DEF LoaderInv, OpenOnlyReading
<1>9. ImageOK'
  BY <1>1, NewDirectory DEF ImageOK
<1> QED
  BY <1>5, <1>6, <1>7, <1>8, <1>9 DEF LoaderInv

(* A step that only allocates: nothing changes but pc and the structs of   *)
(* the slot, which get those of more.                                      *)
LEMMA AllocStep ==
    ASSUME LoaderInv, pc \in Calls, NEW next \in Calls, pc' = next,
           NEW more \in SUBSET Structs, live' = With(slot, more),
           UNCHANGED <<slot, trying, file, filetype, loaded, program, bounds, pages>>,
           Loading', next \in {"stack", "task", "map"} <=> pc \in {"stack", "task", "map"},
           next \notin {"stat", "image", "read", "validate"} =>
               pc \notin {"stat", "image", "read", "validate"}
    PROVE  LoaderInv'
<1>1. /\ live' \in [Slots -> SUBSET Structs]
      /\ \A s \in Slots : s # slot => live'[s] = live[s]
  BY DEF LoaderInv, LoaderShapes, With
<1>2. LoaderShapes'
  BY <1>1 DEF LoaderInv, LoaderShapes
<1>3. OpenOnlyReading'
  BY DEF LoaderInv, OpenOnlyReading, Calls
<1>4. ImageOK'
  BY DEF LoaderInv, ImageOK, Calls
<1>5. next # "idle"
  BY DEF Calls
<1> QED
  BY <1>1, <1>2, <1>3, <1>4, <1>5, LoadStep

(* What is known of the slot of a load. *)
LEMMA AtCall ==
    ASSUME LoaderInv, pc \in Calls
    PROVE  /\ slot \in Slots /\ trying \in {"elf", "binary"} /\ slot \notin loaded
           /\ live \in [Slots -> SUBSET Structs] /\ live[slot] \in SUBSET Structs
           /\ HoldsAtCall
           /\ pc \in {"process", "elf_file", "validate"} => trying = "elf"
           /\ filetype[slot] = IF pc \in {"stack", "task", "map"} THEN trying ELSE "elf"
           /\ \A more : With(slot, more)[slot] = live[slot] \cup more
           /\ \A more : Without(slot, more)[slot] = live[slot] \ more
BY DEF LoaderInv, LoaderShapes, Loading, With, Without

LEMMA AllocProcessKeeps ==
    ASSUME LoaderInv, AllocProcess
    PROVE  LoaderInv'
<1>1. /\ pc = "process" /\ pc \in Calls
      /\ UNCHANGED <<slot, trying, file, filetype, loaded, program, bounds, pages>>
  BY DEF AllocProcess, imageVars, Calls
<1>2. CASE pc' = "elf_file" /\ live' = With(slot, {"process"})
  <2>1. Loading'
    BY <1>1, <1>2, AtCall DEF Loading, HoldsAtCall
  <2>2. {"process"} \in SUBSET Structs /\ "elf_file" \in Calls
    BY DEF Structs, Calls
  <2> QED
    BY <1>1, <1>2, <2>1, <2>2, AllocStep
<1>3. CASE pc' = "idle" /\ UNCHANGED live
  <2>1. Loading' /\ OpenOnlyReading' /\ LoaderShapes'
    BY <1>1, <1>3 DEF LoaderInv, LoaderShapes, Loading, OpenOnlyReading, Calls
  <2>2. live'[slot] = {}
    BY <1>1, <1>3, AtCall DEF HoldsAtCall
  <2>3. program = NoProgram
    BY <1>1 DEF LoaderInv, ImageOK
  <2>4. ImageOK'
    BY <1>1, <1>3, <2>3 DEF LoaderInv, ImageOK, Calls
  <2> QED
    BY <1>1, <1>3, <2>1, <2>2, <2>4, LoadStep
<1> QED
  BY <1>2, <1>3 DEF AllocProcess

LEMMA ElfFileNewKeeps ==
    ASSUME LoaderInv, elf_file_new
    PROVE  LoaderInv'
<1>1. pc = "elf_file" /\ pc \in Calls
  BY DEF elf_file_new, Calls
<1>2. CASE Wild
  BY <1>1, <1>2, WildKeeps
<1>3. CASE /\ pc' = "open" /\ live' = With(slot, {"elf_file"})
           /\ UNCHANGED <<slot, trying, file, filetype, loaded, imageVars>>
  <2>1. Loading'
    BY <1>1, <1>3, AtCall DEF Loading, HoldsAtCall, Attempt
  <2>2. {"elf_file"} \in SUBSET Structs /\ "open" \in Calls
    BY DEF Structs, Calls
  <2> QED
    BY <1>1, <1>3, <2>1, <2>2, AllocStep DEF imageVars
<1> QED
  BY <1>2, <1>3 DEF elf_file_new

LEMMA FopenKeeps ==
    ASSUME LoaderInv, fopen
    PROVE  LoaderInv'
<1>1. pc = "open" /\ pc \in Calls
  BY DEF fopen, Calls
<1>2. CASE DataFails
  BY <1>1, <1>2, DataFailsKeeps
<1>3. CASE Wild
  BY <1>1, <1>3, WildKeeps
<1>4. CASE /\ pc' = "stat" /\ file' = file \cup {"path", "descriptor"}
           /\ UNCHANGED <<slot, trying, live, filetype, loaded, imageVars>>
  <2>1. LoaderShapes' /\ OpenOnlyReading'
    BY <1>4 DEF LoaderInv, LoaderShapes, OpenOnlyReading, Calls
  <2>2. Loading'
    BY <1>1, <1>4, AtCall DEF Loading, HoldsAtCall, Attempt
  <2>3. ImageOK'
    BY <1>1, <1>4 DEF LoaderInv, ImageOK, imageVars, Calls
  <2> QED
    BY <1>1, <1>4, <2>1, <2>2, <2>3, LoadStep
<1> QED
  BY <1>2, <1>3, <1>4 DEF fopen

LEMMA FstatKeeps ==
    ASSUME LoaderInv, fstat
    PROVE  LoaderInv'
<1>1. pc = "stat" /\ pc \in Calls
  BY DEF fstat, Calls
<1>2. CASE DataFails
  BY <1>1, <1>2, DataFailsKeeps
<1>3. CASE pc' = "image" /\ UNCHANGED <<slot, trying, live, file, filetype, loaded, imageVars>>
  <2>1. LoaderShapes' /\ OpenOnlyReading'
    BY <1>3 DEF LoaderInv, LoaderShapes, OpenOnlyReading, Calls
  <2>2. Loading'
    BY <1>1, <1>3, AtCall DEF Loading, HoldsAtCall, Attempt
  <2>3. ImageOK'
    BY <1>1, <1>3 DEF LoaderInv, ImageOK, imageVars, Calls
  <2> QED
    BY <1>1, <1>3, <2>1, <2>2, <2>3, LoadStep
<1> QED
  BY <1>2, <1>3 DEF fstat

LEMMA AllocImageKeeps ==
    ASSUME LoaderInv, AllocImage
    PROVE  LoaderInv'
<1>1. pc = "image" /\ pc \in Calls
  BY DEF AllocImage, Calls
<1>2. CASE DataFails
  BY <1>1, <1>2, DataFailsKeeps
<1>3. CASE Wild
  BY <1>1, <1>3, WildKeeps
<1>4. CASE /\ pc' = "read" /\ live' = With(slot, {"image"})
           /\ UNCHANGED <<slot, trying, file, filetype, loaded, imageVars>>
  <2>1. Loading'
    BY <1>1, <1>4, AtCall DEF Loading, HoldsAtCall, Attempt
  <2>2. {"image"} \in SUBSET Structs /\ "read" \in Calls
    BY DEF Structs, Calls
  <2> QED
    BY <1>1, <1>4, <2>1, <2>2, AllocStep DEF imageVars
<1> QED
  BY <1>2, <1>3, <1>4 DEF AllocImage

LEMMA FreadKeeps ==
    ASSUME LoaderInv, fread
    PROVE  LoaderInv'
<1>1. pc = "read" /\ pc \in Calls
  BY DEF fread, Calls
<1>2. CASE DataFails
  BY <1>1, <1>2, DataFailsKeeps
<1>3. CASE /\ trying = "elf" /\ pc' = "validate"
           /\ UNCHANGED <<slot, trying, live, file, filetype, loaded, imageVars>>
  <2>1. LoaderShapes' /\ OpenOnlyReading'
    BY <1>3 DEF LoaderInv, LoaderShapes, OpenOnlyReading, Calls
  <2>2. Loading'
    BY <1>1, <1>3, AtCall DEF Loading, HoldsAtCall, Attempt
  <2>3. ImageOK'
    BY <1>1, <1>3 DEF LoaderInv, ImageOK, imageVars, Calls
  <2> QED
    BY <1>1, <1>3, <2>1, <2>2, <2>3, LoadStep
<1>4. CASE /\ trying = "binary" /\ pc' = "stack"
           /\ filetype' = [filetype EXCEPT ![slot] = "binary"]
           /\ file' = fclose
           /\ program' \in {p \in Programs : ~elf_validate_loaded(p.header)}
           /\ UNCHANGED <<slot, trying, live, loaded, bounds, pages>>
  <2>1. /\ filetype'[slot] = "binary" /\ \A s \in Slots : s # slot => filetype'[s] = filetype[s]
        /\ filetype' \in [Slots -> {"elf", "binary"}]
    BY <1>1, <1>4 DEF LoaderInv, LoaderShapes
  <2>2. LoaderShapes' /\ OpenOnlyReading'
    BY <1>4, <2>1 DEF LoaderInv, LoaderShapes, OpenOnlyReading, Calls, fclose
  <2>3. Loading'
    BY <1>1, <1>4, <2>1, AtCall DEF Loading, HoldsAtCall, Attempt
  <2>4. ImageOK'
    BY <1>4 DEF LoaderInv, ImageOK
  <2> QED
    BY <1>1, <1>4, <2>1, <2>2, <2>3, <2>4, LoadStep
<1> QED
  BY <1>2, <1>3, <1>4 DEF fread

LEMMA ElfProcessKeeps ==
    ASSUME LoaderInv, elf_process_loaded
    PROVE  LoaderInv'
<1>1. pc = "validate" /\ pc \in Calls /\ trying = "elf" /\ slot \in Slots
  BY AtCall DEF elf_process_loaded, Calls
<1>2. CASE NotElf
  <2>1. /\ file' = file \ {"descriptor"} /\ live' = Without(slot, {"elf_file", "image"})
        /\ trying' = "binary" /\ pc' = "open"
        /\ UNCHANGED <<slot, filetype, loaded, program, bounds, pages>>
    BY <1>1, <1>2 DEF NotElf, fclose, FreedByLoader, imageVars
  <2>2. /\ live' \in [Slots -> SUBSET Structs] /\ live'[slot] = live[slot] \ {"elf_file", "image"}
        /\ \A s \in Slots : s # slot => live'[s] = live[s]
    BY <1>1, <2>1 DEF LoaderInv, LoaderShapes, Without
  <2>3. LoaderShapes' /\ OpenOnlyReading'
    BY <2>1, <2>2 DEF LoaderInv, LoaderShapes, OpenOnlyReading, Calls
  <2>4. Loading'
    BY <1>1, <2>1, <2>2, AtCall DEF Loading, HoldsAtCall, Attempt
  <2>5. ImageOK'
    BY <1>1, <2>1 DEF LoaderInv, ImageOK, Calls
  <2> QED
    BY <1>1, <2>1, <2>2, <2>3, <2>4, <2>5, LoadStep
<1>3. ASSUME NEW p \in Programs, pc' = "stack", file' = fclose, program' = p,
             bounds' = elf_process_pheaders(p.phdrs),
             UNCHANGED <<slot, trying, live, filetype, loaded, pages>>
      PROVE  LoaderInv'
  <2>1. LoaderShapes' /\ OpenOnlyReading'
    BY <1>3 DEF LoaderInv, LoaderShapes, OpenOnlyReading, Calls, fclose
  <2>2. Loading'
    BY <1>1, <1>3, AtCall DEF Loading, HoldsAtCall, Attempt
  <2>3. ImageOK'
    BY <1>3 DEF LoaderInv, ImageOK
  <2> QED
    BY <1>1, <1>3, <2>1, <2>2, <2>3, LoadStep
<1> QED
  BY <1>2, <1>3 DEF elf_process_loaded

LEMMA AllocStackKeeps ==
    ASSUME LoaderInv, AllocStack
    PROVE  LoaderInv'
<1>1. pc = "stack" /\ pc \in Calls
  BY DEF AllocStack, Calls
<1>2. CASE /\ pc' = "task" /\ live' = With(slot, {"stack"})
           /\ UNCHANGED <<slot, trying, file, filetype, loaded, imageVars>>
  <2>1. Loading'
    BY <1>1, <1>2, AtCall DEF Loading, HoldsAtCall, Attempt
  <2>2. {"stack"} \in SUBSET Structs /\ "task" \in Calls
    BY DEF Structs, Calls
  <2> QED
    BY <1>1, <1>2, <2>1, <2>2, AllocStep DEF imageVars
<1>3. CASE LoadFails(live[slot]) /\ UNCHANGED file
  <2>1. live[slot] \subseteq process_free_process(slot)
    BY <1>1, AtCall DEF HoldsAtCall, Attempt, process_free_process, DataSet
  <2>2. "descriptor" \notin file
    BY <1>1 DEF LoaderInv, OpenOnlyReading
  <2> QED
    BY <1>1, <1>3, <2>1, <2>2, FailKeeps
<1> QED
  BY <1>2, <1>3 DEF AllocStack

LEMMA TaskNewKeeps ==
    ASSUME LoaderInv, task_new
    PROVE  LoaderInv'
<1>1. pc = "task" /\ pc \in Calls
  BY DEF task_new, Calls
<1>2. CASE Wild
  BY <1>1, <1>2, WildKeeps
<1>3. ASSUME NEW more \in {{"task", "directory"}, {}}, pc' = "map", live' = With(slot, more),
             UNCHANGED <<slot, trying, file, filetype, loaded, imageVars>>
      PROVE  LoaderInv'
  <2>1. Loading'
    <3>1. /\ live'[slot'] = live[slot] \cup more /\ live[slot] = Attempt \cup {"image", "stack"}
          /\ slot \notin loaded /\ filetype[slot] = trying
      BY <1>1, <1>3, AtCall DEF HoldsAtCall
    <3>2. Attempt' = Attempt
      BY <1>3 DEF Attempt
    <3>3. HoldsAtCall'
      BY <1>3, <3>1, <3>2 DEF HoldsAtCall
    <3> QED
      BY <1>3, <3>1, <3>3 DEF Loading
  <2>2. more \in SUBSET Structs /\ "map" \in Calls
    BY DEF Structs, Calls
  <2> QED
    BY <1>1, <1>3, <2>1, <2>2, AllocStep DEF imageVars
<1>4. live = With(slot, {})
  BY <1>1, AtCall DEF With
<1> QED
  BY <1>2, <1>3, <1>4 DEF task_new

LEMMA MapMemoryKeeps ==
    ASSUME LoaderInv, process_map_memory
    PROVE  LoaderInv'
<1> DEFINE mapped == MapProgram(filetype[slot], program)
<1>1. pc = "map" /\ pc \in Calls
  BY DEF process_map_memory, Calls
<1>2. CASE Wild
  BY <1>1, <1>2, WildKeeps
<1>3. CASE LoadFails(live[slot]) /\ UNCHANGED file
  <2>1. live[slot] \subseteq process_free_process(slot)
    BY <1>1, AtCall DEF HoldsAtCall, Attempt, process_free_process, DataSet
  <2>2. "descriptor" \notin file
    BY <1>1 DEF LoaderInv, OpenOnlyReading
  <2> QED
    BY <1>1, <1>3, <2>1, <2>2, FailKeeps
<1>4. CASE /\ Has("task") /\ mapped.ok
           /\ pc' = "idle"
           /\ loaded' = loaded \cup {slot}
           /\ pages' = mapped.dir
           /\ UNCHANGED <<slot, trying, live, file, filetype, program, bounds>>
  <2>1. /\ slot \in Slots /\ slot \notin loaded /\ filetype[slot] = trying
        /\ live[slot] = Attempt \cup {"image", "stack", "task", "directory"}
    BY <1>1, <1>4, AtCall DEF HoldsAtCall, Attempt, Has
  <2>2. LoaderShapes' /\ Loading' /\ OpenOnlyReading'
    BY <1>1, <1>4, <2>1 DEF LoaderInv, LoaderShapes, Loading, OpenOnlyReading, Calls
  <2>3. OthersEmpty'
    BY <1>1, <1>4 DEF LoaderInv, OthersEmpty
  <2>4. CompleteProcess'
    BY <1>4, <2>1 DEF LoaderInv, CompleteProcess, Attempt
  <2>5. ImageOK'
    <3>1. /\ program \in Programs
          /\ trying = "elf" => bounds = elf_process_pheaders(program.phdrs)
      BY <1>1 DEF LoaderInv, ImageOK
    <3>2. mapped.dir \in Directories
      BY <3>1, MapProgramType DEF MapResults
    <3> HIDE DEF mapped
    <3>3. /\ pages' \in Directories /\ program' \in Programs /\ mapped' = mapped
          /\ filetype'[slot'] = "elf" => bounds' = elf_process_pheaders(program'.phdrs)
      BY <1>4, <2>1, <3>1, <3>2 DEF mapped
    <3>4. mapped'.ok /\ pages' = mapped'.dir
      BY <1>4, <3>3
    <3> QED
      BY <1>4, <3>3, <3>4 DEF ImageOK, mapped, Calls
  <2> QED
    BY <2>2, <2>3, <2>4, <2>5 DEF LoaderInv
<1> QED
  BY <1>2, <1>3, <1>4 DEF process_map_memory

LEMMA LoaderTerminateKeeps ==
    ASSUME LoaderInv, NEW s \in Slots, process_terminate(s)
    PROVE  LoaderInv'
<1>1. /\ pc = "idle" /\ s \in loaded /\ loaded' = loaded \ {s}
      /\ live' = Without(s, process_free_process(s))
      /\ program' = NoProgram /\ pages' = paging_new_4gb
      /\ UNCHANGED <<pc, slot, trying, file, filetype>>
  BY DEF process_terminate
<1>2. live[s] \subseteq process_free_process(s)
  BY <1>1 DEF LoaderInv, LoaderShapes, CompleteProcess, process_free_process, DataSet
<1>3. /\ live' \in [Slots -> SUBSET Structs] /\ live'[s] = {}
      /\ \A t \in Slots \ {s} : live'[t] = live[t]
  BY <1>1, <1>2 DEF LoaderInv, LoaderShapes, Without
<1>4. LoaderShapes' /\ Loading' /\ OpenOnlyReading'
  BY <1>1, <1>3 DEF LoaderInv, LoaderShapes, Loading, OpenOnlyReading, Calls
<1>5. OthersEmpty'
  BY <1>1, <1>3 DEF LoaderInv, OthersEmpty
<1>6. CompleteProcess'
  BY <1>1, <1>3 DEF LoaderInv, LoaderShapes, CompleteProcess
<1>7. ImageOK'
  BY <1>1, NewDirectory DEF ImageOK, Calls
<1> QED
  BY <1>4, <1>5, <1>6, <1>7 DEF LoaderInv

(* The inductive invariant holds: it names what a load holds before each   *)
(* of its calls.                                                           *)
THEOREM LoaderInvariant == LoaderSpec => []LoaderInv
<1>1. LoaderInv /\ [LoaderNext]_loaderVars => LoaderInv'
  <2> SUFFICES ASSUME LoaderInv, [LoaderNext]_loaderVars
               PROVE  LoaderInv'
    OBVIOUS
  <2>1. CASE UNCHANGED loaderVars
    BY <2>1 DEF loaderVars, LoaderInv, LoaderShapes, Loading, HoldsAtCall, Attempt, OthersEmpty,
                CompleteProcess, OpenOnlyReading, ImageOK
  <2>2. CASE process_load
    BY <2>2, ProcessLoadKeeps
  <2>3. CASE AllocProcess
    BY <2>3, AllocProcessKeeps
  <2>4. CASE elf_file_new
    BY <2>4, ElfFileNewKeeps
  <2>5. CASE fopen
    BY <2>5, FopenKeeps
  <2>6. CASE fstat
    BY <2>6, FstatKeeps
  <2>7. CASE AllocImage
    BY <2>7, AllocImageKeeps
  <2>8. CASE fread
    BY <2>8, FreadKeeps
  <2>9. CASE elf_process_loaded
    BY <2>9, ElfProcessKeeps
  <2>10. CASE AllocStack
    BY <2>10, AllocStackKeeps
  <2>11. CASE task_new
    BY <2>11, TaskNewKeeps
  <2>12. CASE process_map_memory
    BY <2>12, MapMemoryKeeps
  <2>13. CASE \E s \in Slots : process_terminate(s)
    BY <2>13, LoaderTerminateKeeps
  <2> QED
    BY <2>1, <2>2, <2>3, <2>4, <2>5, <2>6, <2>7, <2>8, <2>9, <2>10, <2>11, <2>12, <2>13
       DEF LoaderNext
<1> QED
  BY <1>1, InitLoaderInv, PTL DEF LoaderSpec

(* The loader's state keeps its types, also the page directory that        *)
(* process_map_memory builds from the program headers.                     *)
THEOREM LoaderTypeCorrect == LoaderSpec => []LoaderTypeOK
<1>1. LoaderInv => LoaderTypeOK
  <2> SUFFICES ASSUME LoaderInv PROVE LoaderTypeOK
    OBVIOUS
  <2>1. program.size \in Nat
    BY LoaderAssumption DEF LoaderInv, ImageOK, NoProgram
  <2>2. \A p \in Pages : pages[p].page \in Nat /\ pages[p].writable \in BOOLEAN
    BY DEF LoaderInv, ImageOK, Directories
  <2> QED
    BY <2>1, <2>2 DEF LoaderInv, LoaderShapes, LoaderTypeOK
<1> QED
  BY <1>1, LoaderInvariant, PTL

(* Whichever call of a load fails, nothing of it stays allocated.          *)
THEOREM LoadsLeaveNothing == LoaderSpec => []NothingLeft
<1>1. LoaderInv => NothingLeft
  BY DEF LoaderInv, OthersEmpty, NothingLeft
<1> QED
  BY <1>1, LoaderInvariant, PTL

(* A process in the table has all its structs and none of an attempt that  *)
(* was given up.                                                           *)
THEOREM ProcessesComplete == LoaderSpec => []CompleteProcess
<1>1. LoaderInv => CompleteProcess
  BY DEF LoaderInv
<1> QED
  BY <1>1, LoaderInvariant, PTL

(* No file stays open after a load, however it ended. *)
THEOREM LoadsCloseFiles == LoaderSpec => []FilesClosed
<1>1. LoaderInv => FilesClosed
  BY DEF LoaderInv, OpenOnlyReading, FilesClosed
<1> QED
  BY <1>1, LoaderInvariant, PTL

-------------------------------------------------------------------------------
(* Where the pages lead.  An aligned address is written PageSize * n for   *)
(* the page n, and the lemmas below count in pages.                        *)

(* The page of an address is the one between whose ends it is. *)
LEMMA PageIs ==
    ASSUME NEW n \in Nat, NEW r \in 0 .. PageSize - 1
    PROVE  Page(PageSize * n + r) = n /\ (PageSize * n + r) % PageSize = r
<1>1. PageSize \in Nat \ {0} /\ n \in Int
  BY ElfAssumption
<1> QED
  BY <1>1, ModUnique, Zenon DEF Page

LEMMA AlignedPage ==
    ASSUME NEW n \in Nat
    PROVE  Page(PageSize * n) = n /\ (PageSize * n) % PageSize = 0 /\ PageSize * n \in Nat
<1>1. PageSize \in Nat \ {0} /\ 0 \in 0 .. PageSize - 1
  BY ElfAssumption
<1>2. Page(PageSize * n + 0) = n /\ (PageSize * n + 0) % PageSize = 0
  BY <1>1, PageIs, Zenon
<1>3. PageSize * n \in Nat
  BY <1>1, ProductNat, Zenon
<1>4. PageSize * n + 0 = PageSize * n
  BY <1>3
<1> QED
  BY <1>2, <1>3, <1>4

LEMMA LowerPage ==
    ASSUME NEW a \in Nat
    PROVE  paging_align_to_lower_page(a) = PageSize * Page(a)
<1> DEFINE x == PageSize * Page(a)
           r == a % PageSize
<1>1. a = x + r /\ r \in 0 .. PageSize - 1 /\ PageSize \in Nat
  BY PageOf, ElfAssumption
<1>2. x \in Nat
  BY PageOf, AlignedPage
<1> HIDE DEF x, r
<1>3. a - r = x
  BY <1>1, <1>2
<1> QED
  BY <1>3 DEF paging_align_to_lower_page, x, r

(* Rounding up: to the next page, or to 0 at the end of the address space. *)
LEMMA UpperPage ==
    ASSUME NEW a \in Nat, a < Word
    PROVE  \E u \in Nat :
              /\ paging_align_address(a) = PageSize * u
              /\ \/ a <= PageSize * u /\ PageSize * u < a + PageSize
                 \/ u = 0 /\ a + PageSize > Word
<1> DEFINE q == Page(a)
           r == a % PageSize
           x == PageSize * q
           w == Page(Word)
           z == PageSize * w
<1>1. PageSize \in Nat \ {0} /\ Word \in Nat \ {0} /\ Word % PageSize = 0
  BY ElfAssumption
<1>2. q \in Nat /\ r \in 0 .. PageSize - 1 /\ a = x + r
  BY PageOf
<1>3. w \in Nat /\ Word = z
  <2>1. w \in Nat /\ Word = z + (Word % PageSize)
    BY <1>1, PageOf
  <2>2. z \in Nat
    BY <2>1, AlignedPage
  <2> HIDE DEF z
  <2> QED
    BY <1>1, <2>1, <2>2
<1>4. x \in Nat /\ z \in Nat
  BY <1>2, <1>3, AlignedPage
<1>5. CASE r = 0
  <2>1. paging_align_address(a) = a
    BY <1>5 DEF paging_align_address
  <2> HIDE DEF x, q, r
  <2>2. a = x /\ a < a + PageSize
    BY <1>1, <1>2, <1>4, <1>5
  <2>3. /\ paging_align_address(a) = PageSize * q
        /\ a <= PageSize * q /\ PageSize * q < a + PageSize
    BY <2>1, <2>2 DEF x
  <2> QED
    BY <1>2, <2>3
<1>6. CASE r # 0
  <2> DEFINE y == PageSize * (q + 1)
  <2>1. paging_align_address(a) = (a + PageSize - r) % Word
    BY <1>6 DEF paging_align_address
  <2>2. y = x + PageSize
    BY <1>1, <1>2
  <2>3. y <= z
    <3>1. PageSize * q < PageSize * w
      <4> HIDE DEF x, z, r, q, w
      <4>1. x < z
        BY <1>1, <1>2, <1>3, <1>4
      <4> QED
        BY <4>1 DEF x, z
    <3>2. q < w
      <4>1. PageSize \in Nat \ {0} /\ q \in Int /\ w \in Int
        BY <1>1, <1>2, <1>3
      <4> QED
        BY <3>1, <4>1, FactorOrder, Zenon
    <3>3. q + 1 <= w /\ q + 1 \in Int /\ w \in Int
      BY <1>2, <1>3, <3>2
    <3>4. PageSize * (q + 1) <= PageSize * w
      BY <1>1, <3>3, FactorOrder, Zenon
    <3> QED
      BY <3>4
  <2> HIDE DEF x, z, y, r, q, w
  <2>4. a + PageSize - r = y /\ y \in Nat /\ a <= y /\ y < a + PageSize
    BY <1>1, <1>2, <1>4, <1>6, <2>2
  <2>5. CASE y < z
    <3>1. y % Word = y
      BY <1>1, <1>3, <1>4, <2>4, <2>5
    <3>2. q + 1 \in Nat
      BY <1>2
    <3> QED
      BY <2>1, <2>4, <3>1, <3>2 DEF y
  <2>6. CASE y = z
    <3>1. y % Word = 0
      BY <1>1, <1>3, <1>4, <2>6
    <3>2. PageSize * 0 = 0 /\ 0 \in Nat /\ a + PageSize > Word
      BY <1>1, <1>3, <2>4, <2>6
    <3> QED
      BY <2>1, <2>4, <3>1, <3>2
  <2> QED
    BY <1>4, <2>3, <2>4, <2>5, <2>6
<1> QED
  BY <1>5, <1>6

(* From page v on, m maps the pages f .. e - 1; the others are those of    *)
(* dir.                                                                    *)
Entry(v, f, p, writable) == [page |-> f + p - v, writable |-> writable]

MapsPages(m, dir, v, f, e, writable) ==
    /\ m.ok <=> e >= f
    /\ \A p \in Pages :
          m.dir[p] = IF e >= f /\ p \in v .. v + (e - f) - 1
                     THEN Entry(v, f, p, writable) ELSE dir[p]

(* paging_map_to in pages. *)
LEMMA MapPages ==
    ASSUME NEW dir, NEW v \in Nat, NEW f \in Nat, NEW e \in Nat, NEW writable
    PROVE  MapsPages(paging_map_to(dir, PageSize * v, PageSize * f, PageSize * e, writable),
                     dir, v, f, e, writable)
<1> DEFINE V == PageSize * v
           F == PageSize * f
           E == PageSize * e
<1>1. PageSize \in Nat \ {0}
  BY ElfAssumption
<1>2. Page(V) = v /\ Page(F) = f /\ V \in Nat /\ F \in Nat /\ E \in Nat
  BY AlignedPage
<1>3. E >= F <=> e >= f
  <2>1. f \in Int /\ e \in Int
    OBVIOUS
  <2>2. F <= E <=> f <= e
    BY <1>1, <2>1, FactorOrder, Zenon
  <2> HIDE DEF E, F
  <2> QED
    BY <1>2, <2>1, <2>2
<1>4. e >= f => Page(E - F) = e - f
  <2> SUFFICES ASSUME e >= f PROVE Page(E - F) = e - f
    OBVIOUS
  <2>1. e - f \in Nat
    OBVIOUS
  <2>2. E - F = PageSize * (e - f)
    BY <1>1
  <2> QED
    BY <2>1, <2>2, AlignedPage
<1> HIDE DEF V, F, E
<1> DEFINE m == paging_map_to(dir, V, F, E, writable)
<1>5. m =
         [ok |-> E >= F,
          dir |-> [p \in Pages |->
                     IF E >= F /\ p \in Page(V) .. Page(V) + Page(E - F) - 1
                     THEN [page |-> Page(F) + p - Page(V), writable |-> writable]
                     ELSE dir[p]]]
  BY DEF paging_map_to
<1>6. m.ok = (E >= F)
  BY <1>5
<1>7. ASSUME NEW p \in Pages
      PROVE  m.dir[p] = IF e >= f /\ p \in v .. v + (e - f) - 1
                        THEN Entry(v, f, p, writable) ELSE dir[p]
  <2>1. m.dir[p] = IF E >= F /\ p \in Page(V) .. Page(V) + Page(E - F) - 1
                   THEN [page |-> Page(F) + p - Page(V), writable |-> writable] ELSE dir[p]
    BY <1>5
  <2>2. E >= F /\ p \in Page(V) .. Page(V) + Page(E - F) - 1 <=> e >= f /\ p \in v .. v + (e - f) - 1
    BY <1>2, <1>3, <1>4
  <2> QED
    BY <1>2, <2>1, <2>2 DEF Entry
<1>8. MapsPages(m, dir, v, f, e, writable)
  <2> HIDE DEF m
  <2> QED
    BY <1>3, <1>6, <1>7 DEF MapsPages
<1> QED
  BY <1>8 DEF V, F, E

LEMMA AlignedIs ==
    ASSUME NEW a \in Nat, a % PageSize = 0
    PROVE  a = PageSize * Page(a) /\ Page(a) \in Nat
<1> DEFINE x == PageSize * Page(a)
<1>1. a = x + (a % PageSize) /\ Page(a) \in Nat
  BY PageOf
<1>2. x \in Nat
  BY <1>1, AlignedPage
<1> HIDE DEF x
<1>3. a = x
  BY <1>1, <1>2
<1> QED
  BY <1>1, <1>3 DEF x

(* A later address is not on an earlier page. *)
LEMMA PageOrder ==
    ASSUME NEW a \in Nat, NEW b \in Nat, a <= b
    PROVE  Page(a) <= Page(b)
<1> DEFINE x == PageSize * Page(a)
           y == PageSize * Page(b)
           z == PageSize * (Page(b) + 1)
<1>1. /\ PageSize \in Nat \ {0} /\ Page(a) \in Nat /\ Page(b) \in Nat
      /\ a = x + (a % PageSize) /\ b = y + (b % PageSize)
      /\ a % PageSize \in 0 .. PageSize - 1 /\ b % PageSize \in 0 .. PageSize - 1
  BY PageOf, ElfAssumption
<1>2. x \in Nat /\ y \in Nat
  BY <1>1, AlignedPage
<1>6. z = y + PageSize
  <2>1. ASSUME NEW n \in Nat, NEW q \in Nat PROVE n * (q + 1) = n * q + n
    OBVIOUS
  <2> QED
    BY <1>1, <2>1
<1> HIDE DEF x, y, z
<1>3. x < z
  BY <1>1, <1>2, <1>6
<1>4. Page(a) \in Int /\ Page(b) + 1 \in Int
  BY <1>1
<1>5. Page(a) < Page(b) + 1
  BY <1>1, <1>3, <1>4, FactorOrder, Zenon DEF x, z
<1> QED
  BY <1>1, <1>5

(* A program header: the pages that MapHeader maps. *)
Phys(h) == (ImageAddress + h.offset) % Word
Ends(h) == (Phys(h) + h.memsz) % Word

HeaderSpan(h, e) ==
    /\ e \in Nat
    /\ \/ Ends(h) <= PageSize * e /\ PageSize * e < Ends(h) + PageSize
       \/ e = 0 /\ Ends(h) + PageSize > Word

LEMMA HeaderMaps ==
    ASSUME NEW h \in Phdrs
    PROVE  \E e : /\ HeaderSpan(h, e)
                  /\ \A dir : MapsPages(MapHeader(dir, h), dir, Page(h.vaddr), Page(Phys(h)), e,
                                        h.writable)
<1>1. /\ h.offset \in Nat /\ h.vaddr \in Nat /\ h.memsz \in Nat
      /\ ImageAddress \in Nat /\ Word \in Nat \ {0}
  BY ElfAssumption DEF Phdrs, Addresses
<1>2. Phys(h) \in Nat
  BY <1>1 DEF Phys
<1>3. Ends(h) \in Nat /\ Ends(h) < Word
  BY <1>1, <1>2 DEF Ends
<1>4. PICK e \in Nat :
         /\ paging_align_address(Ends(h)) = PageSize * e
         /\ \/ Ends(h) <= PageSize * e /\ PageSize * e < Ends(h) + PageSize
            \/ e = 0 /\ Ends(h) + PageSize > Word
  BY <1>3, UpperPage
<1> DEFINE v == Page(h.vaddr)
           f == Page(Phys(h))
<1>5. /\ paging_align_to_lower_page(h.vaddr) = PageSize * v /\ v \in Nat
      /\ paging_align_to_lower_page(Phys(h)) = PageSize * f /\ f \in Nat
  BY <1>1, <1>2, LowerPage, PageOf
<1>6. ASSUME NEW dir
      PROVE  MapHeader(dir, h) =
                paging_map_to(dir, PageSize * v, PageSize * f, PageSize * e, h.writable)
  BY <1>4, <1>5 DEF MapHeader, Phys, Ends
<1>7. ASSUME NEW dir
      PROVE  MapsPages(MapHeader(dir, h), dir, v, f, e, h.writable)
  <2> HIDE DEF v, f
  <2>1. v \in Nat /\ f \in Nat /\ e \in Nat
    BY <1>5
  <2>2. MapsPages(paging_map_to(dir, PageSize * v, PageSize * f, PageSize * e, h.writable),
                  dir, v, f, e, h.writable)
    BY <2>1, MapPages, Zenon
  <2> QED
    BY <1>6, <2>2
<1>8. HeaderSpan(h, e)
  BY <1>4 DEF HeaderSpan
<1> QED
  BY <1>7, <1>8

(* The stack. *)
LEMMA StackMaps ==
    ASSUME NEW dir
    PROVE  LET v == Page(StackEnd)
               f == Page(StackAddress)
               n == Page(StackSize)
           IN  /\ v \in Nat /\ f \in Nat /\ n \in Nat /\ Page(StackAddress + StackSize) = f + n
               /\ \A p \in Pages : MapStack(dir)[p] =
                      IF p \in v .. v + n - 1 THEN Entry(v, f, p, TRUE) ELSE dir[p]
<1> DEFINE v == Page(StackEnd)
           f == Page(StackAddress)
           n == Page(StackSize)
           e == f + n
           m == paging_map_to(dir, PageSize * v, PageSize * f, PageSize * e, TRUE)
<1>1. /\ StackEnd \in Nat /\ StackEnd % PageSize = 0
      /\ StackAddress \in Nat /\ StackAddress % PageSize = 0
      /\ StackSize \in Nat /\ StackSize % PageSize = 0 /\ PageSize \in Nat
  BY ElfAssumption
<1>2. /\ v \in Nat /\ StackEnd = PageSize * v
      /\ f \in Nat /\ StackAddress = PageSize * f
      /\ n \in Nat /\ StackSize = PageSize * n
  BY <1>1, AlignedIs
<1> HIDE DEF v, f, n
<1>3. StackAddress + StackSize = PageSize * e /\ e \in Nat
  BY <1>1, <1>2
<1>4. Page(StackAddress + StackSize) = e
  BY <1>3, AlignedPage
<1>5. MapStack(dir) = m.dir
  BY <1>2, <1>3 DEF MapStack
<1>6. MapsPages(m, dir, v, f, e, TRUE)
  <2> HIDE DEF e
  <2> QED
    BY <1>2, <1>3, MapPages, Zenon
<1> HIDE DEF m
<1>7. \A p \in Pages : MapStack(dir)[p] =
         IF e >= f /\ p \in v .. v + (e - f) - 1 THEN Entry(v, f, p, TRUE) ELSE dir[p]
  BY <1>5, <1>6 DEF MapsPages
<1>8. e >= f /\ e - f = n
  BY <1>2
<1>9. \A p \in Pages : MapStack(dir)[p] =
         IF p \in v .. v + n - 1 THEN Entry(v, f, p, TRUE) ELSE dir[p]
  <2> HIDE DEF e
  <2> QED
    BY <1>7, <1>8
<1> QED
  BY <1>2, <1>4, <1>9 DEF v, f, n

-------------------------------------------------------------------------------
(* The writable pages of a process. *)

Inside(dir, lo, hi) == \A p \in Pages : dir[p].writable => dir[p].page \in lo .. hi - 1

Fits(phdrs, ends) ==
    \A k \in DOMAIN phdrs : ImageAddress + phdrs[k].offset + phdrs[k].memsz <= ends

LEMMA MapsInside ==
    ASSUME NEW m, NEW dir, NEW v \in Nat, NEW f \in Nat, NEW e \in Nat, NEW w,
           NEW lo \in Nat, NEW hi \in Nat,
           MapsPages(m, dir, v, f, e, w), Inside(dir, lo, hi), lo <= f, e <= hi
    PROVE  Inside(m.dir, lo, hi)
<1> SUFFICES ASSUME NEW p \in Pages, m.dir[p].writable
             PROVE  m.dir[p].page \in lo .. hi - 1
  BY DEF Inside
<1>1. p \in Int
  BY DEF Pages
<1>2. m.dir[p] = IF e >= f /\ p \in v .. v + (e - f) - 1 THEN Entry(v, f, p, w) ELSE dir[p]
  BY DEF MapsPages
<1>3. CASE e >= f /\ p \in v .. v + (e - f) - 1
  <2>1. m.dir[p].page = f + p - v
    BY <1>2, <1>3 DEF Entry
  <2> QED
    BY <1>1, <1>3, <2>1
<1>4. CASE ~(e >= f /\ p \in v .. v + (e - f) - 1)
  BY <1>2, <1>4 DEF Inside
<1> QED
  BY <1>3, <1>4

(* A header that fits into the image maps pages of the image. *)
LEMMA HeaderInside ==
    ASSUME NEW h \in Phdrs, NEW u \in Nat, PageSize * u < Word, NEW dir,
           ImageAddress + h.offset + h.memsz <= PageSize * u,
           Inside(dir, Page(ImageAddress), u)
    PROVE  Inside(MapHeader(dir, h).dir, Page(ImageAddress), u)
<1> DEFINE a == ImageAddress + h.offset
           b == a + h.memsz
           U == PageSize * u
<1>1. /\ h.offset \in Nat /\ h.vaddr \in Nat /\ h.memsz \in Nat /\ ImageAddress \in Nat
      /\ Word \in Nat \ {0} /\ PageSize \in Nat \ {0} /\ U \in Nat
  BY ElfAssumption, AlignedPage DEF Phdrs, Addresses
<1>2. a \in Nat /\ b \in Nat /\ ImageAddress <= a /\ a <= b /\ b <= U /\ a < Word /\ b < Word
  <2> HIDE DEF U
  <2> QED
    BY <1>1 DEF U
<1>3. Phys(h) = a /\ Ends(h) = b
  <2>1. a % Word = a /\ b % Word = b
    <3> HIDE DEF a, b, U
    <3> QED
      BY <1>1, <1>2
  <2> QED
    BY <2>1 DEF Phys, Ends
<1>4. PICK e : /\ HeaderSpan(h, e)
               /\ MapsPages(MapHeader(dir, h), dir, Page(h.vaddr), Page(a), e, h.writable)
  BY <1>3, HeaderMaps, Zenon
<1>5. Page(h.vaddr) \in Nat /\ Page(a) \in Nat /\ Page(ImageAddress) \in Nat
  BY <1>1, <1>2, PageOf
<1>6. Page(ImageAddress) <= Page(a)
  BY <1>1, <1>2, PageOrder
<1>7. e \in Nat /\ e <= u
  <2>1. CASE e = 0
    BY <2>1
  <2>2. CASE e \in Nat /\ PageSize * e < b + PageSize
    <3> DEFINE x == PageSize * e
               y == PageSize * (u + 1)
    <3>1. y = U + PageSize /\ x \in Nat
      BY <1>1, <2>2, AlignedPage
    <3>2. x < y
      <4> HIDE DEF x, y, U, b
      <4> QED
        BY <1>1, <1>2, <2>2, <3>1 DEF x
    <3>3. e \in Int /\ u + 1 \in Int
      BY <2>2
    <3>4. e < u + 1
      BY <1>1, <3>2, <3>3, FactorOrder, Zenon
    <3> QED
      BY <2>2, <3>4
  <2> QED
    BY <1>3, <1>4, <2>1, <2>2 DEF HeaderSpan
<1> DEFINE m == MapHeader(dir, h)
           v == Page(h.vaddr)
           f == Page(a)
           lo == Page(ImageAddress)
<1>8. /\ v \in Nat /\ f \in Nat /\ lo \in Nat /\ lo <= f
      /\ MapsPages(m, dir, v, f, e, h.writable) /\ Inside(dir, lo, u)
  BY <1>4, <1>5, <1>6
<1> HIDE DEF m, v, f, lo
<1>9. Inside(m.dir, lo, u)
  BY <1>7, <1>8, MapsInside, Zenon
<1> QED
  BY <1>9 DEF m, lo

LEMMA ElfInside ==
    ASSUME NEW phdrs \in Seq(Phdrs), NEW u \in Nat, PageSize * u < Word, Fits(phdrs, PageSize * u)
    PROVE  Inside(process_map_elf(paging_new_4gb, phdrs).dir, Page(ImageAddress), u)
<1> DEFINE N == Len(phdrs)
           In(k, after) == Inside(after[k].dir, Page(ImageAddress), u)
<1>1. N \in Nat /\ \A k \in 1 .. N : phdrs[k] \in Phdrs /\ k \in DOMAIN phdrs
  OBVIOUS
<1>2. PICK after : ElfMapped(after, paging_new_4gb, phdrs)
  BY NewDirectory, MapElfLoop
<1> DEFINE S == {k \in 0 .. N : In(k, after)}
<1>3. 0 \in S
  <2>1. after[0].dir = paging_new_4gb
    BY <1>2 DEF ElfMapped
  <2>2. Inside(paging_new_4gb, Page(ImageAddress), u)
    BY DEF Inside, paging_new_4gb
  <2> QED
    BY <1>1, <2>1, <2>2
<1>4. ASSUME NEW k \in S \cap (0 .. N - 1)
      PROVE  k + 1 \in S
  <2>1. k + 1 \in 1 .. N /\ k + 1 - 1 = k /\ In(k, after)
    BY <1>1
  <2>2. after[k + 1] = IF after[k].ok THEN MapHeader(after[k].dir, phdrs[k + 1]) ELSE after[k]
    BY <1>2, <2>1 DEF ElfMapped
  <2> DEFINE h == phdrs[k + 1]
             d == after[k].dir
  <2>3. h \in Phdrs /\ ImageAddress + h.offset + h.memsz <= PageSize * u
    BY <1>1, <2>1 DEF Fits
  <2>4. Inside(d, Page(ImageAddress), u)
    BY <2>1
  <2> HIDE DEF h, d
  <2>5. Inside(MapHeader(d, h).dir, Page(ImageAddress), u)
    BY <2>3, <2>4, HeaderInside, Zenon
  <2>6. In(k + 1, after)
    BY <2>2, <2>4, <2>5 DEF h, d
  <2> QED
    BY <2>1, <2>6, <1>1
<1>5. 0 .. N \subseteq S
  <2> HIDE DEF S
  <2> QED
    BY <1>1, <1>3, <1>4, Induction
<1>6. In(N, after)
  BY <1>1, <1>5
<1> QED
  BY <1>2, <1>6 DEF ElfMapped

(* The flat image. *)
LEMMA BinaryMaps ==
    ASSUME NEW size \in Nat, NEW u \in Nat,
           paging_align_address(ImageAddress + size) = PageSize * u
    PROVE  /\ Page(ProgramAddress) \in Nat /\ Page(ImageAddress) \in Nat
           /\ \A p \in Pages :
                 process_map_binary(paging_new_4gb, size).dir[p] =
                     IF u >= Page(ImageAddress)
                        /\ p \in Page(ProgramAddress) .. Page(ProgramAddress) + (u - Page(ImageAddress)) - 1
                     THEN Entry(Page(ProgramAddress), Page(ImageAddress), p, TRUE)
                     ELSE paging_new_4gb[p]
<1> DEFINE v == Page(ProgramAddress)
           f == Page(ImageAddress)
           m == paging_map_to(paging_new_4gb, PageSize * v, PageSize * f, PageSize * u, TRUE)
<1>1. /\ ProgramAddress \in Nat /\ ProgramAddress % PageSize = 0
      /\ ImageAddress \in Nat /\ ImageAddress % PageSize = 0
  BY ElfAssumption
<1>2. /\ v \in Nat /\ ProgramAddress = PageSize * v
      /\ f \in Nat /\ ImageAddress = PageSize * f
  BY <1>1, AlignedIs
<1> HIDE DEF v, f
<1>3. process_map_binary(paging_new_4gb, size) = [m EXCEPT !.ok = TRUE]
  BY <1>2 DEF process_map_binary
<1>4. MapsPages(m, paging_new_4gb, v, f, u, TRUE)
  BY <1>2, MapPages, Zenon
<1>5. process_map_binary(paging_new_4gb, size).dir = m.dir
  BY <1>3 DEF paging_map_to
<1> HIDE DEF m
<1>6. \A p \in Pages : process_map_binary(paging_new_4gb, size).dir[p] =
         IF u >= f /\ p \in v .. v + (u - f) - 1 THEN Entry(v, f, p, TRUE) ELSE paging_new_4gb[p]
  BY <1>4, <1>5 DEF MapsPages
<1> QED
  BY <1>2, <1>6 DEF v, f

LEMMA BinaryInside ==
    ASSUME NEW size \in Nat, NEW u \in Nat,
           paging_align_address(ImageAddress + size) = PageSize * u
    PROVE  Inside(process_map_binary(paging_new_4gb, size).dir, Page(ImageAddress), u)
<1> DEFINE v == Page(ProgramAddress)
           f == Page(ImageAddress)
           d == process_map_binary(paging_new_4gb, size).dir
<1>1. v \in Nat /\ f \in Nat
  BY BinaryMaps
<1>2. \A p \in Pages :
         d[p] = IF u >= f /\ p \in v .. v + (u - f) - 1 THEN Entry(v, f, p, TRUE)
                ELSE paging_new_4gb[p]
  BY BinaryMaps
<1> HIDE DEF v, f, d
<1>3. ASSUME NEW p \in Pages, d[p].writable
      PROVE  d[p].page \in f .. u - 1
  <2>1. p \in Int /\ ~paging_new_4gb[p].writable
    BY DEF Pages, paging_new_4gb
  <2>2. u >= f /\ p \in v .. v + (u - f) - 1
    <3> SUFFICES ASSUME ~(u >= f /\ p \in v .. v + (u - f) - 1) PROVE FALSE
      OBVIOUS
    <3>1. d[p] = paging_new_4gb[p]
      BY <1>2
    <3> QED
      BY <1>3, <2>1, <3>1
  <2>3. d[p].page = f + p - v
    <3>1. d[p] = Entry(v, f, p, TRUE)
      BY <1>2, <2>2
    <3> QED
      BY <3>1 DEF Entry
  <2> QED
    BY <1>1, <2>1, <2>2, <2>3
<1> QED
  BY <1>3 DEF Inside, d, f

(* The image of every program is in memory: no file is longer than the     *)
(* block that the heap has given for it.                                   *)
InMemory == \A p \in Programs : ImageAddress + p.size < Word

(* The end of the image, rounded up. *)
LEMMA ImageEnd ==
    ASSUME NEW prog \in Programs, InMemory
    PROVE  \E u \in Nat : /\ paging_align_address(ImageAddress + prog.size) = PageSize * u
                          /\ PageSize * u < Word
                          /\ Page(PageSize * u) = u
                          /\ ImageAddress + prog.size + PageSize <= Word =>
                                ImageAddress + prog.size <= PageSize * u
<1> DEFINE a == ImageAddress + prog.size
<1>1. /\ a \in Nat /\ a < Word /\ Word \in Nat \ {0} /\ PageSize \in Nat \ {0}
      /\ a % PageSize \in Nat
  <2>1. /\ ImageAddress \in Nat /\ prog.size \in Nat /\ ImageAddress + prog.size < Word
        /\ Word \in Nat \ {0} /\ PageSize \in Nat \ {0}
    BY ElfAssumption, LoaderAssumption DEF InMemory
  <2> QED
    BY <2>1
<1> HIDE DEF a
<1>2. PICK u \in Nat : /\ paging_align_address(a) = PageSize * u
                       /\ \/ a <= PageSize * u /\ PageSize * u < a + PageSize
                          \/ u = 0 /\ a + PageSize > Word
  BY <1>1, UpperPage
<1>3. paging_align_address(a) < Word
  <2>1. ASSUME NEW x \in Int PROVE x % Word < Word
    BY <1>1
  <2>2. a + PageSize - (a % PageSize) \in Int
    BY <1>1
  <2> QED
    BY <1>1, <2>1, <2>2 DEF paging_align_address
<1>4. Page(PageSize * u) = u
  BY AlignedPage
<1>5. a + PageSize <= Word => a <= PageSize * u
  BY <1>1, <1>2
<1> QED
  BY <1>2, <1>3, <1>4, <1>5 DEF a

(* The whole directory: the program's pages under those of the stack. *)
LEMMA MapProgramIs ==
    ASSUME NEW ft, NEW prog \in Programs, MapProgram(ft, prog).ok
    PROVE  LET m == IF ft = "elf" THEN process_map_elf(paging_new_4gb, prog.phdrs)
                    ELSE process_map_binary(paging_new_4gb, prog.size)
           IN  m.ok /\ MapProgram(ft, prog).dir = MapStack(m.dir)
<1> DEFINE m == IF ft = "elf" THEN process_map_elf(paging_new_4gb, prog.phdrs)
                ELSE process_map_binary(paging_new_4gb, prog.size)
<1>1. MapProgram(ft, prog) = IF m.ok THEN [m EXCEPT !.dir = MapStack(@)] ELSE m
  BY DEF MapProgram
<1>2. m \in MapResults
  BY MapPartTypes
<1> HIDE DEF m
<1>3. m.ok /\ MapProgram(ft, prog).dir = MapStack(m.dir)
  BY <1>1, <1>2 DEF MapResults
<1> QED
  BY <1>3 DEF m

(* With the stack on top. *)
LEMMA StackInside ==
    ASSUME NEW dir, NEW lo \in Nat, NEW hi \in Nat, Inside(dir, lo, hi),
           NEW p \in Pages, MapStack(dir)[p].writable
    PROVE  \/ MapStack(dir)[p].page \in lo .. hi - 1
           \/ MapStack(dir)[p].page \in Page(StackAddress) .. Page(StackAddress + StackSize) - 1
<1> DEFINE v == Page(StackEnd)
           f == Page(StackAddress)
           n == Page(StackSize)
           e == MapStack(dir)[p]
<1>1. v \in Nat /\ f \in Nat /\ n \in Nat /\ Page(StackAddress + StackSize) = f + n
  BY StackMaps
<1>2. e = IF p \in v .. v + n - 1 THEN Entry(v, f, p, TRUE) ELSE dir[p]
  BY StackMaps
<1>3. p \in Int
  BY DEF Pages
<1> HIDE DEF v, f, n, e
<1>4. CASE p \in v .. v + n - 1
  <2>1. e.page = f + p - v
    BY <1>2, <1>4 DEF Entry
  <2>2. e.page \in f .. f + n - 1
    BY <1>1, <1>3, <1>4, <2>1
  <2> QED
    BY <1>1, <2>2 DEF e, f
<1>5. CASE p \notin v .. v + n - 1
  <2>1. e = dir[p]
    BY <1>2, <1>5
  <2>2. dir[p].writable
    BY <2>1 DEF e
  <2> QED
    BY <2>1, <2>2 DEF Inside, e
<1> QED
  BY <1>4, <1>5

(* Mapped and the type of the file give the directory. *)
LEMMA MappedIs ==
    ASSUME LoaderInv, Mapped
    PROVE  /\ program \in Programs /\ filetype[slot] \in {"elf", "binary"}
           /\ MapProgram(filetype[slot], program).ok
           /\ pages = MapProgram(filetype[slot], program).dir
           /\ IsElf => bounds = elf_process_pheaders(program.phdrs)
BY DEF LoaderInv, LoaderShapes, ImageOK, Mapped, IsElf

(* If every image is inside the address space, a process that was loaded   *)
(* may write only to the pages of its image and its stack, when its        *)
(* segments fit into the image.                                            *)
THEOREM WritesStayInside == InMemory /\ LoaderSpec => []WritesOwnPages
<1> SUFFICES ASSUME InMemory PROVE LoaderSpec => []WritesOwnPages
  OBVIOUS
<1>1. LoaderInv => WritesOwnPages
  <2> DEFINE ends == paging_align_address(ImageAddress + program.size)
             lo == Page(ImageAddress)
             m == IF IsElf THEN process_map_elf(paging_new_4gb, program.phdrs)
                  ELSE process_map_binary(paging_new_4gb, program.size)
  <2> SUFFICES ASSUME LoaderInv, Mapped, IsElf => Fits(program.phdrs, ends),
                      NEW p \in Pages, pages[p].writable
               PROVE  \/ pages[p].page \in lo .. Page(ends) - 1
                      \/ pages[p].page \in Page(StackAddress) .. Page(StackAddress + StackSize) - 1
    BY Zenon DEF WritesOwnPages, Fits
  <2>1. program \in Programs /\ program.size \in Nat /\ program.phdrs \in Seq(Phdrs)
    BY MappedIs, LoaderAssumption
  <2>2. pages = MapStack(m.dir)
    BY MappedIs, MapProgramIs, Zenon DEF IsElf
  <2>3. PICK u \in Nat : ends = PageSize * u /\ PageSize * u < Word /\ Page(PageSize * u) = u
    BY <2>1, ImageEnd, Zenon
  <2>4. Inside(m.dir, lo, u)
    <3>1. CASE IsElf
      BY <2>1, <2>3, <3>1, ElfInside, Zenon
    <3>2. CASE ~IsElf
      BY <2>1, <2>3, <3>2, BinaryInside, Zenon
    <3> QED
      BY <3>1, <3>2
  <2>5. lo \in Nat
    BY PageOf, ElfAssumption
  <2> HIDE DEF m, lo, ends
  <2>6. \/ pages[p].page \in lo .. u - 1
        \/ pages[p].page \in Page(StackAddress) .. Page(StackAddress + StackSize) - 1
    BY <2>2, <2>4, <2>5, StackInside
  <2> QED
    BY <2>3, <2>6
<1> QED
  BY <1>1, LoaderInvariant, PTL

-------------------------------------------------------------------------------
(* The bounds of an ELF file. *)

BoundRecords == [base : Nat, physBase : Nat, end : Nat, physEnd : Nat]

(* What one segment does to the bounds. *)
LEMMA LoadBounds ==
    ASSUME NEW b \in BoundRecords, NEW h \in Phdrs
    PROVE  LET c == elf_process_phdr_pt_load(b, h)
               end == (h.vaddr + h.filesz) % Word
           IN  /\ c \in BoundRecords
               /\ c.base = IF b.base >= h.vaddr \/ b.base = 0 THEN h.vaddr ELSE b.base
               /\ c.end = IF b.end <= end \/ b.end = 0 THEN end ELSE b.end
<1> DEFINE phys == ImageAddress + h.offset
           end == (h.vaddr + h.filesz) % Word
           low == IF b.base >= h.vaddr \/ b.base = 0
                  THEN [b EXCEPT !.base = h.vaddr, !.physBase = phys] ELSE b
           c == IF b.end <= end \/ b.end = 0
                THEN [low EXCEPT !.end = end, !.physEnd = phys + h.filesz] ELSE low
<1>1. elf_process_phdr_pt_load(b, h) = c
  BY DEF elf_process_phdr_pt_load
<1>2. h.vaddr \in Nat /\ h.filesz \in Nat /\ phys \in Nat /\ end \in Nat
  BY ElfAssumption DEF Phdrs, Addresses
<1> HIDE DEF phys, end
<1>3. /\ low \in BoundRecords
      /\ low.base = IF b.base >= h.vaddr \/ b.base = 0 THEN h.vaddr ELSE b.base
      /\ low.end = b.end
  BY <1>2 DEF BoundRecords
<1> HIDE DEF low
<1>4. phys + h.filesz \in Nat
  BY <1>2
<1>5. /\ c \in BoundRecords /\ c.base = low.base
      /\ c.end = IF b.end <= end \/ b.end = 0 THEN end ELSE b.end
  BY <1>2, <1>3, <1>4 DEF BoundRecords
<1> HIDE DEF c
<1> QED
  BY <1>1, <1>3, <1>5 DEF end

(* The loop of elf_process_pheaders: the bounds after each header. *)
ElfBounds(after, phdrs) ==
    /\ after \in [0 .. Len(phdrs) -> BoundRecords]
    /\ after[0] = NoBounds
    /\ \A k \in 1 .. Len(phdrs) :
          after[k] = IF phdrs[k].type = "load"
                     THEN elf_process_phdr_pt_load(after[k - 1], phdrs[k]) ELSE after[k - 1]
    /\ elf_process_pheaders(phdrs) = after[Len(phdrs)]

LEMMA BoundsLoop ==
    ASSUME NEW phdrs \in Seq(Phdrs)
    PROVE  \E after : ElfBounds(after, phdrs)
<1> DEFINE N == Len(phdrs)
           Body(g) == [k \in 0 .. N |->
                         IF k = 0 THEN NoBounds
                         ELSE IF phdrs[k].type = "load"
                              THEN elf_process_phdr_pt_load(g[k - 1], phdrs[k])
                         ELSE g[k - 1]]
           after == CHOOSE g : g = Body(g)
           step == [x \in BoundRecords \X (1 .. N) |->
                      IF phdrs[x[2]].type = "load"
                      THEN elf_process_phdr_pt_load(x[1], phdrs[x[2]]) ELSE x[1]]
<1>1. N \in Nat /\ \A k \in 1 .. N : phdrs[k] \in Phdrs
  OBVIOUS
<1>2. NoBounds \in BoundRecords
  BY DEF BoundRecords, NoBounds
<1>3. /\ step \in [BoundRecords \X (1 .. N) -> BoundRecords]
      /\ \A x \in BoundRecords, k \in 1 .. N :
            step[<<x, k>>] = IF phdrs[k].type = "load"
                             THEN elf_process_phdr_pt_load(x, phdrs[k]) ELSE x
  <2>1. \A x \in BoundRecords, k \in 1 .. N :
           elf_process_phdr_pt_load(x, phdrs[k]) \in BoundRecords
    BY <1>1, LoadBounds
  <2> HIDE DEF N
  <2> QED
    BY <2>1
<1> HIDE DEF step, N
<1>4. PICK g : LoopValues(g, N, BoundRecords, NoBounds, step)
  BY <1>1, <1>2, <1>3, LoopHasValues, Zenon
<1>5. ASSUME NEW k \in 0 .. N
      PROVE  g[k] = Body(g)[k]
  <2>1. CASE k = 0
    BY <1>4, <2>1 DEF LoopValues
  <2>2. CASE k # 0
    <3>1. k \in 1 .. N /\ k - 1 \in 0 .. N
      BY <1>1, <2>2
    <3>2. g[k] = step[<<g[k - 1], k>>] /\ g[k - 1] \in BoundRecords
      BY <1>4, <3>1 DEF LoopValues
    <3> QED
      BY <1>3, <2>2, <3>1, <3>2
  <2> QED
    BY <2>1, <2>2
<1>6. g = Body(g)
  BY <1>4, <1>5 DEF LoopValues
<1>7. after = Body(after)
  BY <1>6
<1>8. elf_process_pheaders(phdrs) = after[N]
  BY DEF elf_process_pheaders, N
<1> HIDE DEF after
<1>9. /\ after[0] = NoBounds
      /\ \A k \in 1 .. N : after[k] = IF phdrs[k].type = "load"
                                      THEN elf_process_phdr_pt_load(after[k - 1], phdrs[k])
                                      ELSE after[k - 1]
  BY <1>1, <1>7
<1> DEFINE S == {k \in 0 .. N : after[k] \in BoundRecords}
<1>10. 0 \in S
  BY <1>1, <1>2, <1>9
<1>11. ASSUME NEW k \in S \cap (0 .. N - 1)
       PROVE  k + 1 \in S
  <2>1. k + 1 \in 1 .. N /\ k + 1 - 1 = k /\ after[k] \in BoundRecords /\ phdrs[k + 1] \in Phdrs
    BY <1>1
  <2>2. elf_process_phdr_pt_load(after[k], phdrs[k + 1]) \in BoundRecords
    BY <2>1, LoadBounds
  <2>3. after[k + 1] \in BoundRecords
    BY <1>9, <2>1, <2>2
  <2> QED
    BY <1>1, <2>1, <2>3
<1>12. 0 .. N \subseteq S
  <2> HIDE DEF S
  <2> QED
    BY <1>1, <1>10, <1>11, Induction
<1>13. after \in [0 .. N -> BoundRecords]
  <2>1. after = [k \in 0 .. N |-> after[k]]
    BY <1>7
  <2> QED
    BY <1>12, <2>1
<1>14. ElfBounds(after, phdrs)
  BY <1>8, <1>9, <1>13 DEF ElfBounds, N
<1> QED
  BY <1>14

(* The segments among the first k headers, and bounds that enclose them. *)
Loads(phdrs, k) == {i \in 1 .. k : phdrs[i].type = "load"}
EndOf(h) == h.vaddr + h.filesz

Encloses(b, phdrs, k) ==
    \/ Loads(phdrs, k) = {} /\ b.base = 0 /\ b.end = 0
    \/ /\ \E i \in Loads(phdrs, k) : b.base = phdrs[i].vaddr
       /\ \E i \in Loads(phdrs, k) : b.end = EndOf(phdrs[i])
       /\ \A i \in Loads(phdrs, k) : b.base <= phdrs[i].vaddr /\ b.end >= EndOf(phdrs[i])

(* Segments are not at address 0, which stands for a bound that is not     *)
(* set, and end inside the address space.                                  *)
Bounded(phdrs) ==
    \A k \in DOMAIN phdrs : phdrs[k].type = "load" => phdrs[k].vaddr > 0 /\ EndOf(phdrs[k]) < Word

SegmentsBounded == \A p \in Programs : Bounded(p.phdrs)

LEMMA BoundsStep ==
    ASSUME NEW phdrs \in Seq(Phdrs), NEW k \in 0 .. Len(phdrs) - 1, NEW b \in BoundRecords,
           Bounded(phdrs), phdrs[k + 1].type = "load", Encloses(b, phdrs, k)
    PROVE  Encloses(elf_process_phdr_pt_load(b, phdrs[k + 1]), phdrs, k + 1)
<1> DEFINE h == phdrs[k + 1]
           c == elf_process_phdr_pt_load(b, h)
           L == Loads(phdrs, k)
           e == EndOf(h)
<1>1. /\ h \in Phdrs /\ k + 1 \in 1 .. Len(phdrs) /\ k \in Int /\ Len(phdrs) \in Nat
      /\ \A i \in L : phdrs[i] \in Phdrs /\ phdrs[i].vaddr > 0 /\ phdrs[i].type = "load"
      /\ h.vaddr > 0 /\ e < Word
  BY DEF Loads, Bounded
<1>2. Loads(phdrs, k + 1) = L \cup {k + 1}
  BY <1>1 DEF Loads
<1>3. /\ \A g \in Phdrs : g.vaddr \in Nat /\ g.filesz \in Nat
      /\ b.base \in Nat /\ b.end \in Nat /\ Word \in Nat \ {0}
  <2>1. \A g \in Phdrs : g.vaddr \in Nat /\ g.filesz \in Nat
    BY DEF Phdrs, Addresses
  <2>2. b.base \in Nat /\ b.end \in Nat
    BY DEF BoundRecords
  <2> QED
    BY <2>1, <2>2, ElfAssumption
<1>4. \A g \in Phdrs : EndOf(g) \in Nat /\ EndOf(g) >= g.vaddr
  BY <1>3 DEF EndOf
<1>5. h.vaddr \in Nat /\ e \in Nat /\ e > 0
  BY <1>1, <1>3, <1>4
<1>6. e % Word = e
  <2>1. e \in Nat /\ e < Word /\ Word \in Nat \ {0}
    BY <1>1, <1>3, <1>5
  <2> HIDE DEF e
  <2> QED
    BY <2>1
<1>7. /\ c.base = IF b.base >= h.vaddr \/ b.base = 0 THEN h.vaddr ELSE b.base
      /\ c.end = IF b.end <= e \/ b.end = 0 THEN e ELSE b.end
  BY <1>1, <1>6, LoadBounds DEF EndOf
<1> HIDE DEF c, e, h
<1>8. CASE L = {} /\ b.base = 0 /\ b.end = 0
  <2>1. c.base = h.vaddr /\ c.end = e
    BY <1>7, <1>8
  <2>2. Loads(phdrs, k + 1) = {k + 1}
    BY <1>2, <1>8
  <2> QED
    BY <1>5, <2>1, <2>2 DEF Encloses, c, h, e
<1>9. CASE /\ \E i \in L : b.base = phdrs[i].vaddr
           /\ \E i \in L : b.end = EndOf(phdrs[i])
           /\ \A i \in L : b.base <= phdrs[i].vaddr /\ b.end >= EndOf(phdrs[i])
  <2>1. b.base > 0
    BY <1>1, <1>9
  <2>2. /\ c.base \in Nat /\ c.base <= b.base /\ c.base <= h.vaddr
        /\ c.end \in Nat /\ c.end >= b.end /\ c.end >= e
    BY <1>3, <1>5, <1>7, <2>1
  <2>3. c.base \in {b.base, h.vaddr} /\ c.end \in {b.end, e}
    BY <1>7
  <2>4. \E i \in L \cup {k + 1} : c.base = phdrs[i].vaddr
    BY <1>9, <2>3 DEF h
  <2>5. \E i \in L \cup {k + 1} : c.end = EndOf(phdrs[i])
    BY <1>9, <2>3 DEF h, e
  <2>6. ASSUME NEW i \in L \cup {k + 1}
        PROVE  c.base <= phdrs[i].vaddr /\ c.end >= EndOf(phdrs[i])
    <3>1. CASE i = k + 1
      BY <2>2, <3>1 DEF h, e
    <3>2. CASE i \in L
      <4>1. phdrs[i].vaddr \in Nat /\ EndOf(phdrs[i]) \in Nat
        BY <1>1, <1>3, <1>4, <3>2
      <4>2. b.base <= phdrs[i].vaddr /\ b.end >= EndOf(phdrs[i])
        BY <1>9, <3>2
      <4> DEFINE v == phdrs[i].vaddr
                 d == EndOf(phdrs[i])
      <4>3. v \in Nat /\ d \in Nat /\ b.base <= v /\ b.end >= d
        BY <4>1, <4>2
      <4> HIDE DEF v, d
      <4>4. c.base <= v /\ c.end >= d
        BY <1>3, <2>2, <4>3
      <4> QED
        BY <4>4 DEF v, d
    <3> QED
      BY <3>1, <3>2
  <2> QED
    BY <1>2, <2>4, <2>5, <2>6 DEF Encloses, c, h
<1> QED
  BY <1>8, <1>9 DEF Encloses

LEMMA ElfEncloses ==
    ASSUME NEW phdrs \in Seq(Phdrs), Bounded(phdrs)
    PROVE  Encloses(elf_process_pheaders(phdrs), phdrs, Len(phdrs))
<1> DEFINE N == Len(phdrs)
<1>1. N \in Nat
  OBVIOUS
<1>2. PICK after : ElfBounds(after, phdrs)
  BY BoundsLoop
<1> DEFINE S == {k \in 0 .. N : Encloses(after[k], phdrs, k)}
<1>3. 0 \in S
  <2>1. after[0].base = 0 /\ after[0].end = 0 /\ Loads(phdrs, 0) = {}
    BY <1>2 DEF ElfBounds, NoBounds, Loads
  <2> QED
    BY <1>1, <2>1 DEF Encloses
<1>4. ASSUME NEW k \in S \cap (0 .. N - 1)
      PROVE  k + 1 \in S
  <2>1. /\ k + 1 \in 1 .. N /\ k + 1 - 1 = k /\ k \in 0 .. N - 1 /\ k \in 0 .. N
        /\ Encloses(after[k], phdrs, k)
    BY <1>1
  <2>2. /\ after[k] \in BoundRecords
        /\ after[k + 1] = IF phdrs[k + 1].type = "load"
                          THEN elf_process_phdr_pt_load(after[k], phdrs[k + 1]) ELSE after[k]
    BY <1>2, <2>1 DEF ElfBounds
  <2>3. Encloses(after[k + 1], phdrs, k + 1)
    <3>1. CASE phdrs[k + 1].type = "load"
      BY <2>1, <2>2, <3>1, BoundsStep
    <3>2. CASE phdrs[k + 1].type # "load"
      <4>1. Loads(phdrs, k + 1) = Loads(phdrs, k)
        BY <1>1, <2>1, <3>2 DEF Loads
      <4>2. after[k + 1] = after[k]
        BY <2>2, <3>2
      <4> QED
        BY <2>1, <4>1, <4>2 DEF Encloses
    <3> QED
      BY <3>1, <3>2
  <2> QED
    BY <1>1, <2>1, <2>3
<1>5. 0 .. N \subseteq S
  <2> HIDE DEF S
  <2> QED
    BY <1>1, <1>3, <1>4, Induction
<1> QED
  BY <1>1, <1>2, <1>5 DEF ElfBounds

(* If segments are above address 0 and end inside the address space, the   *)
(* bounds that elf_load computes enclose the segments of the file exactly, *)
(* for any number of headers in any order.                                 *)
THEOREM BoundsExact == SegmentsBounded /\ LoaderSpec => []BoundsEnclose
<1> SUFFICES ASSUME SegmentsBounded PROVE LoaderSpec => []BoundsEnclose
  OBVIOUS
<1>1. LoaderInv => BoundsEnclose
  <2> DEFINE phdrs == program.phdrs
             L == Loads(phdrs, Len(phdrs))
             segments == {h \in Range(phdrs) : h.type = "load"}
             bases == {h.vaddr : h \in segments}
             ends == {h.vaddr + h.filesz : h \in segments}
  <2> SUFFICES ASSUME LoaderInv, Mapped, IsElf, segments # {}
               PROVE  bounds.base = Min(bases) /\ bounds.end = Max(ends)
    BY Zenon DEF BoundsEnclose
  <2>1. phdrs \in Seq(Phdrs) /\ Bounded(phdrs)
    BY MappedIs, LoaderAssumption DEF SegmentsBounded
  <2>2. Encloses(bounds, phdrs, Len(phdrs))
    BY MappedIs, <2>1, ElfEncloses
  <2> HIDE DEF phdrs
  <2>3. segments = {phdrs[i] : i \in L}
    BY <2>1 DEF Range, Loads
  <2>4. \A i \in L : phdrs[i] \in Phdrs
    BY <2>1 DEF Loads
  <2>5. \A h \in segments : h.vaddr \in Nat /\ h.vaddr + h.filesz \in Nat
    BY <2>3, <2>4 DEF Phdrs, Addresses
  <2>6. bases \subseteq Nat /\ ends \subseteq Nat
    BY <2>5
  <2>7. L # {}
    BY <2>3
  <2>8. /\ \E i \in L : bounds.base = phdrs[i].vaddr
        /\ \E i \in L : bounds.end = phdrs[i].vaddr + phdrs[i].filesz
        /\ \A i \in L : /\ bounds.base <= phdrs[i].vaddr
                        /\ bounds.end >= phdrs[i].vaddr + phdrs[i].filesz
    BY <2>2, <2>7 DEF Encloses, EndOf
  <2> HIDE DEF L, segments
  <2>9. bounds.base \in bases /\ \A y \in bases : bounds.base <= y
    BY <2>3, <2>8
  <2>10. bounds.end \in ends /\ \A y \in ends : bounds.end >= y
    BY <2>3, <2>8
  <2> HIDE DEF bases, ends
  <2> QED
    BY <2>6, <2>9, <2>10, MinIs, MaxIs
<1> QED
  BY <1>1, LoaderInvariant, PTL

-------------------------------------------------------------------------------
(* Where the segments are. *)

(* Two multiples of the page size within a page are the same. *)
LEMMA SameMultiple ==
    ASSUME NEW x \in Nat, NEW u \in Int, NEW w \in Int,
           x <= PageSize * u, PageSize * u < x + PageSize,
           x <= PageSize * w, PageSize * w < x + PageSize
    PROVE  u = w
<1>1. PageSize \in Nat \ {0}
  BY ElfAssumption
<1>2. ASSUME NEW i \in Int, NEW j \in Int, x <= PageSize * j, PageSize * i < x + PageSize
      PROVE  i <= j
  <2> DEFINE a == PageSize * i
             b == PageSize * j
             c == PageSize * (j + 1)
  <2>1. a \in Int /\ b \in Int /\ c = b + PageSize
    BY <1>1
  <2>2. a < c
    <3>1. x <= b /\ a < x + PageSize
      BY <1>2
    <3> HIDE DEF a, b, c
    <3> QED
      BY <1>1, <2>1, <3>1
  <2>3. i < j + 1
    <3>1. i \in Int /\ j + 1 \in Int
      OBVIOUS
    <3> QED
      BY <1>1, <2>2, <3>1, FactorOrder, Zenon
  <2> QED
    BY <2>3
<1> QED
  BY <1>2

(* A byte b after x, on a page that leads to the page of the byte b after  *)
(* a, when x and a are at the same place of their pages.                   *)
LEMMA BytePlace ==
    ASSUME NEW x \in Nat, NEW a \in Nat, x % PageSize = a % PageSize,
           NEW b \in Nat, NEW e \in Nat, a + b < PageSize * e
    PROVE  /\ e >= Page(a)
           /\ Page(x + b) \in Page(x) .. Page(x) + (e - Page(a)) - 1
           /\ (Page(a) + Page(x + b) - Page(x)) * PageSize + ((x + b) % PageSize) = a + b
<1> DEFINE r == x % PageSize
           v == Page(x)
           f == Page(a)
           d == (r + b) \div PageSize
           t == (r + b) % PageSize
           V == PageSize * v
           F == PageSize * f
           D == PageSize * d
           E == PageSize * e
<1>1. PageSize \in Nat \ {0}
  BY ElfAssumption
<1>2. /\ v \in Nat /\ f \in Nat /\ r \in 0 .. PageSize - 1
      /\ x = V + r /\ a = F + r
  BY PageOf
<1>3. t \in 0 .. PageSize - 1 /\ d \in Int /\ r + b = D + t
  <2>1. r + b \in Int
    BY <1>1, <1>2
  <2> QED
    BY <1>1, <2>1, DivMod, Zenon
<1>4. V \in Int /\ F \in Int /\ D \in Int /\ E \in Int
  BY <1>1, <1>2, <1>3
<1>5. d \in Nat
  <2>1. CASE d \in Nat
    BY <2>1
  <2>2. CASE d <= -1
    <3>1. PageSize * d <= PageSize * (-1)
      <4>1. d \in Int /\ -1 \in Int
        BY <1>3
      <4> QED
        BY <1>1, <2>2, <4>1, FactorOrder, Zenon
    <3>2. PageSize * (-1) = -PageSize
      BY <1>1
    <3>3. D <= -PageSize
      BY <3>1, <3>2
    <3> HIDE DEF D, r, t
    <3> QED
      BY <1>1, <1>2, <1>3, <1>4, <3>3
  <2> QED
    BY <1>3, <2>1, <2>2
<1>6. PageSize * (v + d) = V + D /\ PageSize * (f + d) = F + D
  <2>1. ASSUME NEW n \in Nat, NEW i \in Int, NEW j \in Int PROVE n * (i + j) = n * i + n * j
    OBVIOUS
  <2> HIDE DEF v, f, d
  <2> QED
    BY <1>1, <1>2, <1>3, <2>1
<1>7. x + b = PageSize * (v + d) + t /\ a + b = PageSize * (f + d) + t
  <2>1. x + b = V + D + t /\ a + b = F + D + t
    <3> HIDE DEF V, F, D, r, t
    <3> QED
      BY <1>1, <1>2, <1>3, <1>4
  <2> HIDE DEF V, F, D, r, t, v, f, d
  <2> QED
    BY <1>6, <2>1
<1>8. Page(x + b) = v + d /\ (x + b) % PageSize = t
  <2>1. v + d \in Int
    BY <1>2, <1>3
  <2> DEFINE q == v + d
  <2> HIDE DEF t, q
  <2>2. (PageSize * q + t) % PageSize = t /\ (PageSize * q + t) \div PageSize = q
    <3>1. q \in Int
      BY <2>1 DEF q
    <3> QED
      BY <1>1, <1>3, <3>1, ModUnique, Zenon
  <2>3. x + b = PageSize * q + t
    BY <1>7 DEF q
  <2> QED
    BY <2>2, <2>3, Zenon DEF Page, q
<1>9. f + d < e
  <2> DEFINE G == PageSize * (f + d)
  <2>1. G < E
    <3>1. a + b = G + t /\ a + b < E /\ G \in Int
      <4>1. G \in Int
        BY <1>4, <1>6
      <4> QED
        BY <1>7, <4>1
    <3> HIDE DEF G, E, t
    <3> QED
      BY <1>1, <1>3, <1>4, <3>1
  <2>2. f + d \in Int /\ e \in Int
    BY <1>2, <1>3
  <2> QED
    BY <1>1, <2>1, <2>2, FactorOrder, Zenon
<1>10. (f + (v + d) - v) * PageSize + t = a + b
  <2>1. (f + (v + d) - v) * PageSize = PageSize * (f + d)
    <3>1. f + (v + d) - v = f + d /\ f + d \in Int
      BY <1>2, <1>3
    <3>2. (f + d) * PageSize = PageSize * (f + d)
      BY <1>1, <3>1
    <3> QED
      BY <3>1, <3>2
  <2> QED
    BY <1>7, <2>1
<1>11. e >= f /\ v + d \in v .. v + (e - f) - 1
  <2> HIDE DEF v, f, d
  <2> QED
    BY <1>2, <1>5, <1>9
<1> QED
  BY <1>8, <1>10, <1>11

(* What a linker guarantees of a program header, and what the sizes of     *)
(* memory guarantee: the segment begins at the same place of a page in the *)
(* file and in memory, it is inside the address space with a page to       *)
(* spare, and the program begins above the stack.                          *)
HeaderLinked(h) ==
    /\ h.offset % PageSize = h.vaddr % PageSize
    /\ h.vaddr + h.memsz + PageSize <= Word
    /\ ImageAddress + h.offset < Word
    /\ h.memsz + 2 * PageSize <= Word
    /\ h.type = "load" => h.vaddr >= ProgramAddress /\ h.filesz <= h.memsz

Linked ==
    /\ StackEnd + StackSize <= ProgramAddress
    /\ \A p \in Programs :
          /\ ImageAddress + p.size + PageSize <= Word
          /\ ProgramAddress + p.size <= Word
          /\ \A k \in DOMAIN p.phdrs : HeaderLinked(p.phdrs[k])

(* A header that can be mapped: nothing wraps, and its last page is the    *)
(* one of its last byte.                                                   *)
LEMMA HeaderExact ==
    ASSUME NEW h \in Phdrs, HeaderLinked(h), NEW e, HeaderSpan(h, e), e >= Page(Phys(h))
    PROVE  LET a == ImageAddress + h.offset
           IN  /\ Phys(h) = a
               /\ a + h.memsz <= PageSize * e
               /\ PageSize * e < a + h.memsz + PageSize
<1> DEFINE a == ImageAddress + h.offset
           n == h.memsz
           f == Page(a)
           r == a % PageSize
           F == PageSize * f
           E == PageSize * e
           ends == Ends(h)
<1>1. /\ PageSize \in Nat \ {0} /\ Word \in Nat \ {0} /\ ImageAddress \in Nat
      /\ h.offset \in Nat /\ n \in Nat
  BY ElfAssumption DEF Phdrs, Addresses
<1>2. a \in Nat /\ a < Word /\ n + 2 * PageSize <= Word
  BY <1>1 DEF HeaderLinked
<1>3. Phys(h) = a
  BY <1>1, <1>2 DEF Phys
<1>4. ends = (a + n) % Word
  BY <1>3 DEF Ends
<1>5. f \in Nat /\ r \in 0 .. PageSize - 1 /\ a = F + r
  BY <1>2, PageOf
<1>6. e \in Nat /\ e >= f
  BY <1>3 DEF HeaderSpan
<1>7. F \in Nat /\ E \in Nat
  BY <1>5, <1>6, AlignedPage
<1>8. F <= E
  <2>1. f \in Int /\ e \in Int /\ f <= e
    BY <1>5, <1>6
  <2> QED
    BY <1>1, <2>1, FactorOrder, Zenon
<1>9. \/ ends <= E /\ E < ends + PageSize
      \/ E = 0 /\ ends + PageSize > Word
  <2>1. \/ ends <= E /\ E < ends + PageSize
        \/ e = 0 /\ ends + PageSize > Word
    BY DEF HeaderSpan
  <2>2. PageSize * 0 = 0
    BY <1>1
  <2> QED
    BY <2>1, <2>2
<1>10. ends = IF a + n < Word THEN a + n ELSE a + n - Word
  <2> HIDE DEF a, n, ends
  <2>1. CASE a + n < Word
    BY <1>1, <1>2, <1>4, <2>1
  <2>2. CASE a + n >= Word
    <3> DEFINE s == a + n - Word
    <3>1. s \in 0 .. Word - 1 /\ a + n = Word * 1 + s /\ 1 \in Int
      BY <1>1, <1>2, <2>2
    <3>2. (Word * 1 + s) % Word = s
      <4> HIDE DEF s
      <4> QED
        BY <1>1, <3>1, ModUnique, Zenon
    <3>3. ends = s
      <4> HIDE DEF s
      <4> QED
        BY <1>4, <3>1, <3>2
    <3> QED
      BY <1>1, <1>2, <2>2, <3>3
  <2> QED
    BY <1>1, <1>2, <2>1, <2>2
<1> HIDE DEF a, n, f, r, F, E, ends
<1>11. a + n <= E /\ E < a + n + PageSize
  BY <1>1, <1>2, <1>5, <1>7, <1>8, <1>9, <1>10
<1> QED
  BY <1>3, <1>11 DEF a, n, E

(* The segment begins at the same place of a page in the image and in      *)
(* memory.                                                                 *)
LEMMA OffsetPlace ==
    ASSUME NEW h \in Phdrs, HeaderLinked(h)
    PROVE  h.vaddr % PageSize = (ImageAddress + h.offset) % PageSize
<1>1. /\ PageSize \in Nat \ {0} /\ ImageAddress \in Int /\ ImageAddress % PageSize = 0
      /\ h.offset \in Int
  BY ElfAssumption DEF Phdrs, Addresses
<1>2. ((ImageAddress % PageSize) + h.offset) % PageSize = (ImageAddress + h.offset) % PageSize
  BY <1>1, ModAdd, Zenon
<1>3. 0 + h.offset = h.offset
  BY <1>1
<1> QED
  BY <1>1, <1>2, <1>3 DEF HeaderLinked

(* Such a header maps the pages that it covers, and no other. *)
LEMMA HeaderCovers ==
    ASSUME NEW h \in Phdrs, HeaderLinked(h), NEW dir, MapHeader(dir, h).ok, NEW p \in Pages
    PROVE  MapHeader(dir, h).dir[p] =
               IF p \in Covered(h)
               THEN Entry(Page(h.vaddr), Page(ImageAddress + h.offset), p, h.writable) ELSE dir[p]
<1> DEFINE a == ImageAddress + h.offset
           x == h.vaddr
           n == h.memsz
           v == Page(x)
           f == Page(a)
           m == MapHeader(dir, h)
<1>1. /\ PageSize \in Nat \ {0} /\ Word \in Nat \ {0} /\ ImageAddress \in Nat
      /\ h.offset \in Nat /\ n \in Nat /\ x \in Nat /\ a \in Nat
  BY ElfAssumption DEF Phdrs, Addresses
<1>2. PICK e : HeaderSpan(h, e) /\ MapsPages(m, dir, v, Page(Phys(h)), e, h.writable)
  BY HeaderMaps, Zenon
<1>3. e \in Nat /\ e >= Page(Phys(h))
  BY <1>2 DEF MapsPages, HeaderSpan
<1>4. Phys(h) = a /\ a + n <= PageSize * e /\ PageSize * e < a + n + PageSize
  BY <1>2, <1>3, HeaderExact, Zenon
<1>5. e >= f /\ m.dir[p] = IF p \in v .. v + (e - f) - 1 THEN Entry(v, f, p, h.writable) ELSE dir[p]
  BY <1>2, <1>3, <1>4 DEF MapsPages
<1>6. /\ v \in Nat /\ f \in Nat
      /\ x = PageSize * v + (x % PageSize) /\ x % PageSize \in 0 .. PageSize - 1
      /\ a = PageSize * f + (a % PageSize)
  BY <1>1, PageOf
<1>7. a % PageSize = x % PageSize
  BY OffsetPlace
<1> DEFINE w == v + (e - f)
           r == x % PageSize
           V == PageSize * v
           F == PageSize * f
           E == PageSize * e
           W == PageSize * w
<1>8. w \in Nat /\ W = V + (E - F) /\ V \in Nat /\ E \in Nat /\ F \in Nat
  <2>1. ASSUME NEW k \in Nat, NEW i \in Nat, NEW j \in Nat, NEW l \in Nat
        PROVE  k * (i + (j - l)) = k * i + (k * j - k * l)
    OBVIOUS
  <2>2. w \in Nat
    BY <1>3, <1>5, <1>6
  <2>3. W = V + (E - F)
    <3> HIDE DEF v, f
    <3> QED
      BY <1>1, <1>3, <1>6, <2>1
  <2> QED
    BY <1>3, <1>6, <2>2, <2>3, AlignedPage
<1>9. x + n <= W /\ W < x + n + PageSize
  <2>1. x = V + r /\ a = F + r /\ r \in Nat /\ a + n <= E /\ E < a + n + PageSize
    BY <1>1, <1>4, <1>6, <1>7
  <2> HIDE DEF V, F, E, W, w, r, a, x, n
  <2> QED
    BY <1>1, <1>8, <2>1
<1>10. PICK u \in Nat : /\ paging_align_address(x + n) = PageSize * u
                        /\ x + n <= PageSize * u /\ PageSize * u < x + n + PageSize
  <2>1. x + n \in Nat /\ x + n + PageSize <= Word /\ x + n < Word
    BY <1>1 DEF HeaderLinked
  <2>2. PICK u \in Nat : /\ paging_align_address(x + n) = PageSize * u
                         /\ \/ x + n <= PageSize * u /\ PageSize * u < x + n + PageSize
                            \/ u = 0 /\ x + n + PageSize > Word
    BY <2>1, UpperPage, Zenon
  <2>3. ~(x + n + PageSize > Word)
    BY <1>1, <2>1
  <2> QED
    BY <2>2, <2>3
<1>11. u = w
  <2>1. x + n \in Nat /\ u \in Int /\ w \in Int
    BY <1>1, <1>8
  <2> HIDE DEF w, x, n
  <2> QED
    BY <1>9, <1>10, <2>1, SameMultiple, Zenon
<1>12. Covered(h) = v .. w - 1
  <2>1. Page(PageSize * u) = u
    BY AlignedPage
  <2> QED
    BY <1>10, <1>11, <2>1 DEF Covered
<1> HIDE DEF v, f, m
<1>13. w - 1 = v + (e - f) - 1
  BY <1>3, <1>6
<1>14. m.dir[p] = IF p \in Covered(h) THEN Entry(v, f, p, h.writable) ELSE dir[p]
  <2> HIDE DEF w
  <2> QED
    BY <1>5, <1>12, <1>13
<1> QED
  BY <1>14 DEF v, f, m

(* A page that only header k covers is the one that header k maps, after   *)
(* all headers.                                                            *)
LEMMA ElfPlaces ==
    ASSUME NEW phdrs \in Seq(Phdrs), \A i \in DOMAIN phdrs : HeaderLinked(phdrs[i]),
           process_map_elf(paging_new_4gb, phdrs).ok,
           NEW k \in DOMAIN phdrs, NEW p \in Pages, p \in Covered(phdrs[k]),
           \A i \in DOMAIN phdrs \ {k} : p \notin Covered(phdrs[i])
    PROVE  process_map_elf(paging_new_4gb, phdrs).dir[p] =
               Entry(Page(phdrs[k].vaddr), Page(ImageAddress + phdrs[k].offset), p,
                     phdrs[k].writable)
<1> DEFINE N == Len(phdrs)
           entry == Entry(Page(phdrs[k].vaddr), Page(ImageAddress + phdrs[k].offset), p,
                          phdrs[k].writable)
<1>1. N \in Nat /\ DOMAIN phdrs = 1 .. N /\ k \in 1 .. N
  OBVIOUS
<1>2. PICK after : ElfMapped(after, paging_new_4gb, phdrs)
  BY NewDirectory, MapElfLoop
<1> DEFINE S == {j \in 0 .. N : k <= j /\ after[j].ok => after[j].dir[p] = entry}
<1> HIDE DEF entry
<1>3. 0 \in S
  BY <1>1
<1>4. ASSUME NEW j \in S \cap (0 .. N - 1)
      PROVE  j + 1 \in S
  <2> DEFINE h == phdrs[j + 1]
             d == after[j].dir
             m == MapHeader(d, h)
  <2>1. j + 1 \in 1 .. N /\ j + 1 - 1 = j /\ j \in 0 .. N /\ k \in Int
    BY <1>1
  <2>2. k <= j /\ after[j].ok => d[p] = entry
    BY <2>1
  <2>3. after[j + 1] = IF after[j].ok THEN m ELSE after[j]
    BY <1>2, <2>1 DEF ElfMapped
  <2>4. h \in Phdrs /\ HeaderLinked(h)
    BY <1>1, <2>1
  <2> SUFFICES ASSUME k <= j + 1, after[j + 1].ok PROVE after[j + 1].dir[p] = entry
    BY <1>1, <2>1
  <2>5. after[j].ok /\ after[j + 1] = m /\ m.ok
    BY <2>3
  <2>6. m.dir[p] = IF p \in Covered(h)
                   THEN Entry(Page(h.vaddr), Page(ImageAddress + h.offset), p, h.writable)
                   ELSE d[p]
    <3> HIDE DEF h, d
    <3> QED
      BY <2>4, <2>5, HeaderCovers
  <2>7. CASE j + 1 = k
    BY <2>5, <2>6, <2>7 DEF entry
  <2>8. CASE j + 1 # k
    <3>1. p \notin Covered(h)
      BY <1>1, <2>1, <2>8
    <3>2. k <= j
      BY <2>1, <2>8
    <3> HIDE DEF h, d, m
    <3> QED
      BY <2>2, <2>5, <2>6, <3>1, <3>2
  <2> QED
    BY <2>7, <2>8
<1>5. 0 .. N \subseteq S
  <2> HIDE DEF S
  <2> QED
    BY <1>1, <1>3, <1>4, Induction
<1>6. N \in 0 .. N /\ k <= N
  BY <1>1
<1>7. after[N].ok => after[N].dir[p] = entry
  BY <1>5, <1>6
<1> QED
  BY <1>2, <1>7 DEF ElfMapped, entry

(* A page of the address space. *)
LEMMA PageInside ==
    ASSUME NEW a \in Nat, a < Word
    PROVE  Page(a) \in Pages
<1> DEFINE q == Page(a)
           w == Page(Word)
           x == PageSize * q
<1>1. /\ PageSize \in Nat \ {0} /\ Word \in Nat \ {0} /\ Word % PageSize = 0
      /\ q \in Nat /\ a = x + (a % PageSize) /\ a % PageSize \in 0 .. PageSize - 1
  BY ElfAssumption, PageOf
<1>2. w \in Nat /\ Word = PageSize * w
  BY <1>1, AlignedIs
<1>3. x \in Nat
  BY <1>1, AlignedPage
<1>4. x < Word
  <2> HIDE DEF x
  <2> QED
    BY <1>1, <1>3
<1>5. PageSize * q < PageSize * w
  BY <1>2, <1>4
<1>6. q < w
  <2>1. q \in Int /\ w \in Int
    BY <1>1, <1>2
  <2> QED
    BY <1>1, <1>5, <2>1, FactorOrder, Zenon
<1> HIDE DEF q, w
<1>7. q \in 0 .. w - 1
  BY <1>1, <1>2, <1>6
<1> QED
  BY <1>7 DEF Pages, q, w

(* The stack does not hide a page of the program. *)
LEMMA AboveStack ==
    ASSUME NEW dir, NEW a \in Nat, a < Word, StackEnd + StackSize <= a
    PROVE  MapStack(dir)[Page(a)] = dir[Page(a)]
<1> DEFINE v == Page(StackEnd)
           n == Page(StackSize)
<1>1. /\ StackEnd \in Nat /\ StackEnd % PageSize = 0 /\ PageSize \in Nat \ {0}
      /\ StackSize \in Nat /\ StackSize % PageSize = 0
  BY ElfAssumption
<1>2. v \in Nat /\ StackEnd = PageSize * v /\ n \in Nat /\ StackSize = PageSize * n
  BY <1>1, AlignedIs
<1>3. Page(a) \in Pages /\ Page(a) \in Nat
  BY PageInside, PageOf
<1>4. MapStack(dir)[Page(a)] =
         IF Page(a) \in v .. v + n - 1 THEN Entry(v, Page(StackAddress), Page(a), TRUE) ELSE dir[Page(a)]
  BY <1>3, StackMaps
<1> HIDE DEF v, n
<1>5. Page(StackEnd + StackSize) = v + n
  <2>1. StackEnd + StackSize = PageSize * (v + n) /\ v + n \in Nat
    BY <1>1, <1>2
  <2> QED
    BY <2>1, AlignedPage
<1>6. v + n <= Page(a)
  BY <1>1, <1>5, PageOrder
<1>7. Page(a) \notin v .. v + n - 1
  BY <1>2, <1>3, <1>6
<1> QED
  BY <1>4, <1>7

(* An address of the process, when its page is in the program's part of    *)
(* the directory.                                                          *)
LEMMA PhysicalIs ==
    ASSUME NEW x \in Nat, NEW a \in Nat, x % PageSize = a % PageSize, NEW b \in Nat, NEW w,
           pages[Page(x + b)] = Entry(Page(x), Page(a), Page(x + b), w)
    PROVE  Physical(x + b) = a + b /\ pages[Page(x + b)].writable = w
<1>1. pages[Page(x + b)].page = Page(a) + Page(x + b) - Page(x) /\ pages[Page(x + b)].writable = w
  BY DEF Entry
<1>2. (Page(a) + Page(x + b) - Page(x)) * PageSize + ((x + b) % PageSize) = a + b
  <2> DEFINE e == a + b + 1
  <2>1. e \in Nat \ {0} /\ PageSize \in Nat \ {0} /\ 1 \in Int /\ PageSize \in Int /\ 1 <= PageSize
    BY ElfAssumption
  <2> HIDE DEF e
  <2>2. e * 1 <= e * PageSize
    BY <2>1, FactorOrder, Zenon
  <2>3. e * 1 = e /\ e * PageSize = PageSize * e
    BY <2>1
  <2>4. a + b < PageSize * e
    <3> DEFINE y == PageSize * e
    <3>1. e <= y
      BY <2>2, <2>3
    <3>2. y \in Int
      BY <2>1
    <3> HIDE DEF y
    <3>3. a + b < y
      BY <2>1, <3>1, <3>2 DEF e
    <3> QED
      BY <3>3 DEF y
  <2>5. e \in Nat
    BY <2>1
  <2> QED
    BY <2>4, <2>5, BytePlace, ZenonT(30)
<1> QED
  BY <1>1, <1>2 DEF Physical

(* If the programs are linked as HeaderLinked says, every byte of a        *)
(* segment is at its address in the process and writable if and only if    *)
(* the header says so, whatever the other headers are, as long as they     *)
(* leave its pages alone; and a flat binary is at the program address.     *)
THEOREM SegmentsPlaced == Linked /\ LoaderSpec => []SegmentsInPlace
<1> SUFFICES ASSUME Linked PROVE LoaderSpec => []SegmentsInPlace
  OBVIOUS
<1>1. LoaderInv => SegmentsInPlace
  <2> SUFFICES ASSUME LoaderInv, Mapped PROVE SegmentsInPlace
    BY DEF SegmentsInPlace
  <2> DEFINE phdrs == program.phdrs
             m == IF IsElf THEN process_map_elf(paging_new_4gb, phdrs)
                  ELSE process_map_binary(paging_new_4gb, program.size)
  <2>1. /\ program \in Programs /\ program.size \in Nat /\ phdrs \in Seq(Phdrs)
        /\ PageSize \in Nat \ {0} /\ Word \in Nat \ {0} /\ ProgramAddress \in Nat
        /\ StackEnd \in Nat /\ StackSize \in Nat /\ ImageAddress \in Nat
        /\ StackEnd + StackSize <= ProgramAddress
    BY MappedIs, LoaderAssumption, ElfAssumption DEF Linked
  <2>2. m.ok /\ pages = MapStack(m.dir)
    <3>1. MapProgram(filetype[slot], program).ok /\ pages = MapProgram(filetype[slot], program).dir
      BY MappedIs
    <3>2. m.ok
      BY <2>1, <3>1, MapProgramIs, Zenon DEF IsElf
    <3>3. MapProgram(filetype[slot], program).dir = MapStack(m.dir)
      BY <2>1, <3>1, MapProgramIs, Zenon DEF IsElf
    <3> QED
      BY <3>1, <3>2, <3>3, Zenon
  <2>3. ASSUME NEW y \in Nat, y < Word, ProgramAddress <= y
        PROVE  Page(y) \in Pages /\ pages[Page(y)] = m.dir[Page(y)]
    <3>1. StackEnd + StackSize <= y
      BY <2>1, <2>3
    <3> HIDE DEF m
    <3> QED
      BY <2>2, <2>3, <3>1, AboveStack, PageInside
  <2>4. CASE ~IsElf
    <3> DEFINE x == ProgramAddress
               a == ImageAddress
    <3>1. /\ ImageAddress + program.size + PageSize <= Word /\ ProgramAddress + program.size <= Word
      BY <2>1 DEF Linked
    <3>2. ImageAddress + program.size \in Nat /\ ImageAddress + program.size < Word
      BY <2>1, <3>1
    <3>3. PICK e \in Nat : /\ paging_align_address(ImageAddress + program.size) = PageSize * e
                           /\ ImageAddress + program.size <= PageSize * e
      <4>1. PICK e \in Nat : /\ paging_align_address(ImageAddress + program.size) = PageSize * e
                             /\ \/ ImageAddress + program.size <= PageSize * e
                                \/ ImageAddress + program.size + PageSize > Word
        BY <3>2, UpperPage
      <4>2. ~(ImageAddress + program.size + PageSize > Word)
        BY <2>1, <3>1
      <4> QED
        BY <4>1, <4>2
    <3>4. ASSUME NEW b \in 0 .. program.size - 1
          PROVE  Physical(x + b) = a + b /\ pages[Page(x + b)].writable = TRUE
      <4>1. /\ b \in Nat /\ x + b \in Nat /\ x + b < Word /\ x <= x + b
            /\ a \in Nat /\ x \in Nat /\ a + b < ImageAddress + program.size
        BY <2>1, <3>1
      <4>2. a + b < PageSize * e
        <5> DEFINE E == PageSize * e
        <5>1. E \in Nat
          BY AlignedPage
        <5>2. ImageAddress + program.size <= E
          BY <3>3
        <5> HIDE DEF E
        <5>3. a + b < E
          BY <2>1, <4>1, <5>1, <5>2
        <5> QED
          BY <5>3 DEF E
      <4>3. x % PageSize = a % PageSize
        BY ElfAssumption
      <4>4. e >= Page(a) /\ Page(x + b) \in Page(x) .. Page(x) + (e - Page(a)) - 1
        BY <4>1, <4>2, <4>3, BytePlace, Zenon
      <4>5. Page(x + b) \in Pages /\ pages[Page(x + b)] = m.dir[Page(x + b)]
        BY <2>3, <4>1
      <4>6. m.dir[Page(x + b)] = Entry(Page(x), Page(a), Page(x + b), TRUE)
        BY <2>1, <2>4, <3>3, <4>4, <4>5, BinaryMaps
      <4>7. pages[Page(x + b)] = Entry(Page(x), Page(a), Page(x + b), TRUE)
        <5> HIDE DEF m
        <5> QED
          BY <4>5, <4>6
      <4> QED
        BY <4>1, <4>3, <4>7, PhysicalIs, Zenon
    <3> QED
      BY <2>4, <3>4, Zenon DEF SegmentsInPlace
  <2>5. CASE IsElf
    <3>1. ASSUME NEW k \in DOMAIN phdrs, Alone(k), phdrs[k].type = "load",
                 NEW b \in 0 .. phdrs[k].filesz - 1
          PROVE  /\ Physical(phdrs[k].vaddr + b) = ImageAddress + phdrs[k].offset + b
                 /\ pages[Page(phdrs[k].vaddr + b)].writable = phdrs[k].writable
      <4> DEFINE h == phdrs[k]
                 x == h.vaddr
                 a == ImageAddress + h.offset
                 q == Page(x + b)
      <4>1. /\ h \in Phdrs /\ h.offset \in Nat /\ x \in Nat /\ h.filesz \in Nat /\ h.memsz \in Nat
            /\ a \in Nat /\ b \in Nat
        <5>1. h \in Phdrs
          BY <2>1
        <5>2. h.offset \in Nat /\ x \in Nat /\ h.filesz \in Nat /\ h.memsz \in Nat
          BY <5>1 DEF Phdrs, Addresses
        <5> QED
          BY <2>1, <5>1, <5>2
      <4>2. (\A i \in DOMAIN phdrs : HeaderLinked(phdrs[i])) /\ HeaderLinked(h)
        BY <2>1 DEF Linked
      <4>3. /\ x + h.memsz + PageSize <= Word /\ x >= ProgramAddress /\ h.filesz <= h.memsz
            /\ h.offset % PageSize = x % PageSize
        BY <3>1, <4>2 DEF HeaderLinked
      <4>4. x + b \in Nat /\ x + b < Word /\ ProgramAddress <= x + b /\ x + b < x + h.memsz
        <5> DEFINE n == h.memsz
                   g == h.filesz
        <5>1. /\ x + n + PageSize <= Word /\ x >= ProgramAddress /\ g <= n /\ x \in Nat /\ n \in Nat
              /\ g \in Nat /\ b \in 0 .. g - 1
          BY <4>1, <4>3
        <5> HIDE DEF n, g, x
        <5>2. x + b \in Nat /\ x + b < Word /\ ProgramAddress <= x + b /\ x + b < x + n
          BY <2>1, <5>1
        <5> QED
          BY <5>2 DEF n
      <4>5. q \in Pages /\ pages[q] = m.dir[q]
        BY <2>3, <4>4
      <4>6. q \in Covered(h)
        <5> DEFINE n == h.memsz
        <5>1. x + n \in Nat /\ x + n + PageSize <= Word /\ x + n < Word
          <6>1. x \in Nat /\ n \in Nat /\ x + n + PageSize <= Word
            BY <4>1, <4>3
          <6> HIDE DEF x, n
          <6> QED
            BY <2>1, <6>1
        <5>2. PICK u \in Nat : /\ paging_align_address(x + n) = PageSize * u
                               /\ \/ x + n <= PageSize * u
                                  \/ x + n + PageSize > Word
          BY <5>1, UpperPage, Zenon
        <5>3. x + n <= PageSize * u /\ PageSize * u \in Nat
          <6>1. ~(x + n + PageSize > Word)
            BY <2>1, <5>1
          <6> QED
            BY <5>2, <6>1, AlignedPage
        <5>4. x + b < PageSize * u
          <6> DEFINE U == PageSize * u
          <6>1. x + n <= U /\ U \in Nat /\ x + b < x + n
            BY <4>4, <5>3
          <6> HIDE DEF U, x, n
          <6>2. x + b < U
            BY <4>1, <4>4, <5>1, <6>1
          <6> QED
            BY <6>2 DEF U
        <5>5. q \in Page(x) .. Page(x) + (u - Page(x)) - 1
          BY <4>1, <5>4, BytePlace, Zenon
        <5>6. Covered(h) = Page(x) .. u - 1
          <6>1. Page(PageSize * u) = u
            BY AlignedPage
          <6> QED
            BY <5>2, <6>1 DEF Covered
        <5>7. Page(x) \in Nat
          BY <4>1, PageOf
        <5>8. Page(x) + (u - Page(x)) - 1 = u - 1
          BY <5>7
        <5> HIDE DEF q
        <5> QED
          BY <5>5, <5>6, <5>8
      <4>7. \A i \in DOMAIN phdrs \ {k} : q \notin Covered(phdrs[i])
        BY <3>1, <4>6 DEF Alone
      <4>8. m.dir[q] = Entry(Page(x), Page(a), q, h.writable)
        BY <2>1, <2>2, <2>5, <4>2, <4>5, <4>6, <4>7, ElfPlaces, Zenon
      <4>9. x % PageSize = a % PageSize
        BY <4>1, <4>2, OffsetPlace
      <4>10. pages[q] = Entry(Page(x), Page(a), q, h.writable)
        <5> HIDE DEF m, q, x, a, h
        <5> QED
          BY <4>5, <4>8
      <4> DEFINE w == h.writable
      <4>11. Physical(x + b) = a + b /\ pages[Page(x + b)].writable = w
        <5>1. pages[Page(x + b)] = Entry(Page(x), Page(a), Page(x + b), w)
          BY <4>10
        <5> HIDE DEF x, a, w
        <5> QED
          BY <4>1, <4>9, <5>1, PhysicalIs, Zenon
      <4> QED
        BY <4>11
    <3> QED
      BY <2>5, <3>1, Zenon DEF SegmentsInPlace
  <2> QED
    BY <2>4, <2>5
<1> QED
  BY <1>1, LoaderInvariant, PTL
===============================================================================
