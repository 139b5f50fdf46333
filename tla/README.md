# A TLA+ model of the kernel

The repository is a small 32-bit x86 kernel in C and assembly: it boots, keeps
a heap, reads programs from a FAT16 disk, runs them as processes with paging,
switches between them on the clock, and serves system calls and the keyboard.
This directory holds TLA+ modules that model its parts, TLC configurations
that check them on small instances, and proofs, checked by TLAPS, of theorems
that hold for every value of the constants. `PROJECT.json` lists components,
runs, findings, hazards and theorems and maps every definition to the lines it
models.

## 1. Inventory

| Part (source) | State | Operations | Interacts with | Hard because | Correct when |
|---|---|---|---|---|---|
| Heap (`memory/heap`) | one flag byte per 4096-byte block | `kmalloc`, `kzalloc`, `kfree` | everybody | fragmentation, end of the table, sizes that wrap | allocations never overlap; the bytes describe exactly what is outstanding; refusal only when nothing fits |
| Tasks (`task/task.c`, `task.asm`) | `task_head`, `task_tail`, `current_task`, links, saved registers | `task_new`, `task_free`, `task_next`, save and return | interrupts, processes | removal of the running task, stale links | run queue = allocated tasks; a task gets its registers and page directory back; everybody gets a turn |
| Processes (`task/process.c`) | table of 12, focus, allocations, image, stack | load, terminate, malloc, free, inject arguments | heap, tasks, paging, files, keyboard | a dozen calls that can fail in one load; termination inside a handler | table, tasks and focus agree; a process owns and can write exactly its memory; nothing is left behind |
| Interrupts (`idt`) | gate table, callbacks | clock, exceptions, system call gate, others | tasks, processes, keyboard | they interrupt a task anywhere | see tasks |
| System calls (`isr80h`) | table of commands | print, getkey, putchar, malloc, free, load, invoke, arguments, exit | all of the above | leave by another task than the one they were entered by | see processes |
| Keyboard (`keyboard`) | a ring per process, caps lock | key interrupt, `keyboard_pop` | focus (writer), running task (reader) | two processes that change independently; counters that wrap; no check for a full ring | keys arrive in order at the process they were typed for |
| Paging (`memory/paging`) | a directory per task | map, map range, switch | tasks, processes | rounding of ends; entries left behind | see processes |
| Loader (`loader/formats`) | an ELF image | `elf_load`, `elf_close` | files, processes | unchecked allocations, error exits | see processes |
| Files (`fs/file.c`) | descriptor table | open, stat, read, seek, close | file system, path parser | error exits of `fopen`; a full table | a failed call leaves no trace; nothing is lost |
| FAT16 (`fs/fat`, `disk/streamer.c`) | headers, root directory, streams; position per file | open, read, seek, stat, close; walking a path | disk, heap | cluster and sector boundaries; deleted entries; directories of several clusters; memory that runs out on the way | a read returns the file's bytes; a path leads to the entry it names |
| Path parser (`fs/pparser.c`) | list of parts | parse, free | files | memory that runs out in the middle | parts of the path in order, or an error |
| Terminal (`kernel.c`) | row and column, 16 bits | write, backspace | print, putchar of all processes | wrap, no scroll, left margin | the screen shows the line that is typed |
| Segments, TSS (`gdt`) | descriptor table | encode at boot | – | bit layout | decoding gives back the values |
| Disk (`disk/disk.c`) | – | read sectors | controller | busy wait | hardware only |
| User library (`programs`) | `strtok` position, line buffers | readline, parse command, run it | system calls | static state, memory that runs out between two words | a program gets the words that were typed |

Handlers run from entry to return with interrupts off: all gates are interrupt
gates (`idt_set` writes `0xEE`), and only `task_return` sets the interrupt flag
again. So a handler is one action, and actions interleave with the instructions
of user tasks. Inside a handler there is no concurrency, but calls can fail
one after the other; `Loader` and `HeapLoops` take handlers apart.

## 2. Modules

| Module | Models | Built on |
|---|---|---|
| `BlockAllocator` | abstract: a pool of blocks from which runs are granted | – |
| `KernelHeap` | `heap.c`, `kheap.c`: the table, scan, mark, free | implements `BlockAllocator` |
| `HeapLoops` | the three loops of `heap.c`, one iteration per step | implements `KernelHeap` |
| `TaskList` | the linked list of `task.c` as operators on a record | – |
| `Kernel` | scheduling, interrupts, exceptions, process table, focus, loading and exit | `TaskList` |
| `ProcessMemory` | process memory: allocations, images, stacks, page entries of the heap | `KernelHeap` |
| `ElfImage` | header checks, bounds and mapping of a program, as operators | – |
| `Loader` | what a load allocates, frees and maps on every path | `ElfImage` |
| `Keyboard` | rings, focus and reader | – |
| `Fat16` | reading and seeking in an open file, down to sectors | – |
| `PathParser` | `pparser.c`, as operators that count memory | – |
| `Directory` | directories of `fat16.c`: count, load, search, walk; reference: lookup in the tree of a volume | – |
| `Files` | `file.c`: the descriptor table and its calls | `PathParser`, `Directory` |
| `Terminal` | `terminal_*` and `print` of `kernel.c`, as operators | – |
| `Shell` | the shell, `readline`, command parser and `strtok`, and a process that writes in between | `Terminal` |
| `MCProcessMemory`, `MCShell` | views for TLC | |
| `MCLoader`, `MCFiles` | the programs, volumes and paths of the runs | |
| `NatLemmas` | arithmetic, induction and values of recursive functions, for the proofs | – |
| `MemoryProofs` | theorems about `KernelHeap`, `HeapLoops` and `ProcessMemory` | `HeapLoops`, `ProcessMemory`, `NatLemmas` |
| `KernelProofs`, `LoaderProofs`, `KeyboardProofs`, `Fat16Proofs`, `FilesProofs`, `ShellProofs` | theorems about the module each is named after | that module, `NatLemmas` |

How state and actions correspond to the code:

* **KernelHeap.** A flag byte is the set of its flags; a block's index stands
  for its address. `held` is what callers have been given and not freed.
  `spilled` records writes behind the table. The scan is written by its result:
  the first run of n free blocks, else the free run at the end of the table
  (which the code returns although it is too short), else `-ENOMEM`. Sizes are
  rounded modulo `Word`.
* **HeapLoops** keeps the locals `i`, `bc`, `bs`, `entry` of the loops. The
  history variable `before` is the table when the operation began; mapping
  `entries` to it makes each operation one step of `KernelHeap`.
* **TaskList / Kernel.** A task is the address of its struct; links of freed
  structs are kept, because the code follows them. `mode` is `user` while
  tasks run, `panic` after `panic()`, and `wild` once the code has returned
  wrongly or used a null or error pointer. `Intact` says that the scheduler's
  pointers lead to allocated structs; actions are defined only then, since
  otherwise they depend on reused memory. `cpu` holds the registers in use and
  the loaded directory (CR3). Booting is the initial state: two processes, the
  first one running, the second in focus.
* **ProcessMemory.** The entries of each page directory that cover the heap
  are `ro` (as created), `rw` (after `process_malloc`) or `np` (after
  `process_free`). The rest of the kernel allocates and frees as it likes, up
  to `MaxKernelRuns` runs. `CopyFaults` is `copy_string_from_task` interrupted
  by a page fault.
* **Loader** names each struct by its purpose; each call is a step that
  succeeds, fails, or goes wild where the code does not check a result. The
  file that is read is any member of `Programs`; whether it is an ELF file,
  its bounds and its page directory follow from it (`ElfImage`). What
  `process_free_process` frees follows the fields of the process: the ELF file
  or the image counts only once `process_load_elf` or `process_load_binary` has
  stored it (`DataSet`), so an exit in front of that has to free its own. A page directory
  is a function from pages to a physical page and the right to write; the two
  levels of the tables are its representation.
* **Files** counts memory: every struct takes one block, and the operators of
  `PathParser` and `Directory` pass the number of free blocks along, so any
  allocation may be the one that fails (`Elsewhere` changes what is left
  between calls). A volume is the root directory, the slots of its clusters
  and the allocation table. A name stands for all its spellings: the 8.3
  conversion and the comparison without case are abstracted. A pointer in an
  item is `ok`, `null` or `freed`; using the latter two makes the mode `wild`.
  The loops of the parser, of the search and of the walk are recursive
  functions of the round: what `pathparser_parse` has read (`at`) and whether it
  goes on, and how far the walk has come (`how`: on, out of the loop, or wild).
  `FilesAssumption` is what the format of the disk gives (`VolumeShape`: a
  directory entry names a cluster) and that names of a path are separated. Three
  things are left out by it: a root directory that is full to its last entry,
  without an end mark, which is counted past its end so that the search reads
  behind its array; entries of the allocation table that the walk takes for
  something else than they are (these are in `Fat16`); and paths with the parts
  `.` and `..`, which the code looks up like any name (the `..` of a directory
  in the root has cluster 0, and what lies in front of the data is read as
  directory).
  `lostPaths` is the history of what successful opens never free.
* **Terminal / Shell.** The terminal is a record of row, column and cells; row
  and column wrap at `Word16`. Every system call of the shell is a step, and
  another process may write any character between them, newline and backspace
  included. `typed` is the line as the user
  edited it, `origin` where it began on the screen; `spoilt` and `failed`
  record the cases which the properties exclude by name. `margin` is recorded
  for a backspace at the left margin by either writer.
* **Keyboard** leaves it to `Switch` who has the focus and who runs, which is
  more than `Kernel` allows. `unread` is the history of what was typed.
* **Fat16** lets a byte of the disk be its own position, so a wrong byte shows
  where it was taken from. A volume is given by the cluster numbers a file may
  have (`ClusterIds`), the end marks its maker writes (`EndMarks`) and what
  stands in the other entries of the table (`Strays`); the variable `fat` is
  the table wherever a walk can come to. `Stops` are the entries on which
  `fat16_get_cluster_for_offset` gives up. They are not those of the format: it
  knows two of the eight end marks, and goes on from the others as from a
  cluster, and it takes 0xFF0, 0xFF6 and 0xFF7 for marks, which are ordinary
  cluster numbers on FAT16.

## 3. Runs

| Run | Shows | Bounds |
|---|---|---|
| `heap_spill` | violated: writes stay inside the table | 4 blocks |
| `heap_loops` | the loops compute what `KernelHeap` says and end | 3 blocks, requests of 0, 1 and 3 blocks |
| `kernel` | types, contexts, focus, table, run queue, panic only when empty, every task runs | 2 processes, 3 addresses, so that addresses are reused and skipped |
| `kernel_three` | violated: the running task belongs to a process of the table | 3 processes |
| `process_memory` | ownership, mapping, release on exit, heap invariants | 5 blocks, 2 processes, 2 allocations each: the heap and the allocation table both run full |
| `loader` | nothing left behind, complete processes, closed files; segments in place, only own pages writable, bounds | 2 slots; all outcomes of all calls; ELF files with a text and a data segment in both orders, all positions in a page of 2 bytes, bss, a length that wraps, and every flaw of the header |
| `loader_task` | violated: memory is mapped through a real task | as `loader` |
| `keyboard` | order of keys, ring contents; after an overrun too, a process that is typed to goes on receiving keys | rings of 2 cells, counters that wrap at 4: overrun and wrap both happen; one letter, which caps lock makes two characters |
| `fat16` | reads at or inside clusters are right; reads inside the file succeed unless the chain goes on in a cluster whose number is taken for a mark | 3 clusters of 2 sectors of 2 bytes, one of them number 4087 (0xFF7); an end mark the walk knows and one it does not; free entries and entries of another chain around the file's; every chain and file size, reads of up to 2 items of 9 bytes |
| `fat16_straddle` | violated: all reads look like one file | as `fat16` |
| `files` | only the blocks of parsed paths are lost, failed calls leave no trace, paths lead to what they name | clusters of 2 slots; directories of one or two clusters in and out of order, nested, with deleted entries; 11 paths (nested, doubled slash, too long, wrong drive, invalid); 2 descriptors; 21 blocks, enough for the deepest walk with a full table |
| `shell` | arguments are the words typed, the screen shows the line, the cursor leaves its line only by a backspace at the left margin | lines of 3 characters on a screen of 4 x 5, so that lines wrap and the screen ends; 3 lines, so that a stale `strtok` shows in the next line and is gone in the one after; one character by another process, a letter, a blank, a newline or a backspace |

With two processes the task list stays well formed and the strong properties
of `Kernel` hold. With three, `task_list_remove` can break the list (below);
what holds nevertheless, contexts, focus, table and that a panic means an empty
table, is proved for any number of processes.

Where a property of `files`, `shell` or `loader` has a hypothesis, it names a
case in which the code does something else: deleted entries and directories
out of order (files are missed), a backspace on the empty line (it is stored)
or at the left margin (the column wraps), a line after one whose parse ran out
of memory (`strtok` goes on in the old line), a bss behind the end of the
image, headers that share a page. No document of the repository says otherwise
of them, so they are hazards in `PROJECT.json` and not findings.

Deadlock is not checked where the system may stop: the kernel after a panic or
a wild step, the loader and the files after a wild step, the shell after its
last line.

### What the violations say

* **`heap_spill`**: when no run fits, `heap_get_start_block` hands out the free
  blocks at the end of the table even if they are too few (heap.c 104).
* **`kernel_three`**: `task_list_remove` never updates `next->prev`. After two
  of three tasks have ended the scheduler runs a freed task.
* **`loader_task`**: the check after `task_new` (process.c 564) is inverted.
* **`fat16_straddle`**: a read that starts inside a cluster and crosses its end
  goes on in the wrong cluster (fat16.c 484).

`fat16` shows one more, as the hypothesis of `ReadsInsideSucceed`: a file with
cluster 4080, 4086 or 4087 behind its first one cannot be read past that place,
since `fat16_get_cluster_for_offset` compares with the marks of FAT12 (fat16.c
438 and 445).

### Fairness

`Kernel` assumes weak fairness of `Clock`: the timer ticks, `task_return` sets
the interrupt flag, and a user task cannot clear it. `HeapLoops` assumes that
the processor runs a loop that has begun. `Keyboard` assumes that every process
gets the processor again, which `EveryTaskRuns` shows of `Kernel`, and that a
process which runs again and again does not always lose the processor just
before its next `getkey`: it polls in `pandora_getkeyblock`. No other module
assumes fairness.

## 4. Proofs

`MemoryProofs`, the heap (from `HeapAssumption`, and for requests that round to at
least one block): `TypeCorrect`, `AllocationsDisjoint`, `TableCorrect` and
`HeapImplementsAllocator`. None of the invariants is inductive alone: a free
clears the blocks its flags lead to, which are the blocks of the run only if
the table encodes the allocations, and it keeps the table correct only if
allocations are disjoint. The inductive invariant `HeapInv` is their
conjunction with types and the fact that runs are not empty. Lemmas say what
the scan returns (`StartBlock`) and which blocks a free visits. The
refinement maps the free blocks to the entries without the taken flag.
Requests of zero blocks (a size of 0, or one that wraps to 0 when it is
rounded) are excluded: they get a block that is not marked, and a later
request can get it too.

`KernelProofs` (from `TaskAssumption` and `KernelAssumption`, for any number of
processes and addresses): `KernelTypeCorrect`, `ContextsRestored`,
`FocusSound`, `TableSound`. That the running task has its own registers is not
inductive: one must know that the saved registers of every waiting task are
those it last ran with (`ContextInv`), and that the table and the tasks agree,
to know that the terminated task is the current one. Nothing is assumed of the shape of the
list, which is not well formed in general. The kernel panics in two places,
without a process (`process_switch_to_any`) and without a next task
(`task_next`). `PanicsSound` says that the second is never reached, not even
with a broken list: after a removal the current task has a next one unless it
has become null itself (`NextAfterRemove`), which makes the step wild.

The shape of the list is the subject of `QueueSound` and `TwoRunProcesses`:
under `[]AtMostTwo`, that no more than two processes are loaded at a time, the
run queue is the set of allocated tasks and the running task belongs to a
process of the table. `AtMostTwo` is a hypothesis on behaviours and not on
constants: slots and addresses may be many, so tasks come, go and are reused
without end. It cannot be weakened to three (`kernel_three`), and with a table
of two slots it always holds (`QueueSoundInTwoSlots`, which has no hypothesis on
behaviours). `Queue` gives the links of a list of one or two tasks, all but the
`prev` of the head, the field that `task_list_remove` leaves stale. When that
task is removed in its turn, the code writes through the stale field; with two
tasks the worst that does is to make the next field of the remaining task point
to the task itself (`OneTask`), which is where `task_next` goes anyway.

`MemoryProofs`, the loops (`HeapLoops`, from `HeapAssumption` only): `ScanSound`
and `LoopsRefineHeap`. That the loops compute what `KernelHeap` says is only true
of a finished loop; in the middle one needs to know how much of the table it
has seen or changed. `LoopInv` says so for each of the three loops (`Scanning`,
`Marking`, `Clearing`), relative to the table `before` the operation, and says
that between operations `before` is the table. Every iteration but the last is
then a stutter of `KernelHeap`, and the last one its operation. With
`HeapImplementsAllocator` the chain reaches from the loops of `heap.c` to the
pool of blocks.

`MemoryProofs`, the processes (from `HeapAssumption`, `MemoryAssumption`, and
requests of at least one block): `MemTypeCorrect`, `OnlyOwnedWritable`,
`AllOwnedWritable`, `RunsHaveOneOwner`, `ExitFreesAll`. `MemInv` joins `HeapInv`
with `ProcessOK`, which says of one process that its table, image and stack
name distinct runs and that exactly these are writable, and `Accounted`, which
divides the runs of the heap between processes, kernel and lost pointers. The
parts need each other: `process_free` unmaps as many pages as the size in the
table says, which are the pages of the run only if the heap agrees, and what it
unmaps belongs to no other allocation only because runs are disjoint. Handlers
make several calls of the heap, so the facts about the heap are stated for
tables and sets of runs (`HeapOK`), not for steps. The assumption `None` is
neither a run nor an entry is what a null pointer is.

`LoaderProofs` (from `ElfAssumption` and `LoaderAssumption`, for any number of
slots and any set of programs). `LoadsLeaveNothing`, `ProcessesComplete`,
`LoadsCloseFiles` and `LoaderTypeCorrect` rest on `LoaderInv`, which names for
every `pc` the structs a load holds there, so that each error exit can be seen
to free exactly these. Three theorems about the image have a hypothesis, each
true of the programs of the run:

* `WritesStayInside` assumes `InMemory`: the address of the last byte of a file
  in memory is an address. The heap is below 4 GB and the file was read into it.
* `BoundsExact` assumes `SegmentsBounded`: no segment at address 0, which
  `elf_process_phdr_pt_load` takes for a bound not yet set, and none that ends
  past the address space.
* `SegmentsPlaced` assumes `Linked`: offset and address of a segment agree
  modulo the page size, which the ELF format demands of loadable segments;
  segments are above the program address, which is above the stack (`config.h`
  and the linker scripts), and end a page before the address space does.

For `process_map_elf` it is shown that a page has the entry of the last header
that covers it, by induction on the headers, and that rounding by pages neither
moves a segment nor cuts it.

`KeyboardProofs` (from `KeyboardAssumption`: the buffer size divides the word
size, as 1024 divides 2^32): `KeyboardTypeCorrect`, `RingSound`, `KeysInOrder`,
`PollingMissesNothing`. The order of keys is a consequence of `RingHoldsUnread`,
which is inductive with types; the core is arithmetic, that the cell pushed to
is the free one after the unread keys when the counters wrap between them.

`Fat16Proofs` (from `FatAssumption`, for every sector and cluster size, every
set of cluster numbers, end marks and other entries, chain, table and file
size): `FatTypeCorrect`, `FittingReadsRight`, `InsideReadsSucceed`. From
the inside out: `StreamReads` says that `diskstreamer_read` returns the bytes
of the disk from its start on, whatever sectors they cross; `WalkFinds` that
the walk over the allocation table, if it does not fail, is at cluster n of the
chain, and fails past its end if the end mark is one it knows (`Ended`),
whatever the other entries are; `InsideReadsSucceed` adds that it reaches
cluster n if no number on the way is taken for a mark (`Plain`); `InternalReads` and `ItemsRead` put
pieces and items together. `FatInv` keeps the chain sound and says of the last
read what these lemmas say (`ItemsOK`). That the fitting of the items is needed
is the run `fat16_straddle`.

`FilesProofs` (from `PathAssumption`, `DirectoryAssumption` and
`FilesAssumption`, for every size of cluster, volume, path, heap and descriptor
table): `FilesTypeCorrect`, `BlocksAccounted`, `OpensRight`, `FailuresHarmless`
and `ExistingFound`. All assume `SoundVolumes`, which TLC evaluates for the
volumes of the run: in a directory no name occurs twice or behind the end mark,
and the first entry is the directory's own. The end mark of the root directory
(`VolumeShape`) is what keeps its search inside the array (`RootIs`). Without
`SoundVolumes` blocks do get lost: the
search makes an item of every entry with the name and keeps the last one. The
argument goes with the code. `PathParsed` says of the parser that its parts are
a beginning of the names of the path, that it goes to the end unless memory runs
out or a slash is doubled, and that what it has taken is what `pathparser_free`
gives back. `OfChainType`, `UpToEndIs`, `TotalIs` and `LoadIs` say what a
directory is read as and what it takes; `FindIs`, that a search makes at most
one item, and `SearchFinds`, which one. `WalkLoop` follows the walk next to
`Named`, the lookup in the tree of the volume: each round either holds the item
named by one more part and exactly its blocks, or has ended. `FilesInv` then
needs, beside types, only that every open descriptor has what a beginning of
its path names and that the blocks add up (`AllBlocks`); `OneChanges` says how
their sum changes with one descriptor. `ExistingFound` assumes
`TotalBlocks >= 6`: the walk holds one directory, of three blocks, while it
looks for the next.

`ShellProofs` (from `TerminalAssumption` and `ShellAssumption`, for every size
of screen, line and argument): `ShellTypeCorrect` and `CursorStaysInLine` rest
on `ShapeInv`, which adds to the types that a column past the right margin is
65535 and was reached by a backspace at the left one, the shell's or another
writer's, and that the cursor is then behind the
end of the screen, so that the next visible character falls outside it and not
on the line. `LineShown` needs `DisplayInv`: the line stands on the
screen from `origin` on, and everything behind the cursor is blank, because the
row never decreases. That is true only while the row does not wrap at 2^16, so
the theorem assumes `RowsFit`: below the screen nothing is shown, and from there
at most two newlines of the shell and those of the other writers follow before
a visible character sets `stray`. The constants of the run satisfy it, and those
of the kernel (20 rows, `kernel.h`) do for up to 65,513 writes of others.

`ArgvRight` (`ShellProofs`, second half) has no hypothesis. `ArgvInv` follows
the line through three buffers: while it is typed, `out` holds `typed` up to
the index; after that the arguments so far are the words that begin in front of
`strtok`'s place, and the copy still holds the rest of the line from there on
(`Holds`), the place being no position inside a word; and `strtok` has a place
between two lines only if an allocation failed. `TokenIs` is one call of
`strtok`: it finds the next word of the line (`WordLeft`), cut to the size of an
argument (`ArgumentIs`), or there is none left (`NoWordLeft`). Words are counted
by where they begin (`Starts`), so `StartIs` says that a word is determined by
the number of words up to it.

`MemoryProofs` and `LoaderProofs` meet on `Disjoint`, `OneOwner` and
`NothingLeft`: together they say that no memory is shared and
that none is lost on the ways the code handles.

`NatLemmas` has the arithmetic of quotients and remainders, and induction. The
library's induction theorems take a predicate as a parameter, which no installed
prover can instantiate; `Induction` and `StrongInduction` state the same with a
set instead, and `LoopHasValues` and `DescentHasValues` that the recursive
functions the modules define exist (`LoopAgree`: and are unique): with a step
of 1, for the loops over parts, slots, items, clusters and headers, and with a
step down by any amount, for the reads that take a sector or a cluster at a
time.

Every invariant and every action property that a passing run checks is a
theorem. Only model-checked is liveness (`EveryTaskRuns`, `LoopsTerminate`,
`NobodyStaysDeaf`), since the prover handles neither fairness nor `ENABLED`.
The violations are TLC's as well. What TLC adds to a theorem is that its
hypotheses are those of a real instance: `SoundVolumes`, `RowsFit` and the
assumptions on programs hold for the constants of the runs.

## 5. Not modelled

* The disk driver: port I/O and a busy wait; only the hardware decides. The
  disk is assumed to answer.
* The boot sector and `kernel.asm`: straight-line code that runs once.
* Segment descriptors and the TSS: an encoding of constants at boot.
* String and memory loops, the 8.3 name conversion, `itoa` and `printf`: data.
* The layout of page tables in two levels, colours of the screen.
* Which keys an overrun of the ring loses: afterwards the reader's and the
  writer's place differ, and a key can lie where the reader does not look until
  the ring has gone round. `NobodyStaysDeaf` says only that it does go round.
