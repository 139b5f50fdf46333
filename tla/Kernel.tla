-------------------------------- MODULE Kernel --------------------------------
(***************************************************************************)
(* Processes, tasks and the handlers that switch between them:             *)
(* src/idt/idt.c, src/task/task.c, src/task/process.c (the process table)  *)
(* and src/isr80h/process.c.                                               *)
(*                                                                         *)
(* All gates are interrupt gates (type_attr 0xEE), so a handler runs with  *)
(* interrupts off from its entry until it returns to a task: a handler is  *)
(* one action, and the actions interleave with the instructions of the     *)
(* running task.  A process is named by its slot in the table.             *)
(***************************************************************************)
EXTENDS TaskList, FiniteSetsExt

CONSTANTS MaxProcesses,  \* PANDORA_MAX_PROCESSES
          Registers      \* register contents 0 .. Registers - 1

ASSUME KernelAssumption ==
    /\ MaxProcesses \in Nat \ {0, 1}
    /\ Registers \in Nat \ {0}
    /\ IsFiniteSet(Tasks) /\ Cardinality(Tasks) >= MaxProcesses

VARIABLES list,       \* task_head, task_tail, current_task and the links
          live,       \* the structs task that are allocated
          registers,  \* task->registers
          process,    \* task->process
          processes,  \* the process table: process->task of each slot
          focus,      \* current_process
          cpu,        \* the registers the processor runs with, and CR3
          mode,       \* "user": a task runs; "panic", "wild": nothing more does
          context     \* history: the registers each task last ran with

kernelVars == <<list, live, registers, process, processes, focus, cpu, mode, context>>

Slots == 0 .. MaxProcesses - 1
Regs  == 0 .. Registers - 1

TakenSlots(tab) == {p \in Slots : tab[p] # NULL}

-------------------------------------------------------------------------------
(* kernel_main loads two processes, each of which takes the focus, and     *)
(* runs the task at the head of the list.                                  *)
Booted(a, b) ==
    /\ list = task_new(task_new(EmptyList, a), b)
    /\ live = {a, b}
    /\ registers = [t \in Tasks |-> 0]
    /\ process = [t \in Tasks |-> IF t = b THEN 1 ELSE 0]
    /\ processes = [p \in Slots |-> CASE p = 0 -> a [] p = 1 -> b [] OTHER -> NULL]
    /\ focus = 1
    /\ cpu = [regs |-> 0, cr3 |-> a]
    /\ mode = "user"
    /\ context = [t \in Tasks |-> 0]

Init == \E a, b \in Tasks : a # b /\ Booted(a, b)

(* The scheduler's pointers lead to allocated structs only.  Once they do  *)
(* not, what happens depends on what has become of the freed memory; the   *)
(* model stops there.                                                      *)
Intact ==
    /\ list.current \in live
    /\ list.head \in live
    /\ list.tail \in live
    /\ RunQueue(list) \subseteq live

Running == mode = "user" /\ Intact

me == list.current

(* The running task executes an instruction. *)
Work ==
    /\ Running
    /\ \E r \in Regs : /\ cpu' = [cpu EXCEPT !.regs = r]
                       /\ context' = [context EXCEPT ![me] = r]
    /\ UNCHANGED <<list, live, registers, process, processes, focus, mode>>

(* The saved registers if task_save_state were not called. *)
NotSaved == registers

(* task_save_state(task_current(), frame), as every handler begins. *)
Saved == [registers EXCEPT ![me] = cpu.regs]

(* task_return and its helper restore_general_purpose_registers, after     *)
(* task_switch(t) has loaded the task's directory.                         *)
task_return(regs, t) == [regs |-> regs[t], cr3 |-> t]

(* task_switch(t); task_return(&t->registers) with the list q and the      *)
(* saved registers regs.  A null task is the panic of task_next.           *)
SwitchTo(q, regs, t) ==
    IF t = NULL
    THEN /\ mode' = "panic"
         /\ list' = q
         /\ UNCHANGED cpu
    ELSE /\ list' = [q EXCEPT !.current = t]
         /\ cpu' = task_return(regs, t)
         /\ UNCHANGED mode

(* interrupt_handler for the clock: idt_clock, task_next. *)
Clock ==
    /\ Running
    /\ registers' = Saved
    /\ SwitchTo(list, Saved, task_get_next(list))
    /\ UNCHANGED <<live, process, processes, focus, context>>

(* A handler returns through its frame: task_page loads the                *)
(* directory of current_task, popad, iretd.                                *)
ReturnToCaller ==
    /\ cpu' = [cpu EXCEPT !.cr3 = list'.current]
    /\ UNCHANGED mode

(* interrupt_handler for any other vector: its callback, if it has one,    *)
(* returns, task_page loads the current task's directory again and the     *)
(* frame is popped.  The state is saved only when there is a callback.     *)
Interrupt ==
    /\ Running
    /\ registers' \in {Saved, registers}
    /\ UNCHANGED <<list, live, process, processes, focus, context>>
    /\ ReturnToCaller

(* isr80h_handler with a command that returns to its caller, or with a     *)
(* number that names no command.  eax, in which the result is returned, is *)
(* not part of regs.                                                       *)
Syscall ==
    /\ Running
    /\ registers' = Saved
    /\ UNCHANGED <<list, live, process, processes, focus, context>>
    /\ ReturnToCaller

-------------------------------------------------------------------------------
(* Termination. *)

(* process_switch_to_any *)
AnyOf(tab) == Min(TakenSlots(tab))

(* Slips of process_unlink: the focus stays; the focus is only cleared. *)
KeepFocus(p) == focus
NoFocus(p) == IF focus = p THEN NULL ELSE focus

(* process_unlink: the focus moves when the process had it. *)
FocusWithout(p) ==
    IF focus = p THEN AnyOf([processes EXCEPT ![p] = NULL]) ELSE focus

(* process_terminate(task_current()->process), then task_next.  With no    *)
(* process left process_switch_to_any panics before anything is freed.     *)
(* Otherwise the task is unlinked, which moves current_task on, and        *)
(* freed, and task_next moves on once more.                                *)
TerminateCurrent ==
    LET p == process[me]
        t == processes[p]
        q == task_list_remove(list, t)
    IN  /\ registers' = Saved
        /\ processes' = [processes EXCEPT ![p] = NULL]
        /\ IF focus = p /\ TakenSlots(processes) = {p}
           THEN /\ mode' = "panic"
                /\ UNCHANGED <<list, live, focus, cpu>>
           ELSE /\ focus' = FocusWithout(p)
                /\ live' = live \ {t}
                /\ IF q.current = NULL
                   THEN mode' = "wild" /\ list' = q /\ UNCHANGED cpu
                   ELSE SwitchTo(q, Saved, task_get_next(q))
        /\ UNCHANGED <<process, context>>

(* idt_handle_exception, for the vectors 1 .. 0x1F. *)
Exception == Running /\ TerminateCurrent

(* isr80h_command9_exit *)
Exit == Running /\ TerminateCurrent

(* Vector 0 has idt_zero itself in its gate: a C function that prints and  *)
(* returns with ret instead of iret.  The task goes on in ring 0 with      *)
(* interrupts off, and no handler runs for another task again.             *)
DivideError ==
    /\ Running
    /\ mode' = "wild"
    /\ UNCHANGED <<list, live, registers, process, processes, focus, cpu, context>>

-------------------------------------------------------------------------------
(* Loading: isr80h_command6_process_load_start and                         *)
(* isr80h_command7_invoke_system_command.                                  *)

(* No slot is free, or the memory for the image or the stack is not there: *)
(* nothing was linked yet.                                                 *)
LoadFails ==
    /\ Running
    /\ registers' = Saved
    /\ UNCHANGED <<list, live, process, processes, focus, context>>
    /\ ReturnToCaller

(* The file cannot be opened.  fopen hands the error value that fat16_open *)
(* returned to fat16_close as if it were a descriptor; what is freed       *)
(* depends on the memory at the top and at the bottom of the address       *)
(* space.  Where that does no harm the step is LoadFails.                  *)
OpenFails ==
    /\ Running
    /\ registers' = Saved
    /\ mode' = "wild"
    /\ UNCHANGED <<list, live, process, processes, focus, cpu, context>>

(* process_map_memory fails: process_free_process frees the new task.  Its *)
(* struct keeps the links it had.                                          *)
LoadFailsToMap ==
    /\ Running
    /\ TakenSlots(processes) # Slots
    /\ \E t \in Tasks \ live :
          /\ list' = task_list_remove(task_new(list, t), t)
          /\ process' = [process EXCEPT ![t] = Min(Slots \ TakenSlots(processes))]
          /\ context' = [context EXCEPT ![t] = 0]
          /\ registers' = [Saved EXCEPT ![t] = 0]
    /\ ReturnToCaller
    /\ UNCHANGED <<live, processes, focus>>

(* Loading when task_init forgets task->process. *)
LoadedWithoutOwner(t) ==
    LET slot == Min(Slots \ TakenSlots(processes))
    IN  /\ TakenSlots(processes) # Slots
        /\ live' = live \cup {t}
        /\ processes' = [processes EXCEPT ![slot] = t]
        /\ focus' = slot
        /\ registers' = [Saved EXCEPT ![t] = 0]
        /\ context' = [context EXCEPT ![t] = 0]
        /\ UNCHANGED process

(* process_load_switch succeeds for the first free slot.  The caller is    *)
(* left in the list, to be resumed later.                                  *)
Loaded(t) ==
    LET slot == Min(Slots \ TakenSlots(processes))
    IN  /\ TakenSlots(processes) # Slots
        /\ live' = live \cup {t}
        /\ process' = [process EXCEPT ![t] = slot]
        /\ processes' = [processes EXCEPT ![slot] = t]
        /\ focus' = slot
        /\ registers' = [Saved EXCEPT ![t] = 0]
        /\ context' = [context EXCEPT ![t] = 0]

(* task_switch(process->task); task_return: the new process runs at once. *)
Load ==
    /\ Running
    /\ \E t \in Tasks \ live :
          /\ Loaded(t)
          /\ SwitchTo(task_new(list, t), [Saved EXCEPT ![t] = 0], t)

(* process_inject_arguments fails in command 7: the process stays loaded   *)
(* and keeps the focus, and the caller gets the error.                     *)
LoadFailsToInject ==
    /\ Running
    /\ \E t \in Tasks \ live :
          /\ Loaded(t)
          /\ list' = task_new(list, t)
          /\ ReturnToCaller

Next ==
    \/ Work \/ Clock \/ Interrupt \/ Syscall
    \/ Exception \/ Exit \/ DivideError
    \/ LoadFails \/ OpenFails \/ LoadFailsToMap \/ Load \/ LoadFailsToInject

(* The clock keeps ticking while a task runs: task_return sets the         *)
(* interrupt flag and a user task cannot clear it.                         *)
Spec == Init /\ [][Next]_kernelVars /\ WF_kernelVars(Clock)

-------------------------------------------------------------------------------
(* Properties. *)

(* Type correctness of the scheduler's state. *)
KernelTypeOK ==
    /\ list \in Lists
    /\ live \subseteq Tasks
    /\ registers \in [Tasks -> Regs] /\ context \in [Tasks -> Regs]
    /\ process \in [Tasks -> Slots]
    /\ processes \in [Slots -> Tasks \cup {NULL}]
    /\ focus \in Slots
    /\ cpu \in [regs : Regs, cr3 : Tasks]
    /\ mode \in {"user", "panic", "wild"}

(* The running task is the task of a process in the table: the comment on  *)
(* processes (process.c 13) says it holds "ALl running processes".         *)
RunsAProcess ==
    mode = "user" => list.current \in live /\ processes[process[list.current]] = list.current

(* The run queue is exactly the set of allocated tasks: no process is out  *)
(* of the scheduler's sight and no freed struct is in it, whatever was     *)
(* loaded and terminated before (task_new, task_list_remove).              *)
RunQueueIsLive ==
    mode = "user" => /\ RunQueue(list) = live
                     /\ list.tail \in live
                     /\ list.current \in live

(* A task runs with the registers it was interrupted with and under its    *)
(* own page directory, however many switches, loads and terminations lie   *)
(* between (task_save_state, task_return, task_page).                      *)
ContextRestored ==
    Running => cpu.regs = context[list.current] /\ cpu.cr3 = list.current

(* The process that has the focus, to which the keyboard pushes its        *)
(* characters, is always one that is in the table (process_unlink,         *)
(* process_switch_to_any).                                                 *)
FocusInTable == mode = "user" => processes[focus] # NULL

(* The table and the task structs agree: each process in the table has an  *)
(* allocated task that points back to it, and no allocated task belongs to *)
(* a process that left the table.                                          *)
TableMatchesTasks ==
    mode = "user" =>
        /\ \A p \in TakenSlots(processes) : processes[p] \in live /\ process[processes[p]] = p
        /\ \A t \in live : processes[process[t]] = t

(* The kernel panics only when the last process is gone. *)
PanicsOnlyWhenEmpty == mode = "panic" => TakenSlots(processes) = {}

(* Every task in the system gets the processor, unless it is terminated or *)
(* the machine stops (idt_clock, task_next).                               *)
EveryTaskRuns ==
    \A t \in Tasks : t \in live ~> (list.current = t \/ t \notin live \/ mode # "user")
===============================================================================
