----------------------------- MODULE KernelProofs -----------------------------
(***************************************************************************)
(* Proofs about Kernel for any number of processes and of addresses.  The  *)
(* inductive invariant adds to the properties that the registers of every  *)
(* waiting task are those it last ran with.  It does not say anything of   *)
(* the shape of the list: the list is not well formed in general, and the  *)
(* theorems hold as far as the model goes, that is, as long as the         *)
(* scheduler's pointers lead to allocated structs (Intact).  What is said  *)
(* of the list, at the end, holds while at most two processes are loaded.  *)
(***************************************************************************)
EXTENDS Kernel, NatLemmas, FiniteSetTheorems, TLAPS

(* The registers of every task that waits are those it last ran with. *)
WaitingContextKept ==
    Running => \A t \in live \ {list.current} : registers[t] = context[t]

(* The parts of ContextRestored and WaitingContextKept that do not depend  *)
(* on Running, so that they can be carried from step to step.              *)
ContextInv ==
    mode = "user" =>
        /\ list.current \in live =>
              cpu.regs = context[list.current] /\ cpu.cr3 = list.current
        /\ \A t \in live \ {list.current} : registers[t] = context[t]

KernelInv == KernelTypeOK /\ TableMatchesTasks /\ FocusInTable /\ ContextInv

-------------------------------------------------------------------------------
(* The list operations keep the type of the list.                          *)

(* task_new on a list with a head leaves current_task alone. *)
LEMMA TaskNewType ==
    ASSUME NEW q \in Lists, NEW t \in Tasks, q.head # NULL, q.tail # NULL
    PROVE  task_new(q, t) \in Lists /\ task_new(q, t).current = q.current
BY TaskAssumption DEF task_new, Cleared, Lists

LEMMA GetNextType ==
    ASSUME NEW q \in Lists, q.current # NULL
    PROVE  task_get_next(q) \in Tasks \cup {NULL}
BY TaskAssumption DEF task_get_next, Lists

(* task_list_remove moves current_task only when it names the removed task. *)
LEMMA RemoveType ==
    ASSUME NEW q \in Lists, NEW t \in Tasks
    PROVE  /\ task_list_remove(q, t) \in Lists
           /\ t # q.current => task_list_remove(q, t).current = q.current
<1> DEFINE u == UnlinkFromPrev(q, t)
           v == [u EXCEPT !.head = IF t = q.head THEN u.next[t] ELSE q.head,
                          !.tail = IF t = q.tail THEN u.prev[t] ELSE q.tail]
<1>1. u \in Lists /\ u.current = q.current
  BY TaskAssumption DEF UnlinkFromPrev, Lists
<1>2. v \in Lists /\ v.current = q.current
  <2> HIDE DEF u
  <2> QED
    BY <1>1 DEF Lists
<1>3. task_list_remove(q, t) =
        IF t = v.current THEN [v EXCEPT !.current = task_get_next(v)] ELSE v
  BY DEF task_list_remove
<1> HIDE DEF v
<1>4. CASE t = v.current
  <2>1. task_get_next(v) \in Tasks \cup {NULL}
    BY <1>2, <1>4, GetNextType, TaskAssumption
  <2> QED
    BY <2>1, <1>2, <1>3, <1>4 DEF Lists
<1>5. CASE t # v.current
  BY <1>2, <1>3, <1>5
<1> QED
  BY <1>4, <1>5

(* The first free slot, and the first taken one, are slots. *)
LEMMA FirstSlot ==
    ASSUME NEW S, S \subseteq Slots, S # {}
    PROVE  Min(S) \in S
<1>1. S \subseteq Nat
  BY KernelAssumption DEF Slots
<1> QED
  BY <1>1, MinElement

-------------------------------------------------------------------------------
(* What the steps have in common. *)

(* The state after task_switch and task_return. *)
LEMMA SwitchEffect ==
    ASSUME KernelTypeOK, mode = "user",
           NEW q \in Lists, NEW regs \in [Tasks -> Regs], NEW t \in Tasks \cup {NULL},
           SwitchTo(q, regs, t)
    PROVE  /\ list' \in Lists
           /\ cpu' \in [regs : Regs, cr3 : Tasks]
           /\ mode' \in {"user", "panic", "wild"}
           /\ mode' = "user" => /\ t \in Tasks
                                /\ list'.current = t
                                /\ cpu'.regs = regs[t] /\ cpu'.cr3 = t
<1>1. CASE t = NULL
  BY <1>1 DEF SwitchTo, KernelTypeOK
<1>2. CASE t # NULL
  <2>1. list' \in Lists /\ list'.current = t
    BY <1>2 DEF SwitchTo, Lists
  <2>2. cpu' = [regs |-> regs[t], cr3 |-> t] /\ mode' = mode
    BY <1>2 DEF SwitchTo, task_return
  <2> QED
    BY <2>1, <2>2, <1>2
<1> QED
  BY <1>1, <1>2

(* What a handler finds when it starts. *)
LEMMA AtEntry ==
    ASSUME KernelInv, Running
    PROVE  /\ mode = "user"
           /\ me \in live /\ me \in Tasks /\ list.current # NULL
           /\ list \in Lists /\ list.head # NULL /\ list.tail # NULL
           /\ cpu.regs = context[me] /\ cpu.cr3 = me
           /\ Saved \in [Tasks -> Regs]
           /\ \A t \in live : Saved[t] = context[t]
<1>1. me \in live /\ me \in Tasks /\ mode = "user" /\ list \in Lists
  BY DEF Running, Intact, me, KernelInv, KernelTypeOK
<1>2. list.current # NULL /\ list.head # NULL /\ list.tail # NULL
  BY TaskAssumption DEF Running, Intact, KernelInv, KernelTypeOK
<1>3. cpu.regs = context[me] /\ cpu.cr3 = me
  BY <1>1 DEF KernelInv, ContextInv, me
<1>4. cpu.regs \in Regs
  BY DEF KernelInv, KernelTypeOK
<1>5. Saved \in [Tasks -> Regs]
  BY <1>4 DEF KernelInv, KernelTypeOK, Saved
<1>6. \A t \in live : Saved[t] = context[t]
  BY <1>1, <1>3 DEF KernelInv, KernelTypeOK, ContextInv, Saved, me
<1> QED
  BY <1>1, <1>2, <1>3, <1>5, <1>6

-------------------------------------------------------------------------------
(* The actions. *)

LEMMA InitKernelInv == Init => KernelInv
<1> SUFFICES ASSUME Init PROVE KernelInv
  OBVIOUS
<1> USE TaskAssumption, KernelAssumption
<1>1. PICK a, b \in Tasks : a # b /\ Booted(a, b)
  BY DEF Init
<1>2. EmptyList \in Lists /\ EmptyList.head = NULL
  BY DEF EmptyList, Lists
<1>3. /\ task_new(EmptyList, a) \in Lists
      /\ task_new(EmptyList, a).head = a
      /\ task_new(EmptyList, a).tail = a
      /\ task_new(EmptyList, a).current = a
  BY <1>2 DEF task_new, Cleared, Lists
<1>4. list \in Lists /\ list.current = a
  BY <1>1, <1>3, TaskNewType DEF Booted
<1>5. processes = [p \in Slots |-> CASE p = 0 -> a [] p = 1 -> b [] OTHER -> NULL]
  BY <1>1 DEF Booted
<1>6. 0 \in Slots /\ 1 \in Slots /\ 0 \in Regs
  BY DEF Slots, Regs
<1>7. /\ processes \in [Slots -> Tasks \cup {NULL}]
      /\ processes[0] = a /\ processes[1] = b
      /\ \A p \in Slots : processes[p] # NULL => p = 0 \/ p = 1
  BY <1>5, <1>6
<1>8. KernelTypeOK
  BY <1>1, <1>4, <1>6, <1>7 DEF Booted, KernelTypeOK
<1>9. TableMatchesTasks
  BY <1>1, <1>6, <1>7 DEF Booted, TableMatchesTasks, TakenSlots
<1>10. FocusInTable
  BY <1>1, <1>7 DEF Booted, FocusInTable
<1>11. ContextInv
  BY <1>1, <1>4 DEF Booted, ContextInv
<1> QED
  BY <1>8, <1>9, <1>10, <1>11 DEF KernelInv

LEMMA WorkKeepsInv ==
    ASSUME KernelInv, Work
    PROVE  KernelInv'
<1> USE AtEntry
<1>1. PICK r \in Regs : cpu' = [cpu EXCEPT !.regs = r] /\ context' = [context EXCEPT ![me] = r]
  BY DEF Work
<1>2. UNCHANGED <<list, live, registers, process, processes, focus, mode>>
  BY DEF Work
<1>3. KernelTypeOK'
  BY <1>1, <1>2 DEF KernelInv, KernelTypeOK
<1>4. TableMatchesTasks' /\ FocusInTable'
  BY <1>2 DEF KernelInv, TableMatchesTasks, FocusInTable, TakenSlots
<1>5. ContextInv'
  BY <1>1, <1>2 DEF Work, KernelInv, KernelTypeOK, ContextInv, me
<1> QED
  BY <1>3, <1>4, <1>5 DEF KernelInv

LEMMA ClockKeepsInv ==
    ASSUME KernelInv, Clock
    PROVE  KernelInv'
<1> DEFINE n == task_get_next(list)
<1>1. Running /\ UNCHANGED <<live, process, processes, focus, context>> /\ registers' = Saved
  BY DEF Clock
<1>2. n \in Tasks \cup {NULL}
  BY <1>1, AtEntry, GetNextType
<1>3. SwitchTo(list, Saved, n)
  BY DEF Clock
<1> HIDE DEF n
<1>4. /\ list' \in Lists
      /\ cpu' \in [regs : Regs, cr3 : Tasks]
      /\ mode' \in {"user", "panic", "wild"}
      /\ mode' = "user" => /\ n \in Tasks /\ list'.current = n
                           /\ cpu'.regs = Saved[n] /\ cpu'.cr3 = n
  BY <1>1, <1>2, <1>3, AtEntry, SwitchEffect DEF KernelInv
<1>5. KernelTypeOK'
  BY <1>1, <1>4, AtEntry DEF KernelInv, KernelTypeOK
<1>6. TableMatchesTasks' /\ FocusInTable'
  BY <1>1, AtEntry DEF KernelInv, TableMatchesTasks, FocusInTable, TakenSlots
<1>7. ContextInv'
  BY <1>1, <1>4, AtEntry DEF ContextInv
<1> QED
  BY <1>5, <1>6, <1>7 DEF KernelInv

(* A handler that returns through its frame with current_task unchanged. *)
LEMMA ReturnKeepsInv ==
    ASSUME KernelInv, Running, registers' \in {Saved, registers}, ReturnToCaller,
           UNCHANGED <<list, live, process, processes, focus, context>>
    PROVE  KernelInv'
<1>1. cpu' = [cpu EXCEPT !.cr3 = me] /\ mode' = mode
  BY DEF ReturnToCaller, me
<1>2. KernelTypeOK'
  BY <1>1, AtEntry DEF KernelInv, KernelTypeOK
<1>3. TableMatchesTasks' /\ FocusInTable'
  BY <1>1 DEF KernelInv, TableMatchesTasks, FocusInTable, TakenSlots
<1>4. cpu'.regs = cpu.regs /\ cpu'.cr3 = me
  BY <1>1 DEF KernelInv, KernelTypeOK
<1>5. \A t \in live \ {list.current} : registers'[t] = context[t]
  BY AtEntry DEF KernelInv, ContextInv, me
<1>6. ContextInv'
  BY <1>1, <1>4, <1>5, AtEntry DEF ContextInv, me
<1> QED
  BY <1>2, <1>3, <1>6 DEF KernelInv

(* Exit and exception: the running process leaves the table, the focus     *)
(* moves to a process that is still there, and the task that is run next   *)
(* is not the one that was freed.                                          *)
LEMMA TerminateKeepsInv ==
    ASSUME KernelInv, Running, TerminateCurrent
    PROVE  KernelInv'
<1> DEFINE p == process[me]
           q == task_list_remove(list, me)
<1>1. p \in Slots /\ processes[p] = me
  BY AtEntry DEF KernelInv, KernelTypeOK, TableMatchesTasks
<1>2. /\ registers' = Saved
      /\ processes' = [processes EXCEPT ![p] = NULL]
      /\ UNCHANGED <<process, context>>
  BY DEF TerminateCurrent
<1>3. processes' \in [Slots -> Tasks \cup {NULL}]
  BY <1>2 DEF KernelInv, KernelTypeOK
<1>4. q \in Lists
  BY AtEntry, RemoveType
<1>5. CASE focus = p /\ TakenSlots(processes) = {p}
  <2>1. mode' = "panic" /\ UNCHANGED <<list, live, focus, cpu>>
    BY <1>5 DEF TerminateCurrent
  <2> QED
    BY <2>1, <1>2, <1>3, AtEntry
       DEF KernelInv, KernelTypeOK, TableMatchesTasks, FocusInTable, ContextInv
<1>6. CASE ~(focus = p /\ TakenSlots(processes) = {p})
  <2>1. /\ focus' = FocusWithout(p)
        /\ live' = live \ {me}
        /\ IF q.current = NULL
           THEN mode' = "wild" /\ list' = q /\ UNCHANGED cpu
           ELSE SwitchTo(q, Saved, task_get_next(q))
    BY <1>1, <1>6 DEF TerminateCurrent
  <2>2. focus' \in Slots /\ processes'[focus'] # NULL
    <3>1. CASE focus = p
      <4>1. TakenSlots(processes') \subseteq Slots /\ TakenSlots(processes') # {}
        <5>1. p \in TakenSlots(processes)
          BY <1>1, AtEntry, TaskAssumption DEF TakenSlots
        <5>2. PICK s \in TakenSlots(processes) : s # p
          BY <5>1, <1>6, <3>1
        <5>3. s \in TakenSlots(processes')
          BY <5>2, <1>2 DEF TakenSlots, KernelInv, KernelTypeOK
        <5> QED
          BY <5>3 DEF TakenSlots
      <4>2. focus' = Min(TakenSlots(processes'))
        BY <1>2, <2>1, <3>1 DEF FocusWithout, AnyOf
      <4>3. focus' \in TakenSlots(processes')
        BY <4>1, <4>2, FirstSlot
      <4> QED
        BY <4>3 DEF TakenSlots
    <3>2. CASE focus # p
      BY <1>1, <1>2, <2>1, <3>2, AtEntry DEF FocusWithout, KernelInv, KernelTypeOK, FocusInTable
    <3> QED
      BY <3>1, <3>2
  <2>3. /\ list' \in Lists
        /\ cpu' \in [regs : Regs, cr3 : Tasks]
        /\ mode' \in {"user", "panic", "wild"}
        /\ mode' = "user" => /\ list'.current \in Tasks
                             /\ cpu'.regs = Saved[list'.current]
                             /\ cpu'.cr3 = list'.current
    <3>1. CASE q.current = NULL
      BY <1>4, <2>1, <3>1 DEF KernelInv, KernelTypeOK
    <3>2. CASE q.current # NULL
      <4>1. task_get_next(q) \in Tasks \cup {NULL}
        BY <1>4, <3>2, GetNextType
      <4>2. SwitchTo(q, Saved, task_get_next(q))
        BY <2>1, <3>2
      <4> HIDE DEF q
      <4> QED
        BY <4>1, <4>2, <1>4, AtEntry, SwitchEffect DEF KernelInv
    <3> QED
      BY <3>1, <3>2
  <2>4. KernelTypeOK'
    BY <1>2, <1>3, <2>1, <2>2, <2>3, AtEntry DEF KernelInv, KernelTypeOK
  <2>5. TableMatchesTasks'
    <3>1. ASSUME NEW s \in TakenSlots(processes')
          PROVE  processes'[s] \in live' /\ process'[processes'[s]] = s
      <4>1. s \in Slots /\ s # p /\ processes'[s] = processes[s] /\ processes[s] # NULL
        BY <1>1, <1>2, <3>1 DEF TakenSlots, KernelInv, KernelTypeOK
      <4>2. processes[s] \in live /\ process[processes[s]] = s
        BY <4>1, AtEntry DEF KernelInv, TableMatchesTasks, TakenSlots
      <4> QED
        BY <4>1, <4>2, <1>2, <2>1
    <3>2. ASSUME NEW t \in live'
          PROVE  processes'[process'[t]] = t
      <4>1. t \in live /\ t # me /\ processes[process[t]] = t /\ process[t] \in Slots
        BY <2>1, <3>2, AtEntry DEF KernelInv, KernelTypeOK, TableMatchesTasks
      <4>2. process[t] # p
        BY <4>1, <1>1
      <4> QED
        BY <4>1, <4>2, <1>2 DEF KernelInv, KernelTypeOK
    <3> QED
      BY <3>1, <3>2 DEF TableMatchesTasks
  <2>6. FocusInTable'
    BY <2>2 DEF FocusInTable
  <2>7. ContextInv'
    BY <1>2, <2>1, <2>3, AtEntry DEF ContextInv
  <2> QED
    BY <2>4, <2>5, <2>6, <2>7 DEF KernelInv
<1> QED
  BY <1>5, <1>6

(* A load that succeeds, whichever task runs afterwards: the new task t    *)
(* gets a free slot and starts with cleared registers.                     *)
LEMMA LoadedEffect ==
    ASSUME KernelInv, Running, NEW t \in Tasks \ live, Loaded(t)
    PROVE  /\ live' = live \cup {t}
           /\ registers' = [Saved EXCEPT ![t] = 0]
           /\ registers' \in [Tasks -> Regs] /\ context' \in [Tasks -> Regs]
           /\ \A u \in live' : registers'[u] = context'[u]
           /\ context'[me] = context[me]
           /\ process' \in [Tasks -> Slots]
           /\ processes' \in [Slots -> Tasks \cup {NULL}]
           /\ focus' \in Slots
           /\ TableMatchesTasks' /\ FocusInTable'
<1> DEFINE slot == Min(Slots \ TakenSlots(processes))
<1>1. slot \in Slots /\ slot \notin TakenSlots(processes)
  BY FirstSlot DEF Loaded, TakenSlots
<1> HIDE DEF slot
<1>2. /\ live' = live \cup {t}
      /\ process' = [process EXCEPT ![t] = slot]
      /\ processes' = [processes EXCEPT ![slot] = t]
      /\ focus' = slot
      /\ registers' = [Saved EXCEPT ![t] = 0]
      /\ context' = [context EXCEPT ![t] = 0]
  BY DEF Loaded, slot
<1>3. 0 \in Regs
  BY KernelAssumption DEF Regs
<1>4. /\ registers' \in [Tasks -> Regs] /\ context' \in [Tasks -> Regs]
      /\ process' \in [Tasks -> Slots]
      /\ processes' \in [Slots -> Tasks \cup {NULL}]
  BY <1>1, <1>2, <1>3, AtEntry DEF KernelInv, KernelTypeOK
<1>5. \A u \in live' : registers'[u] = context'[u]
  BY <1>2, AtEntry DEF KernelInv, KernelTypeOK
<1>6. context'[me] = context[me]
  BY <1>2, AtEntry DEF KernelInv, KernelTypeOK
<1>7. processes'[slot] = t /\ \A s \in Slots \ {slot} : processes'[s] = processes[s]
  BY <1>1, <1>2 DEF KernelInv, KernelTypeOK
<1>8. process'[t] = slot /\ \A u \in Tasks \ {t} : process'[u] = process[u]
  BY <1>2 DEF KernelInv, KernelTypeOK
<1>9. FocusInTable'
  BY <1>2, <1>7, TaskAssumption DEF FocusInTable
<1>10. TableMatchesTasks'
  <2>1. ASSUME NEW s \in TakenSlots(processes')
        PROVE  processes'[s] \in live' /\ process'[processes'[s]] = s
    <3>1. CASE s = slot
      BY <3>1, <1>2, <1>7, <1>8
    <3>2. CASE s # slot
      <4>1. s \in TakenSlots(processes) /\ processes'[s] = processes[s]
        BY <3>2, <2>1, <1>7 DEF TakenSlots
      <4>2. processes[s] \in live /\ process[processes[s]] = s
        BY <4>1, AtEntry DEF KernelInv, TableMatchesTasks
      <4> QED
        BY <4>1, <4>2, <1>2, <1>8 DEF KernelInv, KernelTypeOK
    <3> QED
      BY <3>1, <3>2
  <2>2. ASSUME NEW u \in live'
        PROVE  processes'[process'[u]] = u
    <3>1. CASE u = t
      BY <3>1, <1>7, <1>8
    <3>2. CASE u # t
      <4>1. u \in live /\ u \in Tasks /\ processes[process[u]] = u /\ process[u] \in Slots
        BY <3>2, <2>2, <1>2, AtEntry DEF KernelInv, KernelTypeOK, TableMatchesTasks
      <4>2. process[u] # slot
        BY <4>1, <1>1, TaskAssumption DEF TakenSlots
      <4> QED
        BY <4>1, <4>2, <3>2, <1>7, <1>8
    <3> QED
      BY <3>1, <3>2
  <2> QED
    BY <2>1, <2>2 DEF TableMatchesTasks
<1> QED
  BY <1>1, <1>2, <1>4, <1>5, <1>6, <1>9, <1>10

LEMMA LoadKeepsInv ==
    ASSUME KernelInv, Load
    PROVE  KernelInv'
<1>1. PICK t \in Tasks \ live :
            Loaded(t) /\ SwitchTo(task_new(list, t), [Saved EXCEPT ![t] = 0], t)
  BY DEF Load
<1> DEFINE q == task_new(list, t)
           regs == [Saved EXCEPT ![t] = 0]
<1>2. Running
  BY DEF Load
<1>3. q \in Lists
  BY <1>2, AtEntry, TaskNewType
<1>4. /\ registers' = regs /\ regs \in [Tasks -> Regs]
      /\ live' = live \cup {t} /\ context' \in [Tasks -> Regs]
      /\ \A u \in live' : registers'[u] = context'[u]
      /\ process' \in [Tasks -> Slots]
      /\ processes' \in [Slots -> Tasks \cup {NULL}]
      /\ focus' \in Slots
      /\ TableMatchesTasks' /\ FocusInTable'
  BY <1>1, <1>2, LoadedEffect
<1>5. SwitchTo(q, regs, t)
  BY <1>1
<1> HIDE DEF q, regs
<1>6. /\ list' \in Lists
      /\ cpu' \in [regs : Regs, cr3 : Tasks]
      /\ mode' \in {"user", "panic", "wild"}
      /\ mode' = "user" => /\ list'.current = t
                           /\ cpu'.regs = regs[t] /\ cpu'.cr3 = t
  BY <1>2, <1>3, <1>4, <1>5, AtEntry, SwitchEffect DEF KernelInv
<1>7. KernelTypeOK'
  BY <1>4, <1>6 DEF KernelInv, KernelTypeOK
<1>8. ContextInv'
  BY <1>4, <1>6 DEF ContextInv
<1> QED
  BY <1>4, <1>7, <1>8 DEF KernelInv

LEMMA LoadFailsToInjectKeepsInv ==
    ASSUME KernelInv, LoadFailsToInject
    PROVE  KernelInv'
<1>1. PICK t \in Tasks \ live :
            Loaded(t) /\ list' = task_new(list, t) /\ ReturnToCaller
  BY DEF LoadFailsToInject
<1>2. Running
  BY DEF LoadFailsToInject
<1>3. list' \in Lists /\ list'.current = me
  BY <1>1, <1>2, AtEntry, TaskNewType DEF me
<1>4. /\ cpu' \in [regs : Regs, cr3 : Tasks]
      /\ cpu'.regs = context[me] /\ cpu'.cr3 = me /\ mode' = mode
  BY <1>1, <1>2, <1>3, AtEntry DEF ReturnToCaller, KernelInv, KernelTypeOK
<1>5. /\ live' = live \cup {t}
      /\ registers' \in [Tasks -> Regs] /\ context' \in [Tasks -> Regs]
      /\ \A u \in live' : registers'[u] = context'[u]
      /\ context'[me] = context[me]
      /\ process' \in [Tasks -> Slots]
      /\ processes' \in [Slots -> Tasks \cup {NULL}]
      /\ focus' \in Slots
      /\ TableMatchesTasks' /\ FocusInTable'
  BY <1>1, <1>2, LoadedEffect
<1>6. KernelTypeOK'
  BY <1>3, <1>4, <1>5 DEF KernelInv, KernelTypeOK
<1>7. ContextInv'
  BY <1>3, <1>4, <1>5 DEF ContextInv
<1> QED
  BY <1>5, <1>6, <1>7 DEF KernelInv

LEMMA LoadFailsToMapKeepsInv ==
    ASSUME KernelInv, LoadFailsToMap
    PROVE  KernelInv'
<1> DEFINE slot == Min(Slots \ TakenSlots(processes))
<1>1. PICK t \in Tasks \ live :
          /\ list' = task_list_remove(task_new(list, t), t)
          /\ process' = [process EXCEPT ![t] = slot]
          /\ context' = [context EXCEPT ![t] = 0]
          /\ registers' = [Saved EXCEPT ![t] = 0]
  BY DEF LoadFailsToMap
<1>2. Running /\ ReturnToCaller /\ UNCHANGED <<live, processes, focus>>
  BY DEF LoadFailsToMap
<1>3. slot \in Slots
  BY FirstSlot DEF LoadFailsToMap, TakenSlots
<1> HIDE DEF slot
<1>4. list' \in Lists /\ list'.current = me
  <2>1. task_new(list, t) \in Lists /\ task_new(list, t).current = me
    BY <1>2, AtEntry, TaskNewType DEF me
  <2>2. t # me
    BY <1>2, AtEntry
  <2> QED
    BY <2>1, <2>2, <1>1, RemoveType
<1>5. /\ cpu' \in [regs : Regs, cr3 : Tasks]
      /\ cpu'.regs = context[me] /\ cpu'.cr3 = me /\ mode' = mode
  BY <1>2, <1>4, AtEntry DEF ReturnToCaller, KernelInv, KernelTypeOK
<1>6. 0 \in Regs
  BY KernelAssumption DEF Regs
<1>7. KernelTypeOK'
  BY <1>1, <1>2, <1>3, <1>4, <1>5, <1>6, AtEntry DEF KernelInv, KernelTypeOK
<1>8. \A u \in live : u \in Tasks /\ process'[u] = process[u]
                      /\ registers'[u] = context[u] /\ context'[u] = context[u]
  BY <1>1, <1>2, AtEntry DEF KernelInv, KernelTypeOK
<1>9. TableMatchesTasks' /\ FocusInTable'
  BY <1>2, <1>5, <1>8 DEF KernelInv, TableMatchesTasks, FocusInTable, TakenSlots
<1>10. ContextInv'
  BY <1>2, <1>4, <1>5, <1>8, AtEntry DEF ContextInv
<1> QED
  BY <1>7, <1>9, <1>10 DEF KernelInv

-------------------------------------------------------------------------------
(* The theorems. *)

(* KernelInv is an invariant, whatever tasks do and whenever the clock     *)
(* interrupts them.                                                        *)
THEOREM KernelInvariant == Spec => []KernelInv
<1>1. KernelInv /\ [Next]_kernelVars => KernelInv'
  <2> SUFFICES ASSUME KernelInv, [Next]_kernelVars
               PROVE  KernelInv'
    OBVIOUS
  <2>1. CASE UNCHANGED kernelVars
    BY <2>1 DEF kernelVars, KernelInv, KernelTypeOK, TableMatchesTasks, FocusInTable,
                ContextInv, TakenSlots
  <2>2. CASE Work
    BY <2>2, WorkKeepsInv
  <2>3. CASE Clock
    BY <2>3, ClockKeepsInv
  <2>4. CASE Interrupt \/ Syscall
    BY <2>4, ReturnKeepsInv DEF Interrupt, Syscall
  <2>5. CASE Exception \/ Exit
    BY <2>5, TerminateKeepsInv DEF Exception, Exit
  <2>6. CASE DivideError \/ OpenFails
    <3>1. mode' = "wild" /\ registers' \in [Tasks -> Regs]
      BY <2>6, AtEntry DEF DivideError, OpenFails, KernelInv, KernelTypeOK
    <3>2. UNCHANGED <<list, live, process, processes, focus, cpu, context>>
      BY <2>6 DEF DivideError, OpenFails
    <3> QED
      BY <3>1, <3>2 DEF KernelInv, KernelTypeOK, TableMatchesTasks, FocusInTable, ContextInv
  <2>7. CASE LoadFails
    BY <2>7, ReturnKeepsInv DEF LoadFails
  <2>8. CASE LoadFailsToMap
    BY <2>8, LoadFailsToMapKeepsInv
  <2>9. CASE Load
    BY <2>9, LoadKeepsInv
  <2>10. CASE LoadFailsToInject
    BY <2>10, LoadFailsToInjectKeepsInv
  <2> QED
    BY <2>1, <2>2, <2>3, <2>4, <2>5, <2>6, <2>7, <2>8, <2>9, <2>10 DEF Next
<1> QED
  BY <1>1, InitKernelInv, PTL DEF Spec

(* The scheduler's state keeps its types. *)
THEOREM KernelTypeCorrect == Spec => []KernelTypeOK
BY KernelInvariant, PTL DEF KernelInv

(* A task always runs with the registers it was interrupted with and under *)
(* its own page directory (task_save_state, task_return, task_page).       *)
THEOREM ContextsRestored == Spec => []ContextRestored
<1>1. KernelInv => ContextRestored
  BY AtEntry DEF ContextRestored, me
<1> QED
  BY <1>1, KernelInvariant, PTL

(* The keyboard's focus is always a process in the table (process_unlink,  *)
(* process_switch_to_any, process_load_switch).                            *)
THEOREM FocusSound == Spec => []FocusInTable
BY KernelInvariant, PTL DEF KernelInv

(* The table and the allocated tasks agree (process_unlink, task_free,     *)
(* process_load_for_slot).                                                 *)
THEOREM TableSound == Spec => []TableMatchesTasks
BY KernelInvariant, PTL DEF KernelInv

-------------------------------------------------------------------------------
(* Panic. *)

(* A terminated task is followed by one that is not null, unless           *)
(* current_task has become null.                                           *)
LEMMA NextAfterRemove ==
    ASSUME NEW q \in Lists, q.current # NULL, q.head # NULL,
           task_list_remove(q, q.current).current # NULL
    PROVE  task_get_next(task_list_remove(q, q.current)) # NULL
<1> DEFINE t == q.current
           u == UnlinkFromPrev(q, t)
           v == [u EXCEPT !.head = IF t = q.head THEN u.next[t] ELSE q.head,
                          !.tail = IF t = q.tail THEN u.prev[t] ELSE q.tail]
           r == [v EXCEPT !.current = task_get_next(v)]
<1>1. t \in Tasks
  BY DEF Lists
<1>2. u \in Lists /\ u.current = t
  BY <1>1, TaskAssumption DEF UnlinkFromPrev, Lists
<1> HIDE DEF u
<1>3. /\ v \in Lists /\ v.current = t /\ v.next = u.next
      /\ v.head = IF t = q.head THEN u.next[t] ELSE q.head
  BY <1>1, <1>2 DEF Lists
<1>4. task_list_remove(q, t) = r
  BY <1>3 DEF task_list_remove, u
<1> HIDE DEF v
<1>5. r.current = task_get_next(v) /\ r.head = v.head /\ r.next = v.next
  BY <1>3 DEF Lists
<1>6. task_get_next(v) # NULL
  BY <1>4, <1>5
<1>7. v.head # NULL
  BY <1>3, <1>6 DEF task_get_next
<1> HIDE DEF r
<1> QED
  BY <1>4, <1>5, <1>7 DEF task_get_next

(* No step but the termination of the last process panics. *)
LEMMA PanicStep ==
    ASSUME KernelInv, PanicsOnlyWhenEmpty, [Next]_kernelVars
    PROVE  PanicsOnlyWhenEmpty'
<1> SUFFICES ASSUME mode' = "panic" PROVE TakenSlots(processes') = {}
  BY DEF PanicsOnlyWhenEmpty
<1>1. CASE UNCHANGED kernelVars
  BY <1>1 DEF kernelVars, PanicsOnlyWhenEmpty
<1>2. CASE Clock
  <2>1. Running /\ SwitchTo(list, Saved, task_get_next(list))
    BY <1>2 DEF Clock
  <2>2. task_get_next(list) # NULL
    BY <2>1, AtEntry DEF task_get_next
  <2>3. mode' = mode
    BY <2>1, <2>2 DEF SwitchTo
  <2> QED
    BY <2>1, <2>3, AtEntry
<1>3. CASE Exception \/ Exit
  <2>1. Running /\ TerminateCurrent
    BY <1>3 DEF Exception, Exit
  <2> DEFINE p == process[me]
             q == task_list_remove(list, me)
  <2>2. p \in Slots /\ processes[p] = me
    BY <2>1, AtEntry DEF KernelInv, KernelTypeOK, TableMatchesTasks
  <2>3. processes' = [processes EXCEPT ![p] = NULL]
    BY <2>1 DEF TerminateCurrent
  <2>4. CASE focus = p /\ TakenSlots(processes) = {p}
    <3>1. ASSUME NEW s \in TakenSlots(processes') PROVE FALSE
      <4>1. s \in Slots /\ s # p /\ processes[s] # NULL
        BY <2>2, <2>3, <3>1 DEF TakenSlots, KernelInv, KernelTypeOK
      <4> QED
        BY <2>4, <4>1 DEF TakenSlots
    <3> QED
      BY <3>1
  <2>5. CASE ~(focus = p /\ TakenSlots(processes) = {p})
    <3>1. IF q.current = NULL
          THEN mode' = "wild" /\ list' = q /\ UNCHANGED cpu
          ELSE SwitchTo(q, Saved, task_get_next(q))
      BY <2>1, <2>2, <2>5 DEF TerminateCurrent
    <3>2. q.current # NULL /\ SwitchTo(q, Saved, task_get_next(q))
      BY <3>1
    <3>3. task_get_next(q) # NULL
      BY <2>1, <3>2, AtEntry, NextAfterRemove DEF me
    <3>4. mode' = mode
      BY <3>2, <3>3 DEF SwitchTo
    <3> QED
      BY <2>1, <3>4, AtEntry
  <2> QED
    BY <2>4, <2>5
<1>4. CASE Work \/ Interrupt \/ Syscall \/ LoadFails \/ LoadFailsToMap \/ LoadFailsToInject
  <2>1. Running /\ mode' = mode
    BY <1>4 DEF Work, Interrupt, Syscall, LoadFails, LoadFailsToMap, LoadFailsToInject,
                ReturnToCaller
  <2> QED
    BY <2>1, AtEntry
<1>5. CASE DivideError \/ OpenFails
  BY <1>5 DEF DivideError, OpenFails
<1>6. CASE Load
  <2>1. Running
    BY <1>6 DEF Load
  <2>2. mode' = mode
    BY <1>6, TaskAssumption DEF Load, SwitchTo
  <2> QED
    BY <2>1, <2>2, AtEntry
<1> QED
  BY <1>1, <1>2, <1>3, <1>4, <1>5, <1>6 DEF Next

(* The kernel panics only when the last process is gone, for any number of *)
(* processes (process_switch_to_any, task_next).                           *)
THEOREM PanicsSound == Spec => []PanicsOnlyWhenEmpty
<1>1. Init => PanicsOnlyWhenEmpty
  BY DEF Init, Booted, PanicsOnlyWhenEmpty
<1>2. KernelInv /\ PanicsOnlyWhenEmpty /\ [Next]_kernelVars => PanicsOnlyWhenEmpty'
  BY PanicStep
<1> QED
  BY <1>1, <1>2, KernelInvariant, PTL DEF Spec

-------------------------------------------------------------------------------
(* The list, as long as there are at most two processes. *)

(* The next field of the only task may point to the task itself: that is   *)
(* what task_list_remove leaves when the prev field of the head still      *)
(* names the struct that was reused for the tail.                          *)
OneTask(q, a) == q.head = a /\ q.tail = a /\ q.next[a] \in {NULL, a}

TwoTasks(q, a, b) ==
    /\ a # b /\ q.head = a /\ q.tail = b
    /\ q.next[a] = b /\ q.next[b] = NULL /\ q.prev[b] = a

(* Nothing is said of the prev field of the head. *)
Queue(q, tasks) ==
    \/ \E a \in Tasks : tasks = {a} /\ OneTask(q, a)
    \/ \E a, b \in Tasks : tasks = {a, b} /\ TwoTasks(q, a, b)

QueueInv == mode = "user" => list.current \in live /\ Queue(list, live)

(* No more than two processes are loaded at a time. *)
AtMostTwo == mode = "user" => \E a, b \in Tasks : live \subseteq {a, b}

(* The successor of a task in such a list is one of its tasks. *)
LEMMA QueueNext ==
    ASSUME NEW q \in Lists, NEW tasks, Queue(q, tasks), q.current \in tasks
    PROVE  task_get_next(q) \in tasks /\ tasks \subseteq Tasks
BY TaskAssumption DEF Queue, OneTask, TwoTasks, task_get_next

(* A scheduler that starts at the head comes across the tasks of such a    *)
(* list and no others.                                                     *)
LEMMA QueueReached ==
    ASSUME NEW q \in Lists, NEW tasks, Queue(q, tasks)
    PROVE  RunQueue(q) = tasks /\ q.tail \in tasks
<1> DEFINE N == Cardinality(Tasks)
           Sets == SUBSET Tasks
           base == {q.head} \ {NULL}
           After(s) == s \cup ({q.next[t] : t \in s} \ {NULL})
           Body(g) == [n \in 0 .. N |-> IF n = 0 THEN base ELSE After(g[n - 1])]
           f == CHOOSE g : g = Body(g)
           step == [x \in Sets \X (1 .. N) |-> After(x[1])]
<1>1. N \in Nat /\ N >= 2
  BY KernelAssumption, FS_CardinalityType
<1> HIDE DEF N
<1>2. base \in Sets
  BY DEF Lists
<1>3. \A s \in Sets : After(s) \in Sets
  BY DEF Lists
<1>4. step \in [Sets \X (1 .. N) -> Sets]
  <2> HIDE DEF After, Sets
  <2> QED
    BY <1>3
<1>5. \A s \in Sets, n \in 1 .. N : step[<<s, n>>] = After(s)
  <2> HIDE DEF After, Sets
  <2> QED
    OBVIOUS
<1> HIDE DEF step, base, Sets, After
<1>6. PICK g : LoopValues(g, N, Sets, base, step)
  BY <1>1, <1>2, <1>4, LoopHasValues, Zenon
<1>7. ASSUME NEW n \in 0 .. N
      PROVE  g[n] = Body(g)[n]
  <2>1. CASE n = 0
    BY <1>6, <2>1 DEF LoopValues
  <2>2. CASE n # 0
    <3>1. n \in 1 .. N /\ n - 1 \in 0 .. N
      BY <1>1, <2>2
    <3>2. g[n] = step[<<g[n - 1], n>>] /\ g[n - 1] \in Sets
      BY <1>6, <3>1 DEF LoopValues
    <3> QED
      BY <1>5, <2>2, <3>1, <3>2
  <2> QED
    BY <2>1, <2>2
<1>8. g = Body(g)
  BY <1>6, <1>7 DEF LoopValues
<1>9. f = Body(f)
  BY <1>8
<1>10. RunQueue(q) = f[N]
  BY DEF RunQueue, N, base, After
<1> HIDE DEF f
<1>11. f[0] = base /\ \A n \in 1 .. N : f[n] = After(f[n - 1])
  BY <1>1, <1>9
<1>12. CASE \E a \in Tasks : tasks = {a} /\ OneTask(q, a)
  <2>1. PICK a \in Tasks : tasks = {a} /\ OneTask(q, a)
    BY <1>12
  <2>2. base = {a} /\ After({a}) = {a}
    BY <2>1, TaskAssumption DEF OneTask, base, After
  <2> DEFINE S == {n \in 0 .. N : f[n] = {a}}
  <2>3. 0 \in S
    BY <1>1, <1>11, <2>2
  <2>4. ASSUME NEW n \in S \cap (0 .. N - 1) PROVE n + 1 \in S
    <3>1. n + 1 \in 1 .. N /\ n + 1 - 1 = n /\ f[n] = {a}
      BY <1>1
    <3>2. f[n + 1] = {a}
      BY <1>11, <2>2, <3>1
    <3> QED
      BY <3>1, <3>2
  <2>5. 0 .. N \subseteq S
    <3> HIDE DEF S
    <3> QED
      BY <1>1, <2>3, <2>4, Induction
  <2>6. f[N] = {a}
    BY <1>1, <2>5
  <2> QED
    BY <1>10, <2>1, <2>6 DEF OneTask
<1>13. CASE \E a, b \in Tasks : tasks = {a, b} /\ TwoTasks(q, a, b)
  <2>1. PICK a, b \in Tasks : tasks = {a, b} /\ TwoTasks(q, a, b)
    BY <1>13
  <2>2. base = {a} /\ After({a}) = {a, b} /\ After({a, b}) = {a, b}
    BY <2>1, TaskAssumption DEF TwoTasks, base, After
  <2> DEFINE S == {n \in 0 .. N : n > 0 => f[n] = {a, b}}
  <2>3. 0 \in S
    BY <1>1
  <2>4. ASSUME NEW n \in S \cap (0 .. N - 1) PROVE n + 1 \in S
    <3>1. n + 1 \in 1 .. N /\ n + 1 - 1 = n /\ (n > 0 => f[n] = {a, b})
      BY <1>1
    <3>2. f[n + 1] = After(f[n])
      BY <1>11, <3>1
    <3>3. f[n] = {a} \/ f[n] = {a, b}
      BY <1>11, <2>2, <3>1
    <3>4. f[n + 1] = {a, b}
      BY <2>2, <3>2, <3>3
    <3> QED
      BY <3>1, <3>4
  <2>5. 0 .. N \subseteq S
    <3> HIDE DEF S
    <3> QED
      BY <1>1, <2>3, <2>4, Induction
  <2>6. f[N] = {a, b}
    BY <1>1, <2>5
  <2> QED
    BY <1>10, <2>1, <2>6 DEF TwoTasks
<1> QED
  BY <1>12, <1>13 DEF Queue

(* task_new links the second task behind the first. *)
LEMMA NewBehindOne ==
    ASSUME NEW q \in Lists, NEW a \in Tasks, NEW t \in Tasks, a # t, OneTask(q, a)
    PROVE  TwoTasks(task_new(q, t), a, t)
BY TaskAssumption DEF OneTask, TwoTasks, task_new, Cleared, Lists

(* What task_new does to a list that has a head. *)
LEMMA NewAtTail ==
    ASSUME NEW q \in Lists, NEW t \in Tasks, q.head # NULL, q.tail \in Tasks, q.tail # t,
           q.head # t
    PROVE  LET r == task_new(q, t)
           IN  /\ r \in Lists /\ r.head = q.head /\ r.tail = t /\ r.current = q.current
               /\ r.next = [q.next EXCEPT ![t] = NULL, ![q.tail] = t]
               /\ r.prev = [q.prev EXCEPT ![t] = q.tail]
BY TaskAssumption DEF task_new, Cleared, Lists

(* Linking a task and unlinking it again. *)
LEMMA NewAndRemove ==
    ASSUME NEW q \in Lists, NEW tasks, Queue(q, tasks), q.current \in tasks,
           NEW t \in Tasks \ tasks
    PROVE  /\ Queue(task_list_remove(task_new(q, t), t), tasks)
           /\ task_list_remove(task_new(q, t), t).current = q.current
<1> DEFINE r == task_new(q, t)
           u == UnlinkFromPrev(r, t)
           v == [u EXCEPT !.head = IF t = r.head THEN u.next[t] ELSE r.head,
                          !.tail = IF t = r.tail THEN u.prev[t] ELSE r.tail]
<1>1. q.head # NULL /\ q.tail \in tasks /\ q.head \in tasks /\ tasks \subseteq Tasks
  BY TaskAssumption DEF Queue, OneTask, TwoTasks
<1>2. /\ r \in Lists /\ r.head = q.head /\ r.tail = t /\ r.current = q.current
      /\ r.next = [q.next EXCEPT ![t] = NULL, ![q.tail] = t]
      /\ r.prev = [q.prev EXCEPT ![t] = q.tail]
  BY <1>1, NewAtTail
<1> HIDE DEF r
<1>3. q.next \in [Tasks -> Tasks \cup {NULL}] /\ q.prev \in [Tasks -> Tasks \cup {NULL}]
  BY DEF Lists
<1>4. r.prev[t] = q.tail /\ r.next[t] = NULL /\ q.tail # t /\ q.tail # NULL
  BY <1>1, <1>2, <1>3, TaskAssumption
<1>5. u = [r EXCEPT !.next[q.tail] = NULL]
  BY <1>4 DEF UnlinkFromPrev
<1>6. /\ u \in Lists /\ u.head = q.head /\ u.tail = t /\ u.current = q.current
      /\ u.next = [r.next EXCEPT ![q.tail] = NULL] /\ u.prev = r.prev
  BY <1>1, <1>2, <1>5 DEF Lists
<1> HIDE DEF u
<1>7. /\ v \in Lists /\ v.head = q.head /\ v.tail = q.tail /\ v.current = q.current
      /\ v.next = u.next /\ v.prev = u.prev
  <2>1. (IF t = r.head THEN u.next[t] ELSE r.head) = q.head
    BY <1>1, <1>2
  <2>2. (IF t = r.tail THEN u.prev[t] ELSE r.tail) = q.tail
    BY <1>2, <1>4, <1>6
  <2>3. v = [u EXCEPT !.head = q.head, !.tail = q.tail]
    BY <2>1, <2>2, Zenon
  <2>4. q.head \in Tasks \cup {NULL} /\ q.tail \in Tasks \cup {NULL}
    BY DEF Lists
  <2> HIDE DEF v
  <2> QED
    BY <1>6, <2>3, <2>4 DEF Lists
<1>8. task_list_remove(r, t) = v
  <2>1. task_list_remove(r, t) =
          IF t = v.current THEN [v EXCEPT !.current = task_get_next(v)] ELSE v
    BY DEF task_list_remove, u
  <2> HIDE DEF v
  <2> QED
    BY <1>7, <2>1
<1> HIDE DEF v
<1>9. \A x \in tasks : /\ v.next[x] = IF x = q.tail THEN NULL ELSE q.next[x]
                       /\ v.prev[x] = q.prev[x]
  BY <1>1, <1>2, <1>3, <1>6, <1>7
<1>10. Queue(v, tasks)
  <2>1. CASE \E a \in Tasks : tasks = {a} /\ OneTask(q, a)
    <3>1. PICK a \in Tasks : tasks = {a} /\ OneTask(q, a)
      BY <2>1
    <3>2. OneTask(v, a)
      BY <1>7, <1>9, <3>1 DEF OneTask
    <3> QED
      BY <3>1, <3>2 DEF Queue
  <2>2. CASE \E a, b \in Tasks : tasks = {a, b} /\ TwoTasks(q, a, b)
    <3>1. PICK a, b \in Tasks : tasks = {a, b} /\ TwoTasks(q, a, b)
      BY <2>2
    <3>2. TwoTasks(v, a, b)
      BY <1>7, <1>9, <3>1 DEF TwoTasks
    <3> QED
      BY <3>1, <3>2 DEF Queue
  <2> QED
    BY <2>1, <2>2 DEF Queue
<1> QED
  BY <1>7, <1>8, <1>10 DEF r

(* The termination of one of two tasks leaves the other. *)
LEMMA RemoveOfTwo ==
    ASSUME NEW q \in Lists, NEW a \in Tasks, NEW b \in Tasks, TwoTasks(q, a, b),
           q.current \in {a, b}
    PROVE  \E c \in {a, b} \ {q.current} :
              /\ {a, b} \ {q.current} = {c}
              /\ OneTask(task_list_remove(q, q.current), c)
              /\ task_list_remove(q, q.current).current = c
<1> DEFINE t == q.current
           u == UnlinkFromPrev(q, t)
           v == [u EXCEPT !.head = IF t = q.head THEN u.next[t] ELSE q.head,
                          !.tail = IF t = q.tail THEN u.prev[t] ELSE q.tail]
           c == IF t = a THEN b ELSE a
<1>1. /\ a # b /\ q.head = a /\ q.tail = b /\ q.next[a] = b /\ q.next[b] = NULL /\ q.prev[b] = a
      /\ q.next \in [Tasks -> Tasks \cup {NULL}] /\ q.prev \in [Tasks -> Tasks \cup {NULL}]
  BY DEF TwoTasks, Lists
<1>2. /\ u \in Lists /\ u.current = t /\ u.prev = q.prev
      /\ u.next = IF q.prev[t] = NULL THEN q.next ELSE [q.next EXCEPT ![q.prev[t]] = q.next[t]]
  BY <1>1, TaskAssumption DEF UnlinkFromPrev, Lists
<1> HIDE DEF u
<1>3. /\ v \in Lists /\ v.current = t /\ v.next = u.next
      /\ v.head = (IF t = a THEN u.next[t] ELSE a)
      /\ v.tail = (IF t = b THEN u.prev[t] ELSE b)
  <2> DEFINE x == IF t = a THEN u.next[t] ELSE a
             y == IF t = b THEN u.prev[t] ELSE b
  <2>1. x \in Tasks \cup {NULL} /\ y \in Tasks \cup {NULL}
    BY <1>2 DEF Lists
  <2>2. v = [u EXCEPT !.head = x, !.tail = y]
    BY <1>1
  <2> HIDE DEF v, x, y
  <2>3. /\ v \in Lists /\ v.current = t /\ v.next = u.next /\ v.head = x /\ v.tail = y
    BY <1>2, <2>1, <2>2 DEF Lists
  <2> QED
    BY <2>3 DEF x, y
<1>4. task_list_remove(q, t) = [v EXCEPT !.current = task_get_next(v)]
  BY <1>3 DEF task_list_remove, u
<1> HIDE DEF v
<1>5. /\ task_list_remove(q, t).head = v.head /\ task_list_remove(q, t).tail = v.tail
      /\ task_list_remove(q, t).next = v.next /\ task_list_remove(q, t).current = task_get_next(v)
  BY <1>3, <1>4 DEF Lists
<1>6. CASE t = a
  <2>1. u.next[a] = b
    <3>1. CASE q.prev[a] = NULL
      BY <1>1, <1>2, <1>6, <3>1
    <3>2. CASE q.prev[a] # NULL
      BY <1>1, <1>2, <1>6, <3>2
    <3> QED
      BY <3>1, <3>2
  <2>2. u.next[b] \in {NULL, b}
    BY <1>1, <1>2, <1>6
  <2>3. v.head = b /\ v.tail = b /\ task_get_next(v) = b
    BY <1>1, <1>3, <1>6, <2>1, TaskAssumption DEF task_get_next
  <2>4. OneTask(task_list_remove(q, t), b) /\ task_list_remove(q, t).current = b
    BY <1>3, <1>5, <2>2, <2>3 DEF OneTask
  <2>5. b \in {a, b} \ {t} /\ {a, b} \ {t} = {b}
    BY <1>1, <1>6
  <2> QED
    BY <2>4, <2>5
<1>7. CASE t = b
  <2>1. u.next[a] = NULL /\ u.next[b] = NULL
    BY <1>1, <1>2, <1>7, TaskAssumption
  <2>2. v.head = a /\ v.tail = a /\ task_get_next(v) = a
    BY <1>1, <1>2, <1>3, <1>7, <2>1 DEF task_get_next
  <2>3. OneTask(task_list_remove(q, t), a) /\ task_list_remove(q, t).current = a
    BY <1>3, <1>5, <2>1, <2>2 DEF OneTask
  <2>4. a \in {a, b} \ {t} /\ {a, b} \ {t} = {a}
    BY <1>1, <1>7
  <2> QED
    BY <2>3, <2>4
<1> QED
  BY <1>6, <1>7

LEMMA InitQueue == Init => QueueInv
<1> SUFFICES ASSUME Init PROVE QueueInv
  OBVIOUS
<1>1. PICK a, b \in Tasks : a # b /\ Booted(a, b)
  BY DEF Init
<1> DEFINE q == task_new(EmptyList, a)
<1>2. EmptyList \in Lists /\ EmptyList.head = NULL
  BY DEF EmptyList, Lists
<1>3. q \in Lists /\ q.head = a /\ q.tail = a /\ q.current = a /\ q.next[a] = NULL
  BY <1>2, TaskAssumption DEF task_new, Cleared, Lists
<1> HIDE DEF q
<1>4. TwoTasks(task_new(q, b), a, b)
  BY <1>1, <1>3, NewBehindOne DEF OneTask
<1>5. task_new(q, b).current = a
  BY <1>3, TaskNewType, TaskAssumption
<1>6. list = task_new(q, b) /\ live = {a, b}
  BY <1>1 DEF Booted, q
<1> QED
  BY <1>4, <1>5, <1>6 DEF QueueInv, Queue

(* Exit and exception.  Of a single task no list is left, but then the     *)
(* kernel panics before it is touched.                                     *)
LEMMA TerminateKeepsQueue ==
    ASSUME KernelInv, QueueInv, Running, TerminateCurrent
    PROVE  QueueInv'
<1> DEFINE p == process[me]
           q == task_list_remove(list, me)
<1> SUFFICES ASSUME mode' = "user" PROVE list'.current \in live' /\ Queue(list', live')
  BY DEF QueueInv
<1>1. p \in Slots /\ processes[p] = me /\ me # NULL
  BY AtEntry, TaskAssumption DEF KernelInv, KernelTypeOK, TableMatchesTasks
<1>2. ~(focus = p /\ TakenSlots(processes) = {p})
  BY DEF TerminateCurrent
<1>3. /\ live' = live \ {me}
      /\ IF q.current = NULL
         THEN mode' = "wild" /\ list' = q /\ UNCHANGED cpu
         ELSE SwitchTo(q, Saved, task_get_next(q))
  BY <1>1, <1>2 DEF TerminateCurrent
<1>4. q.current # NULL /\ SwitchTo(q, Saved, task_get_next(q))
  BY <1>3
<1>5. list.current \in live /\ Queue(list, live)
  BY AtEntry DEF QueueInv
<1>6. ASSUME NEW a \in Tasks, live = {a} PROVE FALSE
  <2>1. me = a
    BY <1>5, <1>6 DEF me
  <2>2. ASSUME NEW s \in TakenSlots(processes) PROVE s = p
    BY <2>1, <2>2, <1>6, AtEntry DEF KernelInv, TableMatchesTasks
  <2>3. focus \in TakenSlots(processes) /\ p \in TakenSlots(processes)
    BY <1>1, AtEntry DEF KernelInv, KernelTypeOK, FocusInTable, TakenSlots
  <2> QED
    BY <1>2, <2>2, <2>3
<1>7. PICK a, b \in Tasks : live = {a, b} /\ TwoTasks(list, a, b)
  BY <1>5, <1>6 DEF Queue
<1>8. PICK c \in {a, b} \ {me} : /\ {a, b} \ {me} = {c} /\ OneTask(q, c) /\ q.current = c
  BY <1>5, <1>7, AtEntry, RemoveOfTwo DEF me
<1>9. q \in Lists /\ c \in Tasks
  BY <1>8, AtEntry, RemoveType
<1> HIDE DEF q
<1>10. task_get_next(q) = c
  BY <1>8, TaskAssumption DEF task_get_next, OneTask
<1>11. list' = [q EXCEPT !.current = c]
  BY <1>4, <1>9, <1>10, TaskAssumption DEF SwitchTo
<1>12. list'.current = c /\ OneTask(list', c)
  BY <1>8, <1>9, <1>11 DEF OneTask, Lists
<1>13. live' = {c}
  BY <1>3, <1>7, <1>8
<1> QED
  BY <1>9, <1>12, <1>13 DEF Queue

(* A load that succeeds makes a second task of a single one. *)
LEMMA LoadMakesTwo ==
    ASSUME KernelInv, QueueInv, AtMostTwo', mode' = "user", Running, NEW t \in Tasks \ live,
           live' = live \cup {t}
    PROVE  /\ Queue(task_new(list, t), live')
           /\ task_new(list, t) \in Lists /\ task_new(list, t).current = list.current
<1>1. PICK c, d \in Tasks : live' \subseteq {c, d}
  BY DEF AtMostTwo
<1>2. Queue(list, live)
  BY AtEntry DEF QueueInv
<1>3. PICK a \in Tasks : live = {a} /\ OneTask(list, a)
  <2>1. ASSUME NEW a \in Tasks, NEW b \in Tasks, live = {a, b}, TwoTasks(list, a, b) PROVE FALSE
    BY <1>1, <2>1 DEF TwoTasks
  <2> QED
    BY <1>2, <2>1 DEF Queue
<1>4. TwoTasks(task_new(list, t), a, t)
  BY <1>3, AtEntry, NewBehindOne
<1>5. live' = {a, t}
  BY <1>3
<1>6. task_new(list, t) \in Lists /\ task_new(list, t).current = list.current
  BY AtEntry, TaskNewType
<1> QED
  BY <1>4, <1>5, <1>6 DEF Queue

(* Where the scheduler goes on does not matter to the queue. *)
LEMMA QueueOfAny ==
    ASSUME NEW q \in Lists, NEW t \in Tasks, NEW tasks, Queue(q, tasks)
    PROVE  Queue([q EXCEPT !.current = t], tasks) /\ [q EXCEPT !.current = t].current = t
<1> DEFINE r == [q EXCEPT !.current = t]
<1>1. r.head = q.head /\ r.tail = q.tail /\ r.next = q.next /\ r.prev = q.prev /\ r.current = t
  BY DEF Lists
<1> HIDE DEF r
<1>2. Queue(r, tasks)
  BY <1>1 DEF Queue, OneTask, TwoTasks
<1> QED
  BY <1>1, <1>2 DEF r

LEMMA QueueStep ==
    ASSUME KernelInv, QueueInv, AtMostTwo', [Next]_kernelVars
    PROVE  QueueInv'
<1> SUFFICES ASSUME mode' = "user" PROVE list'.current \in live' /\ Queue(list', live')
  BY DEF QueueInv
<1>1. CASE UNCHANGED kernelVars
  BY <1>1 DEF kernelVars, QueueInv
<1>2. CASE Work \/ Interrupt \/ Syscall \/ LoadFails
  <2>1. Running /\ UNCHANGED <<list, live>>
    BY <1>2 DEF Work, Interrupt, Syscall, LoadFails
  <2> QED
    BY <2>1, AtEntry DEF QueueInv
<1>3. CASE Clock
  <2>1. Running /\ live' = live /\ SwitchTo(list, Saved, task_get_next(list))
    BY <1>3 DEF Clock
  <2>2. list \in Lists /\ list.current \in live /\ Queue(list, live)
    BY <2>1, AtEntry DEF QueueInv
  <2>3. task_get_next(list) \in live /\ live \subseteq Tasks
    BY <2>2, QueueNext
  <2>4. list' = [list EXCEPT !.current = task_get_next(list)]
    BY <2>1, <2>3, TaskAssumption DEF SwitchTo
  <2> QED
    BY <2>1, <2>2, <2>3, <2>4, QueueOfAny
<1>4. CASE Exception \/ Exit
  <2>1. QueueInv'
    BY <1>4, TerminateKeepsQueue DEF Exception, Exit
  <2> QED
    BY <2>1 DEF QueueInv
<1>5. CASE DivideError \/ OpenFails
  BY <1>5 DEF DivideError, OpenFails
<1>6. CASE LoadFailsToMap
  <2>1. Running /\ live' = live
    BY <1>6 DEF LoadFailsToMap
  <2>2. PICK t \in Tasks \ live : list' = task_list_remove(task_new(list, t), t)
    BY <1>6 DEF LoadFailsToMap
  <2>3. list \in Lists /\ list.current \in live /\ Queue(list, live)
    BY <2>1, AtEntry DEF QueueInv
  <2> QED
    BY <2>1, <2>2, <2>3, NewAndRemove
<1>7. CASE Load
  <2>1. Running
    BY <1>7 DEF Load
  <2>2. PICK t \in Tasks \ live :
            Loaded(t) /\ SwitchTo(task_new(list, t), [Saved EXCEPT ![t] = 0], t)
    BY <1>7 DEF Load
  <2>3. live' = live \cup {t}
    BY <2>2 DEF Loaded
  <2>4. Queue(task_new(list, t), live') /\ task_new(list, t) \in Lists
    BY <2>1, <2>3, LoadMakesTwo
  <2>5. list' = [task_new(list, t) EXCEPT !.current = t]
    BY <2>2, TaskAssumption DEF SwitchTo
  <2> QED
    BY <2>3, <2>4, <2>5, QueueOfAny
<1>8. CASE LoadFailsToInject
  <2>1. Running
    BY <1>8 DEF LoadFailsToInject
  <2>2. PICK t \in Tasks \ live : Loaded(t) /\ list' = task_new(list, t)
    BY <1>8 DEF LoadFailsToInject
  <2>3. live' = live \cup {t}
    BY <2>2 DEF Loaded
  <2>4. list.current \in live
    BY <2>1, AtEntry DEF me
  <2> QED
    BY <2>1, <2>2, <2>3, <2>4, LoadMakesTwo
<1> QED
  BY <1>1, <1>2, <1>3, <1>4, <1>5, <1>6, <1>7, <1>8 DEF Next

LEMMA QueueIsLive == KernelInv /\ QueueInv => RunQueueIsLive
<1> SUFFICES ASSUME KernelInv, QueueInv, mode = "user"
             PROVE  RunQueue(list) = live /\ list.tail \in live /\ list.current \in live
  BY DEF RunQueueIsLive
<1>1. list \in Lists /\ Queue(list, live) /\ list.current \in live
  BY DEF KernelInv, KernelTypeOK, QueueInv
<1> QED
  BY <1>1, QueueReached

(* As long as no more than two processes are loaded at a time, however     *)
(* many the table has room for, the run queue is the set of allocated      *)
(* tasks, in spite of the stale prev fields (task_new, task_list_remove).  *)
THEOREM QueueSound == Spec /\ []AtMostTwo => []RunQueueIsLive
<1>1. KernelInv /\ QueueInv /\ AtMostTwo' /\ [Next]_kernelVars => QueueInv'
  BY QueueStep
<1> QED
  BY <1>1, InitQueue, QueueIsLive, KernelInvariant, PTL DEF Spec

(* With a table of two slots, as in the run, that is always so. *)
THEOREM QueueSoundInTwoSlots ==
    ASSUME MaxProcesses = 2
    PROVE  Spec => []RunQueueIsLive
<1>1. KernelInv => AtMostTwo
  <2> SUFFICES ASSUME KernelInv, mode = "user"
               PROVE  \E a, b \in Tasks : live \subseteq {a, b}
    BY DEF AtMostTwo
  <2>1. Slots = {0, 1}
    BY DEF Slots
  <2>2. \A t \in live : t \in Tasks /\ t \in {processes[0], processes[1]}
    BY <2>1 DEF KernelInv, KernelTypeOK, TableMatchesTasks
  <2>3. focus \in Slots /\ processes[focus] \in Tasks
    BY <2>1 DEF KernelInv, KernelTypeOK, FocusInTable
  <2>4. processes[0] \in Tasks \cup {NULL} /\ processes[1] \in Tasks \cup {NULL}
    BY <2>1 DEF KernelInv, KernelTypeOK
  <2> DEFINE a == IF processes[0] = NULL THEN processes[focus] ELSE processes[0]
             b == IF processes[1] = NULL THEN processes[focus] ELSE processes[1]
  <2>5. a \in Tasks /\ b \in Tasks
    BY <2>3, <2>4
  <2>6. live \subseteq {a, b}
    BY <2>2, TaskAssumption
  <2> QED
    BY <2>5, <2>6
<1> QED
  BY <1>1, QueueSound, KernelInvariant, PTL

(* And the task that runs is the task of a process in the table            *)
(* (process_terminate, task_next).                                         *)
THEOREM TwoRunProcesses == Spec /\ []AtMostTwo => []RunsAProcess
<1>1. KernelInv /\ RunQueueIsLive => RunsAProcess
  BY DEF KernelInv, TableMatchesTasks, RunQueueIsLive, RunsAProcess
<1> QED
  BY <1>1, QueueSound, KernelInvariant, PTL
===============================================================================
