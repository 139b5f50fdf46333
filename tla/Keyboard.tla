------------------------------- MODULE Keyboard -------------------------------
(***************************************************************************)
(* The keyboard: the PS/2 interrupt of src/keyboard/pso2.c pushes          *)
(* characters into the ring of the process that has the focus              *)
(* (process_current), and the getkey command pops them from the ring of    *)
(* the process that runs (task_current()->process).  Which process has     *)
(* the focus and which one runs is decided by Kernel, at any time.         *)
(*                                                                         *)
(* head and tail are ints that only grow; they wrap at Word and are        *)
(* reduced modulo the size of the buffer where they are used.  There is no *)
(* check for a full buffer.                                                *)
(***************************************************************************)
EXTENDS Integers, Sequences

CONSTANTS Processes,  \* the processes
          Letters,    \* keys whose character depends on caps lock
          Others,     \* keys with one character
          Size,       \* PANDORA_KEYBOARD_BUFFER_SIZE
          Word        \* 2^32

ASSUME KeyboardAssumption ==
    /\ Size \in Nat \ {0}
    /\ Word \in Nat \ {0}
    /\ Word % Size = 0

VARIABLES buffer, head, tail,  \* process->keyboard
          capslock,            \* capslock_state of the keyboard
          focus,               \* current_process
          running,             \* the process of current_task
          unread,              \* history: what was typed for a process and not yet read
          overrun              \* history: processes whose buffer was ever overrun

keyVars == <<buffer, head, tail, capslock, focus, running, unread, overrun>>

Zero  == <<"zero">>   \* the character 0
Cells == 0 .. Size - 1
Chars == (Letters \X {"upper", "lower"}) \cup (Others \X {"same"})

KeyInit ==
    /\ buffer = [p \in Processes |-> [i \in Cells |-> Zero]]
    /\ head = [p \in Processes |-> 0]
    /\ tail = [p \in Processes |-> 0]
    /\ capslock = FALSE
    /\ focus \in Processes
    /\ running \in Processes
    /\ unread = [p \in Processes |-> <<>>]
    /\ overrun = {}

(* A slip: 32 is subtracted while caps lock is off, which makes a sign of  *)
(* the letter.                                                             *)
LetterToSign(key) ==
    IF key \in Letters THEN <<key, IF capslock THEN "upper" ELSE "sign">>
                       ELSE <<key, "same">>

pso2_keyboard_scancode_to_char(key) ==
    IF key \in Letters THEN <<key, IF capslock THEN "upper" ELSE "lower">>
                       ELSE <<key, "same">>

(* A slip: the index is one ahead of the place the reader looks at. *)
TailAhead(p) == (tail[p] + 1) % Size

(* A slip: the last cell of the buffer is never used. *)
TailStopsShort(p) == tail[p] % (Size - 1)

(* keyboard_get_tail_index for the process p. *)
keyboard_get_tail_index(p) == tail[p] % Size

(* keyboard_push: the cell is written whether or not it was read. *)
keyboard_push(c) ==
    /\ buffer' = [buffer EXCEPT ![focus][keyboard_get_tail_index(focus)] = c]
    /\ tail' = [tail EXCEPT ![focus] = (@ + 1) % Word]
    /\ IF Len(unread[focus]) = Size \/ focus \in overrun
       THEN /\ overrun' = overrun \cup {focus}
            /\ unread' = [unread EXCEPT ![focus] = <<>>]
       ELSE /\ unread' = [unread EXCEPT ![focus] = Append(@, c)]
            /\ UNCHANGED overrun

(* pso2_keyboard_handle_interrupt: a key is pressed. *)
Press(key) ==
    /\ keyboard_push(pso2_keyboard_scancode_to_char(key))
    /\ UNCHANGED <<head, capslock, focus, running>>

(* Caps lock toggles the state; its scan code has the character 0, which   *)
(* is not pushed.                                                          *)
PressCapsLock ==
    /\ capslock' = ~capslock
    /\ UNCHANGED <<buffer, head, tail, focus, running, unread, overrun>>

(* What keyboard_pop returns when p calls it. *)
Popped(p) == buffer[p][head[p] % Size]

(* A pop that forgets to clear the cell it has read. *)
PopKeepsCell ==
    /\ Popped(running) # Zero
    /\ head' = [head EXCEPT ![running] = (@ + 1) % Word]
    /\ unread' = [unread EXCEPT ![running] = IF @ = <<>> THEN @ ELSE Tail(@)]
    /\ UNCHANGED <<buffer, tail, capslock, focus, running, overrun>>

(* keyboard_pop (isr80h_command2_getkey): a zero cell means no character   *)
(* and moves nothing.                                                      *)
keyboard_pop ==
    /\ Popped(running) # Zero
    /\ buffer' = [buffer EXCEPT ![running][head[running] % Size] = Zero]
    /\ head' = [head EXCEPT ![running] = (@ + 1) % Word]
    /\ unread' = [unread EXCEPT ![running] = IF @ = <<>> THEN @ ELSE Tail(@)]
    /\ UNCHANGED <<tail, capslock, focus, running, overrun>>

(* The rest of the kernel moves the focus and schedules processes. *)
Switch ==
    /\ focus' \in Processes
    /\ running' \in Processes
    /\ UNCHANGED <<buffer, head, tail, capslock, unread, overrun>>

(* The process in slot p has ended and another one was loaded in its       *)
(* place: process_init clears its ring, and it takes the focus.            *)
process_init(p) ==
    /\ running # p
    /\ buffer' = [buffer EXCEPT ![p] = [i \in Cells |-> Zero]]
    /\ head' = [head EXCEPT ![p] = 0]
    /\ tail' = [tail EXCEPT ![p] = 0]
    /\ unread' = [unread EXCEPT ![p] = <<>>]
    /\ overrun' = overrun \ {p}
    /\ focus' = p
    /\ UNCHANGED <<capslock, running>>

KeyNext ==
    \/ \E key \in Letters \cup Others : Press(key)
    \/ PressCapsLock
    \/ keyboard_pop
    \/ Switch
    \/ \E p \in Processes : process_init(p)

(* Process p gets the processor; and, running, asks for a key. *)
Resume(p) == Switch /\ running' = p /\ focus' = focus
GetKey(p) == running = p /\ keyboard_pop

(* Every process gets the processor again (EveryTaskRuns of Kernel), and   *)
(* one that waits for a key polls with getkey (pandora_getkeyblock), so    *)
(* that it cannot be interrupted before the call for ever.                 *)
KeyFairness == \A p \in Processes : WF_keyVars(Resume(p)) /\ SF_keyVars(GetKey(p))

KeySpec == KeyInit /\ [][KeyNext]_keyVars /\ KeyFairness

-------------------------------------------------------------------------------
(* Properties. *)

(* Type correctness of the keyboard's state. *)
KeyTypeOK ==
    /\ buffer \in [Processes -> [Cells -> Chars \cup {Zero}]]
    /\ head \in [Processes -> 0 .. Word - 1]
    /\ tail \in [Processes -> 0 .. Word - 1]
    /\ focus \in Processes /\ running \in Processes
    /\ overrun \subseteq Processes

(* Until a buffer is overrun it holds the unread characters, in order,     *)
(* from head to tail, and zeros elsewhere, also after the counters have    *)
(* wrapped: reader and writer meet at the same cells although neither      *)
(* looks at the other's counter (keyboard_push, keyboard_pop).             *)
RingHoldsUnread ==
    \A p \in Processes \ overrun :
        /\ tail[p] = (head[p] + Len(unread[p])) % Word
        /\ \A j \in Cells :
              buffer[p][(head[p] + j) % Size] =
                  IF j < Len(unread[p]) THEN unread[p][j + 1] ELSE Zero

(* getkey returns the oldest unread character of its caller, and 0 only    *)
(* when there is none, whichever process had the focus meanwhile, as long  *)
(* as the caller's buffer was never overrun (keyboard_pop).                *)
GetKeyInOrder ==
    \A p \in Processes \ overrun :
        Popped(p) = IF unread[p] = <<>> THEN Zero ELSE Head(unread[p])

(* A process that is typed to again and again goes on receiving keys, even *)
(* after its buffer was overrun, when head and tail have lost each other   *)
(* and a key may lie where the reader does not look: nobody stays deaf     *)
(* (keyboard_push, keyboard_pop).                                          *)
NobodyStaysDeaf ==
    \A p \in Processes :
        \/ <>[][tail[p]' = tail[p]]_keyVars                \* nobody types to p any more
        \/ []<><<process_init(p)>>_keyVars                 \* p is replaced again and again
        \/ []<><<GetKey(p)>>_keyVars \* p receives keys
===============================================================================
