------------------------------- MODULE TaskList -------------------------------
(***************************************************************************)
(* The doubly linked list of tasks of src/task/task.c.  A task is the      *)
(* address of its struct; next and prev are kept for every address, also   *)
(* for structs that were passed to kfree, because the code goes on reading *)
(* and writing them through pointers it did not clear.                     *)
(***************************************************************************)
EXTENDS Integers, FiniteSets

CONSTANTS Tasks,  \* addresses at which kzalloc may place a struct task
          NULL    \* the null pointer

ASSUME TaskAssumption == NULL \notin Tasks

(* A list: task_head, task_tail, current_task and the link fields. *)
Lists == [head    : Tasks \cup {NULL},
          tail    : Tasks \cup {NULL},
          current : Tasks \cup {NULL},
          next    : [Tasks -> Tasks \cup {NULL}],
          prev    : [Tasks -> Tasks \cup {NULL}]]

EmptyList == [head |-> NULL, tail |-> NULL, current |-> NULL,
              next |-> [t \in Tasks |-> NULL], prev |-> [t \in Tasks |-> NULL]]

(* kzalloc and task_init clear the struct before it is linked. *)
Cleared(q, t) == [q EXCEPT !.next[t] = NULL, !.prev[t] = NULL]

task_new(q, t) ==
    LET c == Cleared(q, t)
    IN  IF c.head = NULL
        THEN [c EXCEPT !.head = t, !.tail = t, !.current = t]
        ELSE [c EXCEPT !.next[c.tail] = t, !.prev[t] = c.tail, !.tail = t]

(* The successor if the next field were never followed. *)
AlwaysHead(q) == q.head

task_get_next(q) ==
    IF q.next[q.current] = NULL THEN q.head ELSE q.next[q.current]

(* task->prev->next = task->next *)
UnlinkFromPrev(q, t) ==
    IF q.prev[t] = NULL THEN q ELSE [q EXCEPT !.next[q.prev[t]] = q.next[t]]

(* Removals with a plausible slip: the tail is not moved back; the head is *)
(* moved to the wrong neighbour.                                           *)
RemoveForgetsTail(q, t) ==
    LET u == UnlinkFromPrev(q, t)
        v == [u EXCEPT !.head = IF t = q.head THEN u.next[t] ELSE q.head]
    IN  IF t = v.current THEN [v EXCEPT !.current = task_get_next(v)] ELSE v

RemoveHeadToPrev(q, t) ==
    LET u == UnlinkFromPrev(q, t)
        v == [u EXCEPT !.head = IF t = q.head THEN u.prev[t] ELSE q.head,
                       !.tail = IF t = q.tail THEN u.prev[t] ELSE q.tail]
    IN  IF t = v.current THEN [v EXCEPT !.current = task_get_next(v)] ELSE v

(* The prev field of the task after t is left as it is. *)
task_list_remove(q, t) ==
    LET u == UnlinkFromPrev(q, t)
        v == [u EXCEPT !.head = IF t = q.head THEN u.next[t] ELSE q.head,
                       !.tail = IF t = q.tail THEN u.prev[t] ELSE q.tail]
    IN  IF t = v.current THEN [v EXCEPT !.current = task_get_next(v)] ELSE v

(* The tasks that the scheduler comes across when it starts at the head. *)
RunQueue(q) ==
    LET step[n \in 0 .. Cardinality(Tasks)] ==
            IF n = 0 THEN {q.head} \ {NULL}
            ELSE step[n - 1] \cup ({q.next[t] : t \in step[n - 1]} \ {NULL})
    IN  step[Cardinality(Tasks)]
===============================================================================
