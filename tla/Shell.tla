--------------------------------- MODULE Shell ---------------------------------
(***************************************************************************)
(* The shell and the library under it: programs/shell/src/shell.c,         *)
(* pandora_terminal_readline, pandora_system_run, pandora_parse_command    *)
(* and strtok of programs/stdlib, down to the command that starts a        *)
(* program in src/isr80h/process.c and src/task/process.c.  Another        *)
(* process writes to the same terminal between any two system calls of the *)
(* shell, and memory may run out at any of its allocations.                *)
(*                                                                         *)
(* A character is a letter, the blank, the backspace or NUL.               *)
(***************************************************************************)
EXTENDS Terminal, SequencesExt

CONSTANTS Letters,    \* characters typed
          BufSize,    \* sizeof(buf) of the shell
          ArgSize,    \* sizeof(argument) of struct command_argument
          MaxLines,   \* bound: lines read
          MaxRow,     \* bound: row in which keys are still typed
          MaxOthers   \* bound: characters another process writes

NUL    == "nul"
Enter  == "enter"

ASSUME ShellAssumption ==
    /\ BufSize \in Nat \ {0} /\ ArgSize \in Nat \ {0}
    /\ MaxLines \in Nat /\ MaxRow \in Nat /\ MaxOthers \in Nat
    /\ Letters \cap {NewLine, Backspace, Blank, NUL, Enter} = {}

VARIABLES pc,         \* what the shell does next
          terminal,   \* the screen
          out, i,     \* pandora_terminal_readline: the buffer and the index
          scommand,   \* pandora_parse_command: the copy that strtok cuts up
          sp,         \* strtok: where it goes on
          arguments,  \* the list of struct command_argument
          started,    \* the arguments of the program this line has started
          lines, others,  \* lines read, characters written by others
          typed,      \* history: the line as the user edited it
          origin,     \* history: where the line begins on the screen
          spoilt,     \* history: what makes the line not be what is shown or run
          failed      \* history: an allocation failed in the last parse, in the one before

shellVars == <<pc, terminal, out, i, scommand, sp, arguments, started, lines, others,
               typed, origin, spoilt, failed>>

NULL   == -1
NoArgs == <<>>

Keys   == Letters \cup {Blank, Backspace, Enter}
Bytes  == Letters \cup {Blank, Backspace, NUL}
Banner == <<"P", NewLine>>
Prompt == <<">", Blank>>

(* What can come between the keys and the screen or the program: another   *)
(* process writes, a backspace on the empty line, a backspace written at   *)
(* the left margin, by the echo or by another process.                     *)
Spoilers == {"other", "empty", "margin"}

ShellInit ==
    /\ pc = "prompt"
    /\ terminal = print(terminal_initialize, Banner)
    /\ out = [k \in 0 .. BufSize - 1 |-> NUL] /\ i = 0
    /\ scommand = [k \in 0 .. BufSize |-> NUL]
    /\ sp = NULL
    /\ arguments = <<>> /\ started = NoArgs
    /\ lines = 0 /\ others = 0
    /\ typed = <<>> /\ origin = 0 /\ spoilt = {}
    /\ failed = <<FALSE, FALSE>>

(* The string that begins at position k of an array. *)
StringAt(a, k) ==
    LET end == Min({e \in DOMAIN a : e >= k /\ a[e] = NUL})
    IN  [n \in 1 .. end - k |-> a[k + n - 1]]

(* strncpy: at most count - 1 characters and a NUL; what lies behind stays. *)
strncpy(dest, src, count) ==
    LET n == IF Len(src) < count THEN Len(src) ELSE count - 1
    IN  [k \in DOMAIN dest |-> IF k < n THEN src[k + 1] ELSE IF k = n THEN NUL ELSE dest[k]]

-------------------------------------------------------------------------------
(* Reading a line. *)

(* main prints the prompt and calls pandora_terminal_readline. *)
PrintPrompt ==
    /\ pc = "prompt" /\ lines < MaxLines
    /\ terminal' = print(terminal, Prompt)
    /\ i' = 0
    /\ typed' = <<>> /\ origin' = Cursor(terminal') /\ spoilt' = {}
    /\ started' = NoArgs
    /\ pc' = "read" /\ lines' = lines + 1
    /\ UNCHANGED <<out, scommand, sp, arguments, others, failed>>

(* A loop that runs to max. *)
RoomToTheEnd == i < BufSize

(* The loop runs to max - 1. *)
RoomLeft == i < BufSize - 1

(* A key that is not Enter: it is echoed, then stored or, a backspace,     *)
(* taken out of the buffer again.  With nothing to take out the backspace  *)
(* itself is stored.                                                       *)
ReadKey(key) ==
    /\ pc = "read" /\ RoomLeft /\ key # Enter /\ terminal.row <= MaxRow
    /\ terminal' = terminal_writechar(terminal, key)
    /\ IF key = Backspace /\ i >= 1
       THEN /\ out' = [out EXCEPT ![i - 1] = NUL]
            /\ i' = i - 1
            /\ typed' = Front(typed)
       ELSE /\ out' = [out EXCEPT ![i] = key]
            /\ i' = i + 1
            /\ typed' = IF key = Backspace THEN typed ELSE Append(typed, key)
    /\ spoilt' = spoilt \cup (IF key = Backspace /\ i = 0 THEN {"empty"} ELSE {})
                        \cup (IF key = Backspace /\ terminal.col = 0 THEN {"margin"} ELSE {})
    /\ UNCHANGED <<pc, scommand, sp, arguments, started, lines, others, origin, failed>>

(* Enter, or the end of the buffer: the line is terminated, and the shell  *)
(* calls pandora_system_run, which copies it.                              *)
EndLine ==
    /\ pc = "read"                      \* ~RoomLeft, or the key is Enter
    /\ out' = [out EXCEPT ![i] = NUL]
    /\ terminal' = print(terminal, <<NewLine>>)
    /\ scommand' = strncpy(scommand, StringAt(out', 0), BufSize + 1)
    /\ arguments' = <<>>
    /\ failed' = <<FALSE, failed[1]>>
    /\ pc' = "first"
    /\ UNCHANGED <<i, sp, started, lines, others, typed, origin, spoilt>>

-------------------------------------------------------------------------------
(* Cutting the line into arguments. *)

(* A strtok that does not clear sp at the end of the string. *)
StrtokKeepsPlace(str) ==
    LET start == IF sp = NULL THEN str ELSE sp
        first == Min({k \in DOMAIN scommand : k >= start /\ scommand[k] # Blank})
        last  == Min({k \in DOMAIN scommand : k >= first /\ scommand[k] \in {Blank, NUL}})
    IN  IF start = NULL THEN [sp |-> NULL, a |-> scommand, token |-> NULL]
        ELSE IF scommand[first] = NUL THEN [sp |-> first, a |-> scommand, token |-> NULL]
        ELSE [sp |-> IF scommand[last] = Blank THEN last + 1 ELSE last,
              a |-> [scommand EXCEPT ![last] = NUL], token |-> first]

(* strtok(str, " "), where str is the beginning of scommand, or NULL.  It  *)
(* starts at str only if it is not in the middle of a string already.      *)
strtok(str) ==
    LET start == IF sp = NULL THEN str ELSE sp
        first == Min({k \in DOMAIN scommand : k >= start /\ scommand[k] # Blank})
        last  == Min({k \in DOMAIN scommand : k >= first /\ scommand[k] \in {Blank, NUL}})
    IN  IF start = NULL THEN [sp |-> NULL, a |-> scommand, token |-> NULL]
        ELSE IF scommand[first] = NUL THEN [sp |-> NULL, a |-> scommand, token |-> NULL]
        ELSE [sp |-> IF scommand[last] = Blank THEN last + 1 ELSE last,
              a |-> [scommand EXCEPT ![last] = NUL], token |-> first]

(* The word of a token as it fits into a struct command_argument. *)
Argument(a, token) ==
    LET word == StringAt(a, token) IN SubSeq(word, 1, Min({Len(word), ArgSize - 1}))

(* One round of pandora_parse_command: a token, and memory for it.         *)
(* Without a token or without memory the list ends.                        *)
NextToken ==
    /\ pc \in {"first", "next"}
    /\ LET t == strtok(IF pc = "first" THEN 0 ELSE NULL)
       IN  /\ sp' = t.sp /\ scommand' = t.a
           /\ \/ /\ t.token = NULL
                 /\ pc' = IF arguments = <<>> THEN "done" ELSE "system"
                 /\ UNCHANGED <<arguments, failed>>
              \/ /\ t.token # NULL
                 /\ arguments' = Append(arguments, Argument(t.a, t.token))
                 /\ pc' = "next"
                 /\ UNCHANGED failed
              \/ /\ t.token # NULL              \* pandora_malloc returns 0
                 /\ pc' = IF arguments = <<>> THEN "done" ELSE "system"
                 /\ failed' = [failed EXCEPT ![1] = TRUE]
                 /\ UNCHANGED arguments
    /\ UNCHANGED <<terminal, out, i, started, lines, others, typed, origin, spoilt>>

(* isr80h_command7_invoke_system_command: the program is loaded and gets   *)
(* the arguments; or it cannot be loaded; or there is no memory for the    *)
(* arguments, and it runs without any.                                     *)
pandora_system ==
    /\ pc = "system"
    /\ started' \in {arguments, NoArgs}
    /\ pc' = "done"
    /\ UNCHANGED <<terminal, out, i, scommand, sp, arguments, lines, others, typed, origin,
                   spoilt, failed>>

(* The shell goes on with the next line. *)
EndCommand ==
    /\ pc = "done"
    /\ terminal' = print(terminal, <<NewLine>>)
    /\ pc' = "prompt"
    /\ UNCHANGED <<out, i, scommand, sp, arguments, started, lines, others, typed, origin,
                   spoilt, failed>>

(* What another process may print or put: any character; those that are    *)
(* neither newline nor backspace are all treated alike.                    *)
OtherChars == Letters \cup {Blank, NewLine, Backspace}

(* Another process writes a character. *)
OtherWrites(c) ==
    /\ others < MaxOthers
    /\ others' = others + 1
    /\ terminal' = terminal_writechar(terminal, c)
    /\ spoilt' = spoilt \cup {"other"}
                        \cup (IF c = Backspace /\ terminal.col = 0 THEN {"margin"} ELSE {})
    /\ UNCHANGED <<pc, out, i, scommand, sp, arguments, started, lines, typed, origin, failed>>

ShellNext ==
    \/ PrintPrompt
    \/ \E key \in Keys : ReadKey(key)
    \/ EndLine \/ NextToken \/ pandora_system \/ EndCommand
    \/ \E c \in OtherChars : OtherWrites(c)

ShellSpec == ShellInit /\ [][ShellNext]_shellVars

-------------------------------------------------------------------------------
(* Properties. *)

(* Type correctness of the shell's and the terminal's state. *)
ShellTypeOK ==
    /\ pc \in {"prompt", "read", "first", "next", "system", "done"}
    /\ terminal.row \in 0 .. Word16 - 1 /\ terminal.col \in 0 .. Word16 - 1
    /\ terminal.cells \in [Screen -> Letters \cup {Blank, "P", ">"}]
    /\ out \in [0 .. BufSize - 1 -> Bytes] /\ i \in 0 .. BufSize - 1
    /\ scommand \in [0 .. BufSize -> Bytes] /\ sp \in {NULL} \cup 0 .. BufSize
    /\ spoilt \subseteq Spoilers

(* The words of a line: what stands between blanks, as much of it as fits  *)
(* into a struct command_argument.                                         *)
Starts(line) == {k \in DOMAIN line : line[k] # Blank /\ (k = 1 \/ line[k - 1] = Blank)}

StartOf(line, n) == CHOOSE k \in Starts(line) : Cardinality({j \in Starts(line) : j <= k}) = n

StopOf(line, k) == Min({e \in k .. Len(line) + 1 : e = Len(line) + 1 \/ line[e] = Blank})

WordAt(line, k) == SubSeq(line, k, Min({StopOf(line, k), k + ArgSize - 1}) - 1)

Words(line) == [n \in 1 .. Cardinality(Starts(line)) |-> WordAt(line, StartOf(line, n))]

(* A program is started with the words that were typed, after the user's   *)
(* corrections; with the first ones of them when memory ran out in         *)
(* between.  This holds for a line in which no backspace was typed with    *)
(* nothing to erase, and unless an allocation failed in the line before    *)
(* it (pandora_terminal_readline, pandora_parse_command, strtok).          *)
ArgvIsTyped ==
    started # NoArgs /\ "empty" \notin spoilt /\ ~failed[2] =>
        IF failed[1] THEN IsPrefix(started, Words(typed)) ELSE started = Words(typed)

(* While a line is typed the screen shows what the program will be given:  *)
(* the line, behind it the cursor, and nothing behind the cursor, although *)
(* the buffer and the screen are edited by two different pieces of code    *)
(* (pandora.c 84-91, terminal_backspace).  This holds as long as nobody    *)
(* else writes, no backspace meets the empty line or the left margin, and  *)
(* the screen is not full.                                                 *)
LineAsShown ==
    pc = "read" /\ spoilt = {} /\ ~terminal.stray /\ Cursor(terminal) \in Screen =>
        /\ Cursor(terminal) = origin + i
        /\ \A k \in 0 .. i - 1 : terminal.cells[origin + k] = out[k]
        /\ \A k \in Screen : k >= origin + i => terminal.cells[k] = Blank

(* Whatever the shell and other processes write, the column is inside the  *)
(* screen or the one where the step back from column 0 wraps to, and it is *)
(* inside the screen unless a backspace has met the left margin since the  *)
(* last prompt: the prompt leads back into the line (terminal_writechar,   *)
(* terminal_backspace).                                                    *)
CursorInLine ==
    /\ terminal.col < Width \/ terminal.col = Word16 - 1
    /\ "margin" \notin spoilt => terminal.col < Width
===============================================================================
