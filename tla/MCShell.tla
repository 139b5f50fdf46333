-------------------------------- MODULE MCShell --------------------------------
(* The view for the run of Shell. *)
EXTENDS Shell

(* What no step and no property but the type reads any more: the rows      *)
(* above the line and the cursor, since the row never decreases; what lies *)
(* in the buffer behind the index, which is written before it is read; the *)
(* cut up line, once strtok is done with it and until the next one is      *)
(* copied over it; the arguments outside of a parse.                       *)
ShellView ==
    LET top  == IF pc = "read" /\ origin < terminal.row * Width THEN origin
                ELSE terminal.row * Width
        idle == pc \in {"prompt", "read"}
        used(f, seen(_)) == [k \in DOMAIN f |-> IF seen(k) THEN f[k] ELSE NUL]
    IN  << pc, terminal.row, terminal.col, terminal.stray,
           used(terminal.cells, LAMBDA k : k >= top),
           IF pc = "read" THEN used(out, LAMBDA k : k < i) ELSE NUL,
           IF pc = "read" THEN i ELSE 0,
           IF idle /\ sp = NULL THEN NUL ELSE scommand, sp,
           IF idle THEN NoArgs ELSE arguments, started, lines, others,
           IF pc = "prompt" /\ started = NoArgs THEN <<>> ELSE typed,
           origin, spoilt, failed >>
===============================================================================
