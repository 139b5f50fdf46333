------------------------------ MODULE PathParser ------------------------------
(***************************************************************************)
(* Parsing a path: src/fs/pparser.c.  A path is valid or not (a digit, a   *)
(* colon and a slash), names a drive, and goes on with names and slashes:  *)
(* a name stands for a run of characters between two slashes.  free is the *)
(* number of blocks the heap has left; every struct of the parser takes    *)
(* one.                                                                    *)
(***************************************************************************)
EXTENDS Integers, Sequences

CONSTANTS MaxPath  \* PANDORAOS_MAX_PATH, in names and slashes

ASSUME PathAssumption == MaxPath \in Nat

SLASH == "/"

(* What pathparser_parse has so far: how much of the path it has read, the *)
(* parts in the list, the blocks left, and whether the loop goes on.       *)
Parsing(at, parts, free, more) ==
    [at |-> at, parts |-> parts, free |-> free, more |-> more]

(* pathparser_get_path_part stands before a name. *)
AtName(rest, at) == at < Len(rest) /\ rest[at + 1] # SLASH

(* pathparser_get_path_part reads up to a slash or the end, and skips the  *)
(* slash.                                                                  *)
AfterPart(rest, at) ==
    LET behind == IF AtName(rest, at) THEN at + 1 ELSE at
    IN  IF behind < Len(rest) THEN behind + 1 ELSE behind

(* pathparser_parse_path_part: a buffer for the name, then the part.  No   *)
(* memory for the buffer, an empty name and no memory for the part all     *)
(* look the same to the caller, and what was allocated is given back.      *)
pathparser_parse_path_part(rest, s) ==
    IF s.free = 0 THEN [s EXCEPT !.more = FALSE]
    ELSE IF ~AtName(rest, s.at) \/ s.free = 1
    THEN Parsing(AfterPart(rest, s.at), s.parts, s.free, FALSE)
    ELSE Parsing(AfterPart(rest, s.at), Append(s.parts, rest[s.at + 1]), s.free - 2, TRUE)

(* The parts of the path and the blocks left; no parts is the null         *)
(* pointer.  The root is allocated first and given back when there is no   *)
(* first part.                                                             *)
pathparser_parse(path, free) ==
    LET nothing == [parts |-> <<>>, free |-> free]
        loop[k \in 0 .. Len(path.rest) + 1] ==
            LET was == loop[k - 1]
            IN  IF k = 0 THEN Parsing(0, <<>>, free - 1, TRUE)
                ELSE IF was.more THEN pathparser_parse_path_part(path.rest, was) ELSE was
        end == loop[Len(path.rest) + 1]
    IN  IF ~path.valid \/ Len(path.rest) > MaxPath \/ free = 0 THEN nothing
        ELSE IF end.parts = <<>> THEN [nothing EXCEPT !.free = end.free + 1]
        ELSE [parts |-> end.parts, free |-> end.free]

(* The blocks of a parsed path, all of which pathparser_free gives back. *)
PathBlocks(parts) == 1 + 2 * Len(parts)

(* A pathparser_free that forgets the names. *)
FreeKeepsNames(parts, free) == free + 1 + Len(parts)

(* A pathparser_free that frees the root twice. *)
FreeRootTwice(parts, free) == free + 1 + PathBlocks(parts)

pathparser_free(parts, free) == free + PathBlocks(parts)

(* The names among the first n names and slashes of a path, and all of     *)
(* them, whatever stands between them.                                     *)
NamesUpTo(rest, n) ==
    LET names[k \in 0 .. n] ==
            IF k = 0 THEN <<>>
            ELSE IF rest[k] = SLASH THEN names[k - 1] ELSE Append(names[k - 1], rest[k])
    IN  names[n]

NamesOf(path) == NamesUpTo(path.rest, Len(path.rest))
===============================================================================
