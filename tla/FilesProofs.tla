------------------------------ MODULE FilesProofs ------------------------------
(***************************************************************************)
(* Proofs about Files for any volumes of the shape that FilesAssumption    *)
(* gives, any paths, any number of descriptors and any size of the heap.   *)
(***************************************************************************)
EXTENDS Files, NatLemmas, FiniteSetTheorems

-------------------------------------------------------------------------------
(* The path parser. *)

PathNames == STRING \ {NoName}

LEMMA AppendType ==
    ASSUME NEW X, NEW s \in Seq(X), NEW e \in X
    PROVE  Append(s, e) \in Seq(X)
OBVIOUS

(* The names among the beginnings of a path: one more, or a slash. *)
Names(h, rest) ==
    /\ h \in [0 .. Len(rest) -> Seq(PathNames)]
    /\ h[0] = <<>>
    /\ \A k \in 1 .. Len(rest) :
          h[k] = IF rest[k] = SLASH THEN h[k - 1] ELSE Append(h[k - 1], rest[k])

(* The recursive definition of NamesUpTo gives them. *)
LEMMA NamesAreUpTo ==
    ASSUME NEW rest \in Seq(PathNames)
    PROVE  \E h : Names(h, rest) /\ \A n \in 0 .. Len(rest) : NamesUpTo(rest, n) = h[n]
<1> DEFINE N == Len(rest)
           T == Seq(PathNames)
           base == <<>>
           step == [x \in T \X (1 .. N) |->
                      IF rest[x[2]] = SLASH THEN x[1] ELSE Append(x[1], rest[x[2]])]
<1>1. N \in Nat /\ base \in T /\ \A k \in 1 .. N : rest[k] \in PathNames
  OBVIOUS
<1>2. step \in [T \X (1 .. N) -> T]
  <2>1. ASSUME NEW x \in T \X (1 .. N)
        PROVE  (IF rest[x[2]] = SLASH THEN x[1] ELSE Append(x[1], rest[x[2]])) \in T
    <3>1. x[1] \in T /\ rest[x[2]] \in PathNames
      BY <1>1
    <3>2. \A a \in T, b \in PathNames : Append(a, b) \in T
      BY AppendType, Zenon
    <3> HIDE DEF T
    <3> QED
      BY <3>1, <3>2
  <2> HIDE DEF T
  <2> QED
    BY <2>1
<1>3. \A x \in T, k \in 1 .. N :
        step[<<x, k>>] = IF rest[k] = SLASH THEN x ELSE Append(x, rest[k])
  <2> HIDE DEF T
  <2> QED
    OBVIOUS
<1> HIDE DEF step, base, T, N
<1>4. PICK h : LoopValues(h, N, T, base, step)
  BY <1>1, <1>2, LoopHasValues, Zenon
<1>5. Names(h, rest)
  <2>1. /\ h \in [0 .. N -> T] /\ h[0] = base
        /\ \A k \in 1 .. N : h[k] = step[<<h[k - 1], k>>]
    BY <1>4 DEF LoopValues
  <2>2. ASSUME NEW k \in 1 .. N
        PROVE  h[k] = IF rest[k] = SLASH THEN h[k - 1] ELSE Append(h[k - 1], rest[k])
    <3>1. k - 1 \in 0 .. N
      BY <1>1
    <3>2. h[k - 1] \in T
      BY <2>1, <3>1
    <3> QED
      BY <1>3, <2>1, <3>2
  <2> QED
    BY <2>1, <2>2 DEF Names, N, T, base
<1>6. ASSUME NEW n \in 0 .. N
      PROVE  NamesUpTo(rest, n) = h[n]
  <2> DEFINE Body(v) == [k \in 0 .. n |-> IF k = 0 THEN <<>>
                            ELSE IF rest[k] = SLASH THEN v[k - 1] ELSE Append(v[k - 1], rest[k])]
             f == CHOOSE v : v = Body(v)
             g == [k \in 0 .. n |-> h[k]]
  <2>1. n \in Nat /\ 0 .. n \subseteq 0 .. N
    BY <1>1
  <2>2. ASSUME NEW k \in 0 .. n PROVE g[k] = Body(g)[k]
    <3>1. k # 0 => k \in 1 .. N /\ k - 1 \in 0 .. n
      BY <2>1
    <3> QED
      BY <1>5, <2>1, <3>1 DEF Names, N
  <2>3. g = Body(g)
    BY <2>2
  <2>4. f = Body(f)
    BY <2>3
  <2>5. NamesUpTo(rest, n) = f[n]
    BY DEF NamesUpTo
  <2> HIDE DEF f, g
  <2>6. f[0] = g[0]
    <3>1. 0 \in 0 .. n
      BY <2>1
    <3>2. f[0] = <<>> /\ g[0] = <<>>
      BY <2>3, <2>4, <3>1
    <3> QED
      BY <3>2, Zenon
  <2>7. ASSUME NEW k \in 1 .. n, f[k - 1] = g[k - 1] PROVE f[k] = g[k]
    <3>1. k \in 0 .. n /\ k # 0
      BY <2>1
    <3>2. f[k] = Body(f)[k] /\ g[k] = Body(g)[k]
      BY <2>3, <2>4, Zenon
    <3>3. Body(f)[k] = Body(g)[k]
      BY <2>7, <3>1
    <3> QED
      BY <3>2, <3>3, Zenon
  <2>8. \A k \in 0 .. n : f[k] = g[k]
    <3>1. Alike(f, g, n)
      BY <2>6, <2>7 DEF Alike
    <3>2. n \in Nat
      BY <2>1
    <3>3. Agree(f, g, n)
      BY <3>1, <3>2, LoopAgree, Zenon
    <3> QED
      BY <3>3 DEF Agree
  <2> QED
    BY <2>1, <2>5, <2>8 DEF g
<1> QED
  BY <1>5, <1>6 DEF N

(* The names of a beginning are a beginning of the names. *)
LEMMA NamesGrow ==
    ASSUME NEW rest \in Seq(PathNames), NEW h, Names(h, rest), NEW m \in 0 .. Len(rest)
    PROVE  \A n \in m .. Len(rest) : Len(h[m]) <= Len(h[n]) /\ SubSeq(h[n], 1, Len(h[m])) = h[m]
<1> DEFINE L == Len(rest)
           P(s, t) == Len(s) <= Len(t) /\ \A k \in 1 .. Len(s) : t[k] = s[k]
           S == {n \in 0 .. L : n >= m => P(h[m], h[n])}
<1>1. L \in Nat /\ \A n \in 0 .. L : h[n] \in Seq(PathNames)
  <2>1. h \in [0 .. L -> Seq(PathNames)]
    BY DEF Names
  <2>2. L \in Nat
    OBVIOUS
  <2> HIDE DEF L
  <2> QED
    BY <2>1, <2>2
<1>2. 0 \in S
  BY <1>1
<1>3. ASSUME NEW k \in S \cap (0 .. L - 1) PROVE k + 1 \in S
  <2> DEFINE j == k + 1
  <2>1. j \in 1 .. L /\ j - 1 = k /\ k \in 0 .. L /\ (k >= m => P(h[m], h[k]))
    BY <1>1
  <2> HIDE DEF j
  <2>2. CASE j = m
    BY <1>1, <2>1, <2>2 DEF j
  <2>3. CASE j < m
    BY <1>1, <2>1, <2>3 DEF j
  <2>4. CASE j > m
    <3>1. P(h[m], h[k]) /\ h[k] \in Seq(PathNames) /\ h[m] \in Seq(PathNames) /\ rest[j] \in PathNames
      BY <1>1, <2>1, <2>4
    <3>2. h[j] = h[k] \/ h[j] = Append(h[k], rest[j])
      BY <2>1 DEF Names
    <3>3. P(h[m], h[j])
      <4>1. CASE h[j] = h[k]
        BY <3>1, <4>1
      <4>2. CASE h[j] = Append(h[k], rest[j])
        BY <3>1, <4>2
      <4> QED
        BY <3>2, <4>1, <4>2
    <3> QED
      BY <2>1, <3>3 DEF j
  <2> QED
    BY <1>1, <2>1, <2>2, <2>3, <2>4
<1>4. 0 .. L \subseteq S
  <2> HIDE DEF S
  <2> QED
    BY <1>1, <1>2, <1>3, Induction
<1> SUFFICES ASSUME NEW n \in m .. L
             PROVE  Len(h[m]) <= Len(h[n]) /\ SubSeq(h[n], 1, Len(h[m])) = h[m]
  OBVIOUS
<1>5. P(h[m], h[n])
  <2>1. n \in S /\ n >= m
    BY <1>1, <1>4
  <2> QED
    BY <2>1
<1>6. h[m] \in Seq(PathNames) /\ h[n] \in Seq(PathNames)
  BY <1>1
<1> QED
  BY <1>5, <1>6

(* What pathparser_parse has after any number of parts: the blocks are     *)
(* those of the parts and the rest, and the parts are the names of a       *)
(* beginning of the path, the one that has been read while the loop goes   *)
(* on.                                                                     *)
ParseStates(rest, h, blocks) ==
    {s \in [at : 0 .. Len(rest), parts : Seq(PathNames), free : Nat, more : BOOLEAN] :
        /\ s.free + 1 + 2 * Len(s.parts) = blocks
        /\ s.more => s.parts = h[s.at]
        /\ \E m \in 0 .. Len(rest) : s.parts = h[m]}

(* Between two names is a slash. *)
Separated(rest) == \A k \in 1 .. Len(rest) - 1 : rest[k] # SLASH => rest[k + 1] = SLASH

LEMMA ParsingType ==
    ASSUME NEW rest \in Seq(PathNames), NEW h, NEW blocks \in Nat, NEW at \in 0 .. Len(rest),
           NEW parts \in Seq(PathNames), NEW left \in Nat, NEW more \in BOOLEAN,
           left + 1 + 2 * Len(parts) = blocks, NEW m \in 0 .. Len(rest), parts = h[m],
           more => parts = h[at]
    PROVE  Parsing(at, parts, left, more) \in ParseStates(rest, h, blocks)
BY DEF Parsing, ParseStates

LEMMA ParsePart ==
    ASSUME NEW rest \in Seq(PathNames), Separated(rest), NEW h, Names(h, rest), NEW blocks \in Nat,
           NEW s \in ParseStates(rest, h, blocks), s.more
    PROVE  pathparser_parse_path_part(rest, s) \in ParseStates(rest, h, blocks)
<1> DEFINE at == s.at
           parts == s.parts
           left == s.free
           r == pathparser_parse_path_part(rest, s)
<1>1. /\ s = Parsing(at, parts, left, TRUE)
      /\ at \in 0 .. Len(rest) /\ parts \in Seq(PathNames) /\ left \in Nat /\ Len(rest) \in Nat
      /\ left + 1 + 2 * Len(parts) = blocks /\ parts = h[at]
  BY DEF ParseStates, Parsing
<1>2. CASE left = 0
  <2>1. r = Parsing(at, parts, left, FALSE)
    BY <1>1, <1>2 DEF pathparser_parse_path_part, Parsing
  <2> HIDE DEF r, at, parts, left
  <2>2. r \in ParseStates(rest, h, blocks)
    BY <1>1, <2>1 DEF ParseStates, Parsing
  <2> QED
    BY <2>2 DEF r
<1>3. CASE left # 0 /\ (~AtName(rest, at) \/ left = 1)
  <2>1. r = Parsing(AfterPart(rest, at), parts, left, FALSE)
    BY <1>3 DEF pathparser_parse_path_part
  <2> HIDE DEF r, at, parts, left
  <2>2. AfterPart(rest, at) \in 0 .. Len(rest)
    BY <1>1 DEF AfterPart, AtName
  <2>3. r \in ParseStates(rest, h, blocks)
    BY <1>1, <2>1, <2>2 DEF ParseStates, Parsing
  <2> QED
    BY <2>3 DEF r
<1>4. CASE left # 0 /\ AtName(rest, at) /\ left # 1
  <2>1. r = Parsing(AfterPart(rest, at), Append(parts, rest[at + 1]), left - 2, TRUE)
    BY <1>4 DEF pathparser_parse_path_part
  <2> HIDE DEF r, at, parts, left
  <2>2. at < Len(rest) /\ rest[at + 1] # SLASH /\ rest[at + 1] \in PathNames /\ at + 1 \in 1 .. Len(rest)
    BY <1>1, <1>4 DEF AtName
  <2>3. h[at + 1] = Append(parts, rest[at + 1])
    <3> DEFINE k == at + 1
    <3>1. k \in 1 .. Len(rest) /\ k - 1 = at /\ rest[k] # SLASH
      BY <1>1, <2>2
    <3> HIDE DEF k
    <3>2. h[k] = Append(h[at], rest[k])
      BY <3>1 DEF Names
    <3> QED
      BY <1>1, <3>2 DEF k
  <2>4. CASE at + 1 < Len(rest)
    <3> DEFINE k == at + 2
    <3>1. k \in 1 .. Len(rest) /\ k \in 0 .. Len(rest) /\ k - 1 = at + 1 /\ rest[k] = SLASH
      BY <1>1, <2>2, <2>4 DEF Separated
    <3>2. AfterPart(rest, at) = k
      BY <1>1, <2>2, <2>4, <1>4 DEF AfterPart
    <3> HIDE DEF k
    <3>3. h[k] = h[at + 1]
      BY <3>1 DEF Names
    <3>4. Append(parts, rest[at + 1]) \in Seq(PathNames)
      BY <1>1, <2>2, AppendType, Zenon
    <3>5. Len(Append(parts, rest[at + 1])) = Len(parts) + 1 /\ Len(parts) \in Nat
      BY <1>1
    <3>6. left - 2 \in Nat /\ (left - 2) + 1 + 2 * (Len(parts) + 1) = blocks
      <4> DEFINE len == Len(parts)
      <4>1. left \in Nat /\ left # 0 /\ left # 1 /\ len \in Nat /\ left + 1 + 2 * len = blocks
        BY <1>1, <1>4, <3>5, Zenon
      <4> HIDE DEF len
      <4>2. left - 2 \in Nat /\ (left - 2) + 1 + 2 * (len + 1) = blocks
        BY <4>1
      <4> QED
        BY <4>2 DEF len
    <3>7. r \in ParseStates(rest, h, blocks)
      <4> DEFINE new == Append(parts, rest[at + 1])
                 rem == left - 2
      <4>1. new = h[k] /\ new \in Seq(PathNames) /\ rem \in Nat /\ rem + 1 + 2 * Len(new) = blocks
        BY <2>3, <3>3, <3>4, <3>5, <3>6
      <4> HIDE DEF new, rem
      <4>2. Parsing(k, new, rem, TRUE) \in ParseStates(rest, h, blocks)
        BY <3>1, <4>1, ParsingType
      <4> QED
        BY <2>1, <3>2, <4>2 DEF new, rem
    <3> QED
      BY <3>7 DEF r
  <2>5. CASE ~(at + 1 < Len(rest))
    <3>1. AfterPart(rest, at) = at + 1
      BY <1>1, <2>2, <2>5, <1>4 DEF AfterPart
    <3>4. Append(parts, rest[at + 1]) \in Seq(PathNames)
      BY <1>1, <2>2, AppendType, Zenon
    <3>5. Len(Append(parts, rest[at + 1])) = Len(parts) + 1 /\ Len(parts) \in Nat
      BY <1>1
    <3>6. left - 2 \in Nat /\ (left - 2) + 1 + 2 * (Len(parts) + 1) = blocks
      <4> DEFINE len == Len(parts)
      <4>1. left \in Nat /\ left # 0 /\ left # 1 /\ len \in Nat /\ left + 1 + 2 * len = blocks
        BY <1>1, <1>4, <3>5, Zenon
      <4> HIDE DEF len
      <4>2. left - 2 \in Nat /\ (left - 2) + 1 + 2 * (len + 1) = blocks
        BY <4>1
      <4> QED
        BY <4>2 DEF len
    <3>7. r \in ParseStates(rest, h, blocks)
      <4> DEFINE new == Append(parts, rest[at + 1])
                 rem == left - 2
                 k == at + 1
      <4>1. new = h[k] /\ new \in Seq(PathNames) /\ rem \in Nat /\ rem + 1 + 2 * Len(new) = blocks
        BY <2>3, <3>4, <3>5, <3>6
      <4>2. k \in 0 .. Len(rest)
        BY <2>2, <1>1
      <4> HIDE DEF new, rem, k
      <4>3. Parsing(k, new, rem, TRUE) \in ParseStates(rest, h, blocks)
        BY <4>1, <4>2, ParsingType
      <4> QED
        BY <2>1, <3>1, <4>3 DEF new, rem, k
    <3> QED
      BY <3>7 DEF r
  <2> QED
    BY <2>4, <2>5
<1> QED
  BY <1>2, <1>3, <1>4

(* The loop of pathparser_parse. *)
LEMMA ParseLoop ==
    ASSUME NEW path, path.valid, path.rest \in Seq(PathNames), Len(path.rest) <= MaxPath,
           Separated(path.rest),
           NEW h, Names(h, path.rest), NEW blocks \in Nat \ {0}
    PROVE  \E end \in ParseStates(path.rest, h, blocks) :
              pathparser_parse(path, blocks) =
                  IF end.parts = <<>> THEN [parts |-> <<>>, free |-> end.free + 1]
                  ELSE [parts |-> end.parts, free |-> end.free]
<1> DEFINE rest == path.rest
           N == Len(rest) + 1
           T == ParseStates(rest, h, blocks)
           base == Parsing(0, <<>>, blocks - 1, TRUE)
           Part(s) == pathparser_parse_path_part(rest, s)
           step == [x \in T \X (1 .. N) |-> IF x[1].more THEN Part(x[1]) ELSE x[1]]
           Body(v) == [k \in 0 .. N |-> IF k = 0 THEN base
                                        ELSE IF v[k - 1].more THEN Part(v[k - 1]) ELSE v[k - 1]]
           f == CHOOSE v : v = Body(v)
<1>1. N \in Nat
  OBVIOUS
<1>2. base \in T
  <2>1. <<>> \in Seq(PathNames) /\ blocks - 1 \in Nat /\ 0 \in 0 .. Len(rest) /\ h[0] = <<>>
        /\ (blocks - 1) + 1 + 2 * Len(<<>>) = blocks
    BY DEF Names
  <2> QED
    BY <2>1, ParsingType
<1>3. ASSUME NEW s \in T, s.more PROVE Part(s) \in T
  BY <1>3, ParsePart
<1> HIDE DEF T, N, base, Part
<1>4. step \in [T \X (1 .. N) -> T]
  BY <1>3
<1>5. \A x \in T, k \in 1 .. N : step[<<x, k>>] = IF x.more THEN Part(x) ELSE x
  OBVIOUS
<1> HIDE DEF step
<1>6. PICK g : LoopValues(g, N, T, base, step)
  BY <1>1, <1>2, <1>4, LoopHasValues, Zenon
<1>7. ASSUME NEW k \in 0 .. N PROVE g[k] = Body(g)[k]
  <2>1. k # 0 => k \in 1 .. N /\ k - 1 \in 0 .. N
    BY <1>1
  <2> QED
    BY <1>5, <1>6, <2>1 DEF LoopValues
<1>8. g = Body(g)
  BY <1>6, <1>7 DEF LoopValues
<1>9. f = Body(f)
  BY <1>8
<1>10. pathparser_parse(path, blocks) =
         IF f[N].parts = <<>> THEN [parts |-> <<>>, free |-> f[N].free + 1]
         ELSE [parts |-> f[N].parts, free |-> f[N].free]
  <2>1. ~(~path.valid \/ Len(path.rest) > MaxPath \/ blocks = 0)
    BY PathAssumption
  <2>2. pathparser_parse(path, blocks) =
          IF ~path.valid \/ Len(path.rest) > MaxPath \/ blocks = 0
          THEN [parts |-> <<>>, free |-> blocks]
          ELSE IF f[N].parts = <<>>
          THEN [[parts |-> <<>>, free |-> blocks] EXCEPT !.free = f[N].free + 1]
          ELSE [parts |-> f[N].parts, free |-> f[N].free]
    BY DEF pathparser_parse, base, Part, N
  <2> HIDE DEF f
  <2> QED
    BY <2>1, <2>2
<1> HIDE DEF f
<1>11. f[0] = g[0]
  BY <1>1, <1>8, <1>9
<1>12. ASSUME NEW k \in 1 .. N, f[k - 1] = g[k - 1] PROVE f[k] = g[k]
  <2>1. k \in 0 .. N /\ k # 0
    BY <1>1
  <2>2. f[k] = Body(f)[k] /\ g[k] = Body(g)[k]
    BY <1>8, <1>9, Zenon
  <2>3. Body(f)[k] = Body(g)[k]
    BY <1>12, <2>1
  <2> QED
    BY <2>2, <2>3, Zenon
<1>13. f[N] = g[N]
  <2>1. Alike(f, g, N)
    BY <1>11, <1>12 DEF Alike
  <2>2. \A k \in 0 .. N : f[k] = g[k]
    <3>1. N \in Nat
      BY <1>1
    <3>2. Agree(f, g, N)
      BY <2>1, <3>1, LoopAgree, Zenon
    <3> QED
      BY <3>2 DEF Agree
  <2> QED
    BY <1>1, <2>2
<1>14. g[N] \in T
  BY <1>1, <1>6 DEF LoopValues
<1> QED
  BY <1>10, <1>13, <1>14 DEF T

(* What pathparser_parse gives: nothing, and the heap as it was; or the    *)
(* first names of the path, in as many blocks as they take.                *)
LEMMA PathParsed ==
    ASSUME NEW path \in Paths, NEW blocks \in Nat, NEW p, p = pathparser_parse(path, blocks)
    PROVE  /\ p.parts \in Seq(PathNames) /\ p.free \in Nat
           /\ p.parts = <<>> => p.free = blocks
           /\ p.parts # <<>> =>
                 /\ p.free + PathBlocks(p.parts) = blocks
                 /\ Len(p.parts) \in 1 .. Len(NamesOf(path))
                 /\ p.parts = SubSeq(NamesOf(path), 1, Len(p.parts))
                 /\ NamesOf(path) \in Seq(PathNames)
<1> DEFINE rest == path.rest
<1>1. rest \in Seq(PathNames) /\ Separated(rest) /\ path.valid \in BOOLEAN
  <2>1. PathShape(path)
    BY FilesAssumption
  <2>2. /\ rest \in Seq(STRING) /\ \A k \in DOMAIN rest : rest[k] # NoName
        /\ Separated(rest) /\ path.valid \in BOOLEAN
    BY <2>1 DEF PathShape, Separated
  <2>3. Len(rest) \in Nat /\ rest = [k \in 1 .. Len(rest) |-> rest[k]]
        /\ \A k \in 1 .. Len(rest) : rest[k] \in STRING /\ rest[k] # NoName
    BY <2>2
  <2>4. \A k \in 1 .. Len(rest) : rest[k] \in PathNames
    BY <2>3 DEF PathNames
  <2>5. rest \in Seq(PathNames)
    BY <2>3, <2>4
  <2> QED
    BY <2>2, <2>5
<1>2. PICK h : Names(h, rest) /\ \A n \in 0 .. Len(rest) : NamesUpTo(rest, n) = h[n]
  BY <1>1, NamesAreUpTo
<1>3. /\ Len(rest) \in Nat /\ NamesOf(path) = h[Len(rest)] /\ NamesOf(path) \in Seq(PathNames)
      /\ \A m \in 0 .. Len(rest) : h[m] \in Seq(PathNames)
  <2>1. Len(rest) \in Nat /\ Len(rest) \in 0 .. Len(rest)
    BY <1>1
  <2>2. h \in [0 .. Len(rest) -> Seq(PathNames)]
    BY <1>2 DEF Names
  <2>3. NamesOf(path) = NamesUpTo(rest, Len(rest))
    BY DEF NamesOf
  <2>4. NamesUpTo(rest, Len(rest)) = h[Len(rest)]
    BY <1>2, <2>1
  <2> QED
    BY <2>1, <2>2, <2>3, <2>4
<1>4. CASE ~path.valid \/ Len(rest) > MaxPath \/ blocks = 0
  <2>1. p = [parts |-> <<>>, free |-> blocks]
    BY <1>4 DEF pathparser_parse
  <2> QED
    BY <2>1
<1>5. CASE path.valid /\ ~(Len(rest) > MaxPath) /\ blocks # 0
  <2>1. blocks \in Nat \ {0} /\ Len(path.rest) <= MaxPath /\ path.valid
    BY <1>3, <1>5, PathAssumption
  <2>2. PICK end \in ParseStates(path.rest, h, blocks) :
          p = IF end.parts = <<>> THEN [parts |-> <<>>, free |-> end.free + 1]
              ELSE [parts |-> end.parts, free |-> end.free]
    BY <1>1, <1>2, <2>1, ParseLoop
  <2>3. /\ end.parts \in Seq(PathNames) /\ end.free \in Nat
        /\ end.free + 1 + 2 * Len(end.parts) = blocks
        /\ \E m \in 0 .. Len(rest) : end.parts = h[m]
    BY DEF ParseStates
  <2>4. CASE end.parts = <<>>
    <3>1. p.parts = <<>> /\ p.free = end.free + 1
      BY <2>2, <2>4
    <3>2. end.free + 1 = blocks
      BY <2>3, <2>4
    <3> QED
      BY <2>3, <3>1, <3>2
  <2>5. CASE end.parts # <<>>
    <3>1. p.parts = end.parts /\ p.free = end.free
      BY <2>2, <2>5
    <3>2. p.free + PathBlocks(p.parts) = blocks
      BY <2>3, <3>1 DEF PathBlocks
    <3>3. PICK m \in 0 .. Len(rest) : end.parts = h[m]
      BY <2>3
    <3>4. Len(h[m]) <= Len(h[Len(rest)]) /\ SubSeq(h[Len(rest)], 1, Len(h[m])) = h[m]
      <4>1. Len(rest) \in m .. Len(rest)
        BY <1>3
      <4> QED
        BY <1>1, <1>2, <4>1, NamesGrow
    <3>5. Len(end.parts) \in Nat \ {0}
      BY <2>3, <2>5
    <3>6. Len(p.parts) \in 1 .. Len(NamesOf(path))
      BY <1>3, <3>1, <3>3, <3>4, <3>5
    <3>7. p.parts = SubSeq(NamesOf(path), 1, Len(p.parts))
      BY <1>3, <3>1, <3>3, <3>4
    <3> QED
      BY <1>3, <2>3, <2>5, <3>1, <3>2, <3>6, <3>7
  <2> QED
    BY <2>4, <2>5
<1> QED
  BY <1>1, <1>4, <1>5

-------------------------------------------------------------------------------
(* Reading directories. *)

(* The slots of n clusters are slots of the volume. *)
LEMMA SlotsOfType ==
    ASSUME NEW vol, VolumeShape(vol), NEW n \in Nat, NEW cluster,
           \A k \in 0 .. n - 1 : cluster[k] \in ClusterIds
    PROVE  /\ SlotsOf(vol, cluster, n) \in Seq(SlotRecords)
           /\ Len(SlotsOf(vol, cluster, n)) = n * SlotsPerCluster
           /\ \A k \in 1 .. n * SlotsPerCluster : SlotsOf(vol, cluster, n)[k] \in EntriesOf(vol)
<1> DEFINE N == n * SlotsPerCluster
           C(k) == cluster[(k - 1) \div SlotsPerCluster]
           J(k) == ((k - 1) % SlotsPerCluster) + 1
<1>1. SlotsPerCluster \in Nat \ {0}
  BY DirectoryAssumption
<1>2. N \in Nat
  BY <1>1, ProductNat
<1>3. ASSUME NEW k \in 1 .. N PROVE C(k) \in ClusterIds /\ J(k) \in 1 .. SlotsPerCluster
  <2> DEFINE q == (k - 1) \div SlotsPerCluster
             r == (k - 1) % SlotsPerCluster
  <2>1. k - 1 \in Int /\ k - 1 >= 0 /\ k - 1 < N
    BY <1>2
  <2>2. r \in 0 .. SlotsPerCluster - 1 /\ q \in Int /\ k - 1 = SlotsPerCluster * q + r
    BY <1>1, <2>1, DivMod, Zenon
  <2> HIDE DEF q, r
  <2>3. SlotsPerCluster * q < SlotsPerCluster * n
    BY <1>1, <2>1, <2>2
  <2>4. SlotsPerCluster * (-1) < SlotsPerCluster * q
    BY <1>1, <2>1, <2>2
  <2>5. q < n
    BY <1>1, <2>2, <2>3, FactorOrder
  <2>6. -1 < q
    <3>1. -1 \in Int
      OBVIOUS
    <3> QED
      BY <1>1, <2>2, <2>4, <3>1, FactorOrder
  <2>7. q \in 0 .. n - 1 /\ r + 1 \in 1 .. SlotsPerCluster
    BY <1>1, <2>2, <2>5, <2>6
  <2> QED
    BY <2>7 DEF q, r
<1>4. SlotsOf(vol, cluster, n) = [k \in 1 .. N |-> vol.data[C(k)][J(k)]]
  BY DEF SlotsOf
<1> HIDE DEF N, C, J
<1>5. ASSUME NEW k \in 1 .. N
      PROVE  vol.data[C(k)][J(k)] \in SlotRecords /\ vol.data[C(k)][J(k)] \in EntriesOf(vol)
  <2>1. PICK c \in ClusterIds, j \in 1 .. SlotsPerCluster : c = C(k) /\ j = J(k)
    BY <1>3
  <2>2. vol.data[c] \in [1 .. SlotsPerCluster -> SlotRecords]
    BY DEF VolumeShape
  <2>3. vol.data[c][j] \in SlotRecords
    BY <2>2
  <2>4. vol.data[c][j] \in EntriesOf(vol)
    BY DEF EntriesOf
  <2> QED
    BY <2>1, <2>3, <2>4
<1> QED
  BY <1>2, <1>4, <1>5 DEF N

LEMMA OnDiskType ==
    ASSUME NEW vol, VolumeShape(vol), NEW c \in ClusterIds
    PROVE  OnDisk(vol, c) \in Seq(SlotRecords)
<1> DEFINE n == Clusters + 2 - c
           cluster == [k \in 0 .. Clusters + 1 - c |-> c + k]
<1>1. n \in Nat /\ \A k \in 0 .. n - 1 : cluster[k] \in ClusterIds
  BY DirectoryAssumption DEF ClusterIds
<1> HIDE DEF n, cluster
<1>2. SlotsOf(vol, cluster, n) \in Seq(SlotRecords)
  BY <1>1, SlotsOfType
<1> QED
  BY <1>2 DEF OnDisk, n, cluster

(* A chain goes from cluster to cluster. *)
LEMMA OfChainType ==
    ASSUME NEW vol, VolumeShape(vol), NEW c \in ClusterIds
    PROVE  /\ OfChain(vol, c) \in Seq(SlotRecords)
           /\ \A k \in DOMAIN OfChain(vol, c) : OfChain(vol, c)[k] \in EntriesOf(vol)
<1> DEFINE T == ClusterIds \cup {LastInFat}
           N == Clusters
           Next(x) == IF x = LastInFat THEN LastInFat ELSE vol.next[x]
           step == [x \in T \X (1 .. N) |-> Next(x[1])]
           Body(v) == [k \in 0 .. N |-> IF k = 0 THEN c ELSE Next(v[k - 1])]
           f == CHOOSE v : v = Body(v)
           ends == {k \in 0 .. N : f[k] = LastInFat}
           n == Min(ends \cup {N})
<1>1. N \in Nat /\ c \in T
  BY DirectoryAssumption
<1>2. \A x \in T : Next(x) \in T
  BY DEF VolumeShape
<1> HIDE DEF T, N, Next
<1>3. step \in [T \X (1 .. N) -> T]
  BY <1>2
<1>4. \A x \in T, k \in 1 .. N : step[<<x, k>>] = Next(x)
  OBVIOUS
<1> HIDE DEF step
<1>5. PICK g : LoopValues(g, N, T, c, step)
  BY <1>1, <1>3, LoopHasValues, Zenon
<1>6. ASSUME NEW k \in 0 .. N PROVE g[k] = Body(g)[k]
  <2>1. k # 0 => k \in 1 .. N /\ k - 1 \in 0 .. N
    BY <1>1
  <2> QED
    BY <1>4, <1>5, <2>1 DEF LoopValues
<1>7. g = Body(g)
  BY <1>5, <1>6 DEF LoopValues
<1>8. f = Body(f)
  BY <1>7
<1>9. OfChain(vol, c) = SlotsOf(vol, f, n)
  BY DEF OfChain, Next, N
<1> HIDE DEF f
<1>10. f[0] = g[0]
  BY <1>1, <1>7, <1>8
<1>11. ASSUME NEW k \in 1 .. N, f[k - 1] = g[k - 1] PROVE f[k] = g[k]
  <2>1. k \in 0 .. N /\ k # 0
    BY <1>1
  <2>2. f[k] = Body(f)[k] /\ g[k] = Body(g)[k]
    BY <1>7, <1>8, Zenon
  <2>3. Body(f)[k] = Body(g)[k]
    BY <1>11, <2>1
  <2> QED
    BY <2>2, <2>3, Zenon
<1>12. \A k \in 0 .. N : f[k] \in T
  <2>1. Alike(f, g, N)
    BY <1>10, <1>11 DEF Alike
  <2>2. \A k \in 0 .. N : f[k] = g[k]
    <3>1. N \in Nat
      BY <1>1
    <3>2. Agree(f, g, N)
      BY <2>1, <3>1, LoopAgree, Zenon
    <3> QED
      BY <3>2 DEF Agree
  <2> QED
    BY <1>1, <1>5, <2>2 DEF LoopValues
<1>13. n \in ends \cup {N} /\ \A k \in ends \cup {N} : n <= k
  <2>1. ends \cup {N} \subseteq Nat /\ ends \cup {N} # {}
    BY <1>1
  <2> HIDE DEF ends
  <2> QED
    BY <2>1, MinElement
<1> HIDE DEF n
<1>14. n \in 0 .. N
  BY <1>1, <1>13
<1>15. ASSUME NEW k \in 0 .. n - 1 PROVE f[k] \in ClusterIds
  <2>1. k \in 0 .. N /\ ~(n <= k)
    BY <1>1, <1>14
  <2>2. f[k] # LastInFat
    BY <1>13, <2>1
  <2> QED
    BY <1>12, <2>1, <2>2 DEF T
<1>16. n \in Nat
  BY <1>14
<1> DEFINE slots == SlotsOf(vol, f, n)
<1>17. /\ slots \in Seq(SlotRecords) /\ Len(slots) = n * SlotsPerCluster
       /\ \A k \in 1 .. n * SlotsPerCluster : slots[k] \in EntriesOf(vol)
  BY <1>15, <1>16, SlotsOfType
<1> HIDE DEF slots
<1>18. DOMAIN slots = 1 .. n * SlotsPerCluster
  BY <1>17
<1> QED
  BY <1>9, <1>17, <1>18 DEF slots

(* UpToEnd is what comes before the first end mark. *)
LEMMA UpToEndIs ==
    ASSUME NEW slots \in Seq(SlotRecords), NEW u, u = UpToEnd(slots)
    PROVE  /\ u \in Seq(SlotRecords) /\ Len(u) <= Len(slots)
           /\ \A k \in 1 .. Len(u) : u[k] = slots[k] /\ slots[k].kind # "end"
           /\ Len(u) < Len(slots) => slots[Len(u) + 1].kind = "end"
           /\ u = SubSeq(slots, 1, Len(u))
<1> DEFINE I == {k \in 1 .. Len(slots) : slots[k].kind = "end"}
           m == Min(I)
<1>1. Len(slots) \in Nat /\ DOMAIN slots = 1 .. Len(slots)
  OBVIOUS
<1>2. u = IF I # {} THEN SubSeq(slots, 1, m - 1) ELSE slots
  <2>1. (\E k \in DOMAIN slots : slots[k].kind = "end") <=> I # {}
    BY <1>1
  <2>2. I # {} => SelectInSeq(slots, LAMBDA s : s.kind = "end") = m
    BY DEF SelectInSeq
  <2> QED
    BY <2>1, <2>2 DEF UpToEnd
<1>3. CASE I = {}
  <2>1. u = slots /\ \A k \in 1 .. Len(slots) : slots[k].kind # "end"
    BY <1>2, <1>3
  <2> QED
    BY <1>1, <2>1
<1>4. CASE I # {}
  <2>1. m \in I /\ \A k \in I : m <= k
    <3>1. I \subseteq Nat
      BY <1>1
    <3> HIDE DEF I
    <3> QED
      BY <1>4, <3>1, MinElement
  <2> HIDE DEF m
  <2>2. m \in 1 .. Len(slots) /\ slots[m].kind = "end"
    BY <2>1
  <2>3. ASSUME NEW k \in 1 .. m - 1 PROVE slots[k].kind # "end"
    <3>1. k \in 1 .. Len(slots) /\ ~(m <= k)
      BY <1>1, <2>2
    <3> QED
      BY <2>1, <3>1
  <2>4. u = SubSeq(slots, 1, m - 1) /\ m - 1 \in 0 .. Len(slots) /\ (m - 1) + 1 = m
    BY <1>1, <1>2, <1>4, <2>2
  <2>5. u \in Seq(SlotRecords) /\ Len(u) = m - 1 /\ \A k \in 1 .. m - 1 : u[k] = slots[k]
    BY <1>1, <2>4
  <2>6. Len(u) + 1 = m /\ Len(u) <= Len(slots)
    BY <1>1, <2>2, <2>5
  <2> HIDE DEF I
  <2> QED
    BY <2>2, <2>3, <2>4, <2>5, <2>6
<1> QED
  BY <1>3, <1>4

(* The first end mark is the same for two sequences that agree up to it. *)
LEMMA UpToEndSame ==
    ASSUME NEW s \in Seq(SlotRecords), NEW t \in Seq(SlotRecords), Len(s) <= Len(t),
           \A k \in 1 .. Len(s) : t[k] = s[k], \E k \in DOMAIN s : s[k].kind = "end"
    PROVE  UpToEnd(t) = UpToEnd(s)
<1> DEFINE u == UpToEnd(s)
           v == UpToEnd(t)
<1>1. /\ u \in Seq(SlotRecords) /\ Len(u) <= Len(s)
      /\ \A k \in 1 .. Len(u) : u[k] = s[k] /\ s[k].kind # "end"
      /\ Len(u) < Len(s) => s[Len(u) + 1].kind = "end"
  BY UpToEndIs
<1>2. /\ v \in Seq(SlotRecords) /\ Len(v) <= Len(t)
      /\ \A k \in 1 .. Len(v) : v[k] = t[k] /\ t[k].kind # "end"
      /\ Len(v) < Len(t) => t[Len(v) + 1].kind = "end"
  BY UpToEndIs
<1> HIDE DEF u, v
<1>3. Len(u) \in Nat /\ Len(v) \in Nat /\ Len(s) \in Nat /\ Len(t) \in Nat
  BY <1>1, <1>2
<1>4. Len(u) < Len(s)
  <2>1. PICK k \in 1 .. Len(s) : s[k].kind = "end"
    OBVIOUS
  <2> QED
    BY <1>1, <1>3, <2>1
<1>5. ~(Len(v) > Len(u))
  <2> SUFFICES ASSUME Len(v) > Len(u) PROVE FALSE
    OBVIOUS
  <2> DEFINE k == Len(u) + 1
  <2>1. k \in 1 .. Len(v) /\ k \in 1 .. Len(s) /\ s[k].kind = "end"
    BY <1>1, <1>3, <1>4
  <2> HIDE DEF k
  <2> QED
    BY <1>2, <2>1
<1>6. ~(Len(v) < Len(u))
  <2> SUFFICES ASSUME Len(v) < Len(u) PROVE FALSE
    OBVIOUS
  <2> DEFINE k == Len(v) + 1
  <2>1. k \in 1 .. Len(u) /\ k \in 1 .. Len(s) /\ t[k].kind = "end"
    BY <1>1, <1>2, <1>3, <1>4
  <2> HIDE DEF k
  <2> QED
    BY <1>1, <2>1
<1>7. Len(u) = Len(v)
  BY <1>3, <1>5, <1>6
<1>8. \A k \in 1 .. Len(u) : u[k] = v[k]
  BY <1>1, <1>2, <1>3, <1>7
<1> QED
  BY <1>1, <1>2, <1>7, <1>8 DEF u, v

(* The count of a directory is at most the entries before its end mark,    *)
(* and just those when none of them is deleted.                            *)
LEMMA TotalIs ==
    ASSUME NEW slots \in Seq(SlotRecords)
    PROVE  /\ fat16_get_total_items_for_directory(slots) \in 0 .. Len(UpToEnd(slots))
           /\ (\A k \in DOMAIN UpToEnd(slots) : slots[k].kind # "deleted") =>
                 fat16_get_total_items_for_directory(slots) = Len(UpToEnd(slots))
<1> DEFINE u == UpToEnd(slots)
           A == {k \in DOMAIN u : slots[k].kind # "deleted"}
<1>1. u \in Seq(SlotRecords)
  BY UpToEndIs
<1>2. fat16_get_total_items_for_directory(slots) = Cardinality(A)
  BY DEF fat16_get_total_items_for_directory
<1> HIDE DEF u
<1>3. Len(u) \in Nat /\ DOMAIN u = 1 .. Len(u)
  BY <1>1
<1>4. IsFiniteSet(1 .. Len(u)) /\ Cardinality(1 .. Len(u)) = Len(u)
  <2>1. 1 \in Int /\ Len(u) \in Int /\ Len(u) - 1 + 1 = Len(u) /\ (1 > Len(u) => Len(u) = 0)
    BY <1>3
  <2> QED
    BY <2>1, FS_Interval
<1>5. A \subseteq 1 .. Len(u)
  BY <1>3
<1> HIDE DEF A
<1>6. Cardinality(A) \in Nat /\ Cardinality(A) <= Len(u)
  BY <1>4, <1>5, FS_Subset, FS_CardinalityType
<1>7. (\A k \in DOMAIN u : slots[k].kind # "deleted") => A = 1 .. Len(u)
  BY <1>3 DEF A
<1> QED
  BY <1>2, <1>3, <1>4, <1>6, <1>7 DEF u

-------------------------------------------------------------------------------
(* Items. *)

Items == [type : {"none", "file", "directory"}, ptr : {"ok", "null", "freed"},
          entry : SlotRecords, dir : [items : Seq(SlotRecords), total : Nat]]

(* What is behind a directory that could be loaded: as many slots of its   *)
(* chain as were counted.                                                  *)
Loaded(vol, entry, dir) ==
    /\ entry.kind = "dir"
    /\ dir.total = fat16_get_total_items_for_directory(OnDisk(vol, entry.cluster))
    /\ dir.total <= Len(OfChain(vol, entry.cluster))
    /\ dir.items = SubSeq(OfChain(vol, entry.cluster), 1, dir.total)

LEMMA NoItemType == EndMark \in SlotRecords /\ NoItem \in Items
<1>1. EndMark \in SlotRecords
  <2>1. EndMark = [kind |-> "end", name |-> NoName, cluster |-> 0]
    BY DEF EndMark, Slot
  <2>2. "end" \in Kinds /\ NoName \in STRING \cup {NoName} /\ 0 \in Nat
    BY DEF Kinds
  <2> HIDE DEF EndMark
  <2>3. EndMark \in [kind : Kinds, name : STRING \cup {NoName}, cluster : Nat]
    BY <2>1, <2>2
  <2>4. EndMark.kind = "end" /\ EndMark.name = NoName
    BY <2>1
  <2> QED
    BY <2>3, <2>4 DEF SlotRecords
<1> QED
  BY <1>1 DEF NoItem, Items

LEMMA LoadIs ==
    ASSUME NEW vol, VolumeShape(vol), NEW entry \in SlotRecords, entry.kind = "dir",
           NEW blocks \in Nat, NEW d, d = fat16_load_fat_directory(vol, entry, blocks)
    PROVE  /\ d.items \in Seq(SlotRecords) /\ d.total \in Nat
           /\ \/ /\ d.ptr = "ok" /\ blocks >= 2 /\ d.free = blocks - 2
                 /\ Loaded(vol, entry, [items |-> d.items, total |-> d.total])
              \/ /\ d.ptr \in {"null", "freed"} /\ d.free = blocks
                 /\ \/ blocks < 2
                    \/ fat16_get_total_items_for_directory(OnDisk(vol, entry.cluster))
                          > Len(OfChain(vol, entry.cluster))
<1> DEFINE total == fat16_get_total_items_for_directory(OnDisk(vol, entry.cluster))
           slots == OfChain(vol, entry.cluster)
<1>1. entry.cluster \in ClusterIds
  BY DEF SlotRecords
<1>2. total \in Nat /\ slots \in Seq(SlotRecords) /\ Len(slots) \in Nat
  <2>1. OnDisk(vol, entry.cluster) \in Seq(SlotRecords)
    BY <1>1, OnDiskType
  <2>2. total \in 0 .. Len(UpToEnd(OnDisk(vol, entry.cluster)))
    BY <2>1, TotalIs
  <2>3. slots \in Seq(SlotRecords)
    BY <1>1, OfChainType
  <2> HIDE DEF slots, total
  <2> QED
    BY <2>2, <2>3
<1>3. d = IF blocks = 0 THEN [ptr |-> "null", items |-> <<>>, total |-> 0, free |-> blocks]
          ELSE IF blocks = 1 \/ total > Len(slots)
          THEN [ptr |-> "freed", items |-> <<>>, total |-> 0, free |-> blocks]
          ELSE [ptr |-> "ok", items |-> SubSeq(slots, 1, total), total |-> total, free |-> blocks - 2]
  BY DEF fat16_load_fat_directory
<1>4. <<>> \in Seq(SlotRecords) /\ 0 \in Nat
  OBVIOUS
<1> HIDE DEF total, slots
<1>5. CASE blocks = 0
  BY <1>3, <1>4, <1>5
<1>6. CASE blocks # 0 /\ (blocks = 1 \/ total > Len(slots))
  BY <1>3, <1>4, <1>6 DEF total, slots
<1>7. CASE blocks # 0 /\ ~(blocks = 1 \/ total > Len(slots))
  <2>1. d.ptr = "ok" /\ d.items = SubSeq(slots, 1, total) /\ d.total = total /\ d.free = blocks - 2
    <3>1. d = [ptr |-> "ok", items |-> SubSeq(slots, 1, total), total |-> total, free |-> blocks - 2]
      BY <1>3, <1>7, Zenon
    <3> DEFINE some == SubSeq(slots, 1, total)
    <3>2. d = [ptr |-> "ok", items |-> some, total |-> total, free |-> blocks - 2]
      BY <3>1
    <3> HIDE DEF some
    <3>3. d.ptr = "ok" /\ d.items = some /\ d.total = total /\ d.free = blocks - 2
      BY <3>2
    <3> QED
      BY <3>3 DEF some
  <2>2. blocks >= 2 /\ total <= Len(slots)
    BY <1>2, <1>7
  <2>3. SubSeq(slots, 1, total) \in Seq(SlotRecords)
    BY <1>2, <2>2
  <2>4. Loaded(vol, entry, [items |-> d.items, total |-> d.total])
    BY <2>1, <2>2 DEF Loaded, total, slots
  <2> QED
    BY <1>2, <2>1, <2>2, <2>3, <2>4
<1> QED
  BY <1>5, <1>6, <1>7

(* What fat16_new_fat_item_for_directory_item makes of an entry. *)
ItemFor(vol, entry, blocks, r) ==
    /\ r.item \in Items /\ r.free \in Nat /\ Found(r.item)
    /\ r.free + Blocks(r.item) = blocks
    /\ r.item.entry = entry
    /\ r.item.type = "directory" <=> entry.kind = "dir"
    /\ r.item.type = "directory" /\ r.item.ptr = "ok" => Loaded(vol, entry, r.item.dir)
    /\ blocks >= 3 /\ (entry.kind = "dir" =>
                          fat16_get_total_items_for_directory(OnDisk(vol, entry.cluster))
                             <= Len(OfChain(vol, entry.cluster)))
          => r.item.ptr = "ok"

LEMMA NewItem ==
    ASSUME NEW vol, VolumeShape(vol), NEW entry \in SlotRecords, NEW blocks \in Nat,
           NEW r, r = fat16_new_fat_item(vol, entry, blocks)
    PROVE  IF blocks = 0 THEN r = [item |-> NoItem, free |-> 0] ELSE ItemFor(vol, entry, blocks, r)
<1> DEFINE d == fat16_load_fat_directory(vol, entry, blocks - 1)
           total == fat16_get_total_items_for_directory(OnDisk(vol, entry.cluster))
           slots == OfChain(vol, entry.cluster)
<1>1. CASE blocks = 0
  BY <1>1 DEF fat16_new_fat_item
<1>2. CASE blocks # 0 /\ entry.kind = "dir"
  <2>1. r = [item |-> [type |-> "directory", ptr |-> d.ptr, entry |-> entry,
                       dir |-> [items |-> d.items, total |-> d.total]],
             free |-> d.free]
    BY <1>2 DEF fat16_new_fat_item, NoItem
  <2>2. blocks - 1 \in Nat
    BY <1>2
  <2>3. /\ d.items \in Seq(SlotRecords) /\ d.total \in Nat
        /\ \/ /\ d.ptr = "ok" /\ blocks - 1 >= 2 /\ d.free = (blocks - 1) - 2
              /\ Loaded(vol, entry, [items |-> d.items, total |-> d.total])
           \/ /\ d.ptr \in {"null", "freed"} /\ d.free = blocks - 1
              /\ blocks - 1 < 2 \/ total > Len(slots)
    BY <1>2, <2>2, LoadIs
  <2>4. total \in Nat /\ Len(slots) \in Nat
    <3>1. entry.cluster \in ClusterIds
      BY <1>2 DEF SlotRecords
    <3>2. OnDisk(vol, entry.cluster) \in Seq(SlotRecords) /\ slots \in Seq(SlotRecords)
      BY <3>1, OnDiskType, OfChainType
    <3>3. total \in 0 .. Len(UpToEnd(OnDisk(vol, entry.cluster)))
      BY <3>2, TotalIs
    <3> HIDE DEF total, slots
    <3> QED
      BY <3>2, <3>3
  <2> HIDE DEF d, total, slots
  <2>5. r.item \in Items /\ Found(r.item)
    BY <2>1, <2>3 DEF Items, Found
  <2>6. r.free \in Nat /\ r.free + Blocks(r.item) = blocks
    BY <2>1, <2>2, <2>3 DEF Blocks
  <2>7. blocks >= 3 /\ total <= Len(slots) => r.item.ptr = "ok"
    BY <2>1, <2>2, <2>3, <2>4
  <2>8. r.item.ptr = "ok" => Loaded(vol, entry, r.item.dir)
    BY <2>1, <2>3
  <2>9. r.item.entry = entry /\ r.item.type = "directory"
    BY <2>1
  <2> QED
    BY <1>2, <2>5, <2>6, <2>7, <2>8, <2>9 DEF ItemFor, total, slots
<1>3. CASE blocks # 0 /\ entry.kind # "dir"
  <2>1. r = [item |-> [type |-> "file", ptr |-> IF blocks > 1 THEN "ok" ELSE "null",
                       entry |-> entry, dir |-> NoItem.dir],
             free |-> IF blocks > 1 THEN blocks - 2 ELSE 0]
    BY <1>3 DEF fat16_new_fat_item, NoItem
  <2>2. NoItem.dir \in [items : Seq(SlotRecords), total : Nat]
    BY NoItemType DEF Items
  <2>3. r.item \in Items /\ Found(r.item)
    BY <2>1, <2>2 DEF Items, Found
  <2>4. r.free \in Nat /\ r.free + Blocks(r.item) = blocks
    BY <1>3, <2>1 DEF Blocks
  <2> QED
    BY <1>3, <2>1, <2>3, <2>4 DEF ItemFor
<1> QED
  BY <1>1, <1>2, <1>3

(* fat16_find_item_in_directory makes an item of the only entry with the   *)
(* name among the entries that were counted, if there is one.              *)
LEMMA FindIs ==
    ASSUME NEW vol, VolumeShape(vol), NEW dir, dir.items \in Seq(SlotRecords), dir.total \in Nat,
           dir.total <= Len(dir.items), NEW name, NEW blocks \in Nat,
           \A j, k \in 1 .. Len(dir.items) :
              dir.items[j].name = name /\ dir.items[k].name = name => j = k,
           NEW r, r = fat16_find_item_in_directory(vol, dir, name, blocks)
    PROVE  \/ \E i \in 1 .. Len(dir.items) : /\ i <= dir.total /\ dir.items[i].name = name
                                             /\ r = fat16_new_fat_item(vol, dir.items[i], blocks)
           \/ /\ \A i \in 1 .. Len(dir.items) : i <= dir.total => dir.items[i].name # name
              /\ r = [item |-> NoItem, free |-> blocks]
<1> DEFINE N == dir.total
           L == Len(dir.items)
           new(i, b) == fat16_new_fat_item(vol, dir.items[i], b)
           base == [item |-> NoItem, free |-> blocks]
           T == {base} \cup {new(y[1], y[2]) : y \in (1 .. L) \X Nat}
           Match(i) == dir.items[i].name = name
           step == [x \in T \X (1 .. N) |-> IF Match(x[2]) THEN new(x[2], x[1].free) ELSE x[1]]
           Body(v) == [i \in 0 .. N |-> IF i = 0 THEN base
                                        ELSE IF Match(i) THEN new(i, v[i - 1].free) ELSE v[i - 1]]
           f == CHOOSE v : v = Body(v)
<1>1. N \in Nat /\ L \in Nat /\ N <= L /\ base \in T /\ \A i \in 1 .. L : dir.items[i] \in SlotRecords
  OBVIOUS
<1>2. ASSUME NEW i \in 1 .. L, NEW b \in Nat PROVE new(i, b).free \in Nat
  <2> DEFINE q == new(i, b)
  <2>1. IF b = 0 THEN q = [item |-> NoItem, free |-> 0] ELSE ItemFor(vol, dir.items[i], b, q)
    BY <1>1, NewItem
  <2> HIDE DEF q
  <2>2. q.free \in Nat
    BY <2>1 DEF ItemFor
  <2> QED
    BY <2>2 DEF q
<1> HIDE DEF new
<1>3. ASSUME NEW x \in T PROVE x.free \in Nat
  <2>1. CASE x = base
    BY <2>1
  <2>2. CASE x # base
    <3> HIDE DEF base, L
    <3>1. PICK y \in (1 .. L) \X Nat : x = new(y[1], y[2])
      BY <2>2, Zenon
    <3>2. y[1] \in 1 .. L /\ y[2] \in Nat
      OBVIOUS
    <3> QED
      BY <1>2, <3>1, <3>2
  <2> QED
    BY <2>1, <2>2
<1>4. ASSUME NEW x \in T, NEW i \in 1 .. N PROVE (IF Match(i) THEN new(i, x.free) ELSE x) \in T
  <2>1. CASE Match(i)
    <3>1. i \in 1 .. L /\ x.free \in Nat
      BY <1>1, <1>3, <2>1
    <3>2. new(i, x.free) \in T
      <4> HIDE DEF base, L
      <4> DEFINE y == <<i, x.free>>
      <4>1. y \in (1 .. L) \X Nat /\ y[1] = i /\ y[2] = x.free
        BY <3>1
      <4> HIDE DEF y
      <4>2. new(y[1], y[2]) \in T
        BY <4>1, Zenon
      <4> QED
        BY <4>1, <4>2
    <3> QED
      BY <2>1, <3>2
  <2>2. CASE ~Match(i)
    BY <2>2
  <2> QED
    BY <2>1, <2>2
<1> HIDE DEF T, N, L, base, Match
<1>5. step \in [T \X (1 .. N) -> T]
  BY <1>4
<1>6. \A x \in T, i \in 1 .. N : step[<<x, i>>] = IF Match(i) THEN new(i, x.free) ELSE x
  OBVIOUS
<1> HIDE DEF step
<1>7. PICK g : LoopValues(g, N, T, base, step)
  BY <1>1, <1>5, LoopHasValues, Zenon
<1>8. ASSUME NEW k \in 0 .. N PROVE g[k] = Body(g)[k]
  <2>1. k # 0 => k \in 1 .. N /\ k - 1 \in 0 .. N
    BY <1>1
  <2> QED
    BY <1>6, <1>7, <2>1 DEF LoopValues
<1>9. g = Body(g)
  BY <1>7, <1>8 DEF LoopValues
<1>10. f = Body(f)
  BY <1>9
<1>11. r = f[N]
  BY DEF fat16_find_item_in_directory, N, base, Match, new
<1> HIDE DEF f
<1>12. f[0] = base
  BY <1>1, <1>10
<1> DEFINE Is(v, n) == \/ \E i \in 1 .. L : i <= n /\ dir.items[i].name = name /\ v = new(i, blocks)
                       \/ (\A i \in 1 .. L : i <= n => dir.items[i].name # name) /\ v = base
           S == {n \in 0 .. N : Is(f[n], n)}
<1>13. 0 \in S
  BY <1>1, <1>12
<1>14. ASSUME NEW k \in S \cap (0 .. N - 1) PROVE k + 1 \in S
  <2> DEFINE n == k + 1
  <2>1. n \in 1 .. N /\ n \in 0 .. N /\ n # 0 /\ n - 1 = k /\ k \in Nat /\ Is(f[k], k)
    BY <1>1
  <2>2. \A i \in Int : i <= n <=> i <= k \/ i = n
    BY <2>1
  <2> HIDE DEF n
  <2>3. f[n] = IF Match(n) THEN new(n, f[k].free) ELSE f[k]
    <3>1. f[n] = Body(f)[n]
      BY <1>10, Zenon
    <3> QED
      BY <2>1, <3>1
  <2>4. CASE Match(n)
    <3>1. n \in 1 .. L /\ dir.items[n].name = name
      BY <1>1, <2>1, <2>4 DEF Match, L
    <3>2. ASSUME NEW i \in 1 .. L, i <= k PROVE dir.items[i].name # name
      <4>1. i # n
        BY <2>1, <3>2
      <4> QED
        BY <3>1, <4>1 DEF L
    <3>3. f[k] = base
      BY <2>1, <3>2
    <3>4. f[n] = new(n, blocks)
      BY <2>3, <2>4, <3>3 DEF base
    <3>5. n <= n
      BY <2>1
    <3>6. Is(f[n], n)
      BY <3>1, <3>4, <3>5
    <3> QED
      BY <2>1, <3>6 DEF n
  <2>5. CASE ~Match(n)
    <3>1. \A i \in 1 .. L : i = n => dir.items[i].name # name
      BY <1>1, <2>5 DEF Match, L
    <3>2. f[n] = f[k]
      BY <2>3, <2>5
    <3>3. Is(f[n], n)
      <4>1. CASE \E i \in 1 .. L : i <= k /\ dir.items[i].name = name /\ f[k] = new(i, blocks)
        BY <2>2, <3>2, <4>1
      <4>2. CASE (\A i \in 1 .. L : i <= k => dir.items[i].name # name) /\ f[k] = base
        BY <2>2, <3>1, <3>2, <4>2
      <4> QED
        BY <2>1, <4>1, <4>2
    <3> QED
      BY <2>1, <3>3 DEF n
  <2> QED
    BY <2>4, <2>5
<1>15. 0 .. N \subseteq S
  <2> HIDE DEF S
  <2> QED
    BY <1>1, <1>13, <1>14, Induction
<1>16. Is(f[N], N)
  <2>1. N \in S
    <3> HIDE DEF S
    <3>1. N \in 0 .. N
      BY <1>1
    <3> QED
      BY <1>15, <3>1
  <2> HIDE DEF Is
  <2> QED
    BY <2>1
<1> QED
  BY <1>11, <1>16 DEF N, L, new, base

-------------------------------------------------------------------------------
(* Searching a directory. *)

LEMMA AmongIs ==
    ASSUME NEW slots \in Seq(SlotRecords), NEW name
    PROVE  \/ /\ \A k \in 1 .. Len(slots) : slots[k].name # name
              /\ Among(slots, name) = EndMark
           \/ \E k \in 1 .. Len(slots) : slots[k].name = name /\ Among(slots, name) = slots[k]
<1> DEFINE I == {k \in 1 .. Len(slots) : slots[k].name = name}
           m == Min(I)
<1>1. Len(slots) \in Nat /\ DOMAIN slots = 1 .. Len(slots)
  OBVIOUS
<1>2. Among(slots, name) = IF I # {} THEN slots[m] ELSE EndMark
  <2>1. (\E k \in DOMAIN slots : slots[k].name = name) <=> I # {}
    BY <1>1
  <2>2. I # {} => SelectInSeq(slots, LAMBDA s : s.name = name) = m
    BY DEF SelectInSeq
  <2> QED
    BY <2>1, <2>2 DEF Among
<1>3. I # {} => m \in I
  <2>1. I \subseteq Nat
    BY <1>1
  <2> HIDE DEF I
  <2> QED
    BY <2>1, MinElement
<1> QED
  BY <1>2, <1>3

(* A name in a sound directory is before its end mark, and it is there     *)
(* once.                                                                   *)
LEMMA SoundNames ==
    ASSUME NEW all \in Seq(SlotRecords), SoundSlots(all), NEW name \in PathNames
    PROVE  /\ \A j, k \in 1 .. Len(all) : all[j].name = name /\ all[k].name = name => j = k
           /\ \A k \in 1 .. Len(all) : all[k].name = name => k <= Len(UpToEnd(all))
<1>1. name # NoName
  BY DEF PathNames
<1>2. Len(all) \in Nat /\ DOMAIN all = 1 .. Len(all)
  OBVIOUS
<1>3. ASSUME NEW j \in 1 .. Len(all), NEW k \in 1 .. Len(all), all[j].name = name, all[k].name = name
      PROVE  j = k
  BY <1>1, <1>2, <1>3 DEF SoundSlots
<1>4. ASSUME NEW k \in 1 .. Len(all), all[k].name = name, ~(k <= Len(UpToEnd(all)))
      PROVE  FALSE
  <2> DEFINE u == UpToEnd(all)
             j == Len(u) + 1
  <2>1. u \in Seq(SlotRecords) /\ (Len(u) < Len(all) => all[j].kind = "end")
    BY UpToEndIs
  <2> HIDE DEF u
  <2>2. Len(u) \in Nat
    BY <2>1
  <2>3. j \in 1 .. Len(all) /\ j <= k /\ all[j].kind = "end"
    BY <1>2, <1>4, <2>1, <2>2 DEF u
  <2> HIDE DEF j
  <2>4. CASE j = k
    <3>1. all[k] \in SlotRecords
      BY <1>2
    <3>2. all[k].name = NoName
      BY <2>3, <2>4, <3>1 DEF SlotRecords
    <3> QED
      BY <1>1, <1>4, <3>2
  <2>5. CASE j < k
    <3>1. all[k].name = NoName
      BY <1>2, <2>3, <2>5 DEF SoundSlots
    <3> QED
      BY <1>1, <1>4, <3>1
  <2> QED
    BY <1>2, <2>3, <2>4, <2>5
<1> QED
  BY <1>3, <1>4

(* What a search of dir, loaded from the entries all, comes to: r is the   *)
(* item of the entry e the name stands for, or nothing, and nothing only   *)
(* when the heap is full, entries are missing or there is no such entry.   *)
Searched(vol, all, dir, blocks, e, r) ==
    \/ /\ blocks # 0 /\ ItemFor(vol, e, blocks, r)
       /\ \E k \in 1 .. Len(all) : e = all[k]
    \/ /\ r = [item |-> NoItem, free |-> blocks]
       /\ ~(/\ dir.total >= Len(UpToEnd(all)) /\ Len(dir.items) >= Len(UpToEnd(all))
            /\ blocks # 0 /\ e # EndMark)

(* What is found among the first entries of a sound directory is what the  *)
(* name stands for in it, and it is found when the heap has a block and    *)
(* all entries are there.                                                  *)
LEMMA SearchFinds ==
    ASSUME NEW vol, VolumeShape(vol), NEW all \in Seq(SlotRecords), SoundSlots(all),
           NEW dir, dir.items \in Seq(SlotRecords), dir.total \in Nat,
           dir.total <= Len(dir.items), Len(dir.items) <= Len(all),
           \A k \in 1 .. Len(dir.items) : dir.items[k] = all[k],
           NEW name \in PathNames, NEW blocks \in Nat,
           NEW r, r = fat16_find_item_in_directory(vol, dir, name, blocks),
           NEW e, e = Among(UpToEnd(all), name)
    PROVE  Searched(vol, all, dir, blocks, e, r)
<1> DEFINE u == UpToEnd(all)
           L == Len(dir.items)
<1>1. /\ u \in Seq(SlotRecords) /\ Len(u) <= Len(all)
      /\ \A k \in 1 .. Len(u) : u[k] = all[k]
  BY UpToEndIs
<1>2. \/ (\A k \in 1 .. Len(u) : u[k].name # name) /\ e = EndMark
      \/ \E k \in 1 .. Len(u) : u[k].name = name /\ e = u[k]
  BY <1>1, AmongIs
<1>3. /\ \A j, k \in 1 .. Len(all) : all[j].name = name /\ all[k].name = name => j = k
      /\ \A k \in 1 .. Len(all) : all[k].name = name => k <= Len(u)
  BY SoundNames
<1> HIDE DEF u
<1>4. Len(u) \in Nat /\ Len(all) \in Nat /\ L \in Nat
  BY <1>1
<1>5. \A j, k \in 1 .. L : dir.items[j].name = name /\ dir.items[k].name = name => j = k
  <2>1. \A k \in 1 .. L : k \in 1 .. Len(all) /\ dir.items[k] = all[k]
    BY <1>4
  <2> HIDE DEF L
  <2> QED
    BY <1>3, <2>1
<1>6. \/ \E i \in 1 .. L : /\ i <= dir.total /\ dir.items[i].name = name
                           /\ r = fat16_new_fat_item(vol, dir.items[i], blocks)
      \/ /\ \A i \in 1 .. L : i <= dir.total => dir.items[i].name # name
         /\ r = [item |-> NoItem, free |-> blocks]
  BY <1>5, FindIs
<1>7. CASE \E i \in 1 .. L : /\ i <= dir.total /\ dir.items[i].name = name
                             /\ r = fat16_new_fat_item(vol, dir.items[i], blocks)
  <2>1. PICK i \in 1 .. L : /\ i <= dir.total /\ dir.items[i].name = name
                            /\ r = fat16_new_fat_item(vol, dir.items[i], blocks)
    BY <1>7
  <2>2. i \in 1 .. Len(all) /\ all[i] = dir.items[i] /\ all[i].name = name
    BY <1>4, <2>1
  <2>3. i \in 1 .. Len(u) /\ u[i] = all[i]
    BY <1>1, <1>3, <1>4, <2>2
  <2>4. e = all[i]
    <3>1. PICK k \in 1 .. Len(u) : u[k].name = name /\ e = u[k]
      BY <1>2, <2>2, <2>3
    <3>2. k \in 1 .. Len(all) /\ all[k].name = name /\ e = all[k]
      BY <1>1, <1>4, <3>1
    <3> QED
      BY <1>3, <2>2, <3>2
  <2>5. all[i] \in SlotRecords /\ r = fat16_new_fat_item(vol, all[i], blocks)
    BY <2>1, <2>2
  <2>6. IF blocks = 0 THEN r = [item |-> NoItem, free |-> 0] ELSE ItemFor(vol, all[i], blocks, r)
    BY <2>5, NewItem
  <2>7. CASE blocks = 0
    BY <2>6, <2>7 DEF Searched
  <2>8. CASE blocks # 0
    BY <2>2, <2>4, <2>6, <2>8 DEF Searched
  <2> QED
    BY <2>7, <2>8
<1>8. CASE /\ \A i \in 1 .. L : i <= dir.total => dir.items[i].name # name
           /\ r = [item |-> NoItem, free |-> blocks]
  <2>1. ASSUME dir.total >= Len(u), L >= Len(u), e # EndMark PROVE FALSE
    <3>1. PICK k \in 1 .. Len(u) : u[k].name = name /\ e = u[k]
      BY <1>2, <2>1
    <3>2. k \in 1 .. L /\ k <= dir.total /\ dir.items[k].name = name
      BY <1>1, <1>4, <2>1, <3>1
    <3> QED
      BY <1>8, <3>2
  <2> QED
    BY <1>8, <2>1 DEF u, Searched
<1> QED
  BY <1>6, <1>7, <1>8

(* A tidy volume, for a volume that is not the variable. *)
TidyOn(vol) ==
    /\ Tidy(vol.root, vol.root)
    /\ \A c \in ClusterIds :
        vol.data[c][1].kind = "dot" => Tidy(OfChain(vol, c), OnDisk(vol, c))

(* A tidy directory is counted right. *)
LEMMA TidyTotal ==
    ASSUME NEW slots \in Seq(SlotRecords), NEW onDisk \in Seq(SlotRecords), Tidy(slots, onDisk)
    PROVE  fat16_get_total_items_for_directory(onDisk) = Len(UpToEnd(slots))
<1> DEFINE u == UpToEnd(slots)
           v == UpToEnd(onDisk)
<1>1. /\ u \in Seq(SlotRecords) /\ Len(u) <= Len(slots)
      /\ \A k \in 1 .. Len(u) : u[k] = slots[k]
  BY UpToEndIs
<1>2. \A k \in 1 .. Len(v) : v[k] = onDisk[k]
  BY UpToEndIs
<1>3. u = v /\ \A k \in DOMAIN slots : slots[k].kind # "deleted"
  BY DEF Tidy
<1>4. (\A k \in DOMAIN v : onDisk[k].kind # "deleted") =>
          fat16_get_total_items_for_directory(onDisk) = Len(v)
  BY TotalIs
<1> HIDE DEF u, v
<1>5. DOMAIN v = 1 .. Len(v) /\ Len(u) \in Nat /\ Len(slots) \in Nat /\ DOMAIN slots = 1 .. Len(slots)
  BY <1>1, <1>3
<1>6. \A k \in DOMAIN v : onDisk[k].kind # "deleted"
  BY <1>1, <1>2, <1>3, <1>5
<1> QED
  BY <1>3, <1>4, <1>6 DEF u

(* The root directory, and one that was loaded, are sound and complete.    *)
LEMMA RootIs ==
    ASSUME NEW vol, VolumeShape(vol)
    PROVE  LET dir == fat16_get_root_directory(vol)
           IN  /\ dir.items = vol.root /\ vol.root \in Seq(SlotRecords) /\ dir.total \in Nat
               /\ dir.total <= Len(vol.root)
               /\ TidyOn(vol) => dir.total = Len(UpToEnd(vol.root))
<1> DEFINE behind == OnDisk(vol, 2)
           slots == vol.root \o behind
<1>1. vol.root \in Seq(SlotRecords) /\ behind \in Seq(SlotRecords)
  <2>1. 2 \in ClusterIds
    BY DirectoryAssumption DEF ClusterIds
  <2> QED
    BY <2>1, OnDiskType DEF VolumeShape
<1>2. fat16_get_root_directory(vol) =
        [items |-> vol.root, total |-> fat16_get_total_items_for_directory(slots)]
  BY DEF fat16_get_root_directory
<1> HIDE DEF behind
<1>3. slots \in Seq(SlotRecords) /\ Len(vol.root) <= Len(slots)
      /\ \A k \in 1 .. Len(vol.root) : slots[k] = vol.root[k]
  BY <1>1
<1> HIDE DEF slots
<1>4. fat16_get_total_items_for_directory(slots) \in 0 .. Len(vol.root)
  <2>1. UpToEnd(slots) = UpToEnd(vol.root)
    BY <1>1, <1>3, UpToEndSame DEF VolumeShape
  <2>2. Len(UpToEnd(vol.root)) <= Len(vol.root) /\ Len(UpToEnd(vol.root)) \in Nat
    <3>1. UpToEnd(vol.root) \in Seq(SlotRecords) /\ Len(UpToEnd(vol.root)) <= Len(vol.root)
      BY <1>1, UpToEndIs
    <3> QED
      BY <3>1
  <2>3. fat16_get_total_items_for_directory(slots) \in 0 .. Len(UpToEnd(slots))
    BY <1>3, TotalIs
  <2>4. Len(vol.root) \in Nat
    BY <1>1
  <2> QED
    BY <2>1, <2>2, <2>3, <2>4
<1>5. ASSUME TidyOn(vol)
      PROVE  fat16_get_total_items_for_directory(slots) = Len(UpToEnd(vol.root))
  <2>1. Tidy(vol.root, vol.root)
    BY <1>5 DEF TidyOn
  <2>2. UpToEnd(slots) = UpToEnd(vol.root)
    BY <1>1, <1>3, <2>1, UpToEndSame DEF Tidy
  <2>3. Tidy(vol.root, slots)
    BY <2>1, <2>2 DEF Tidy
  <2> QED
    BY <1>1, <1>3, <2>3, TidyTotal
<1> QED
  BY <1>1, <1>2, <1>4, <1>5

-------------------------------------------------------------------------------
(* The walk. *)

(* What a walk may have come to that began with so many blocks: while it   *)
(* is on, the item and the blocks left are all there is, and a directory   *)
(* has what its entry names; when it is out, there is no item.             *)
WalkStates(vol, blocks) ==
    {w \in [item : Items, free : Nat, how : {"on", "out", "wild"}] :
        /\ w.how = "on" /\ Found(w.item) =>
              /\ w.free + Blocks(w.item) = blocks
              /\ w.item.entry \in EntriesOf(vol)
              /\ w.item.type = "directory" <=> w.item.entry.kind = "dir"
              /\ w.item.type = "directory" /\ w.item.ptr = "ok" =>
                    Loaded(vol, w.item.entry, w.item.dir)
        /\ w.how = "on" /\ ~Found(w.item) => w.item = NoItem /\ w.free = blocks
        /\ w.how = "out" => w.item = NoItem}

(* One turn of the loop of fat16_get_directory_entry. *)
Onward(vol, name, was) ==
    LET here == fat16_find_item_in_directory(vol, was.item.dir, name, was.free)
    IN  IF was.how # "on" THEN was
        ELSE IF was.item.type = "file" THEN Walk(NoItem, was.free, "out")
        ELSE IF was.item.ptr # "ok" THEN Walk(was.item, was.free, "wild")
        ELSE Walk(here.item, here.free + Blocks(was.item), "on")

(* An item that was found is what a walk may have come to. *)
LEMMA FoundState ==
    ASSUME NEW vol, NEW blocks \in Nat, NEW left \in Nat, NEW e \in EntriesOf(vol), NEW r,
           ItemFor(vol, e, left, r), NEW more \in Nat, left + more = blocks
    PROVE  Walk(r.item, r.free + more, "on") \in WalkStates(vol, blocks)
<1> DEFINE w == Walk(r.item, r.free + more, "on")
<1>1. w.item = r.item /\ w.free = r.free + more /\ w.how = "on"
  BY DEF Walk
<1>2. /\ r.item \in Items /\ r.free \in Nat /\ r.free + Blocks(r.item) = left /\ r.item.entry = e
      /\ r.item.type = "directory" <=> e.kind = "dir"
      /\ r.item.type = "directory" /\ r.item.ptr = "ok" => Loaded(vol, e, r.item.dir)
      /\ Found(r.item)
  BY DEF ItemFor
<1>3. Blocks(r.item) \in Nat
  BY DEF Blocks
<1>4. w.free \in Nat /\ w.free + Blocks(w.item) = blocks
  BY <1>1, <1>2, <1>3
<1>5. w \in [item : Items, free : Nat, how : {"on", "out", "wild"}]
  BY <1>1, <1>2, <1>4 DEF Walk
<1> HIDE DEF w
<1>6. w \in WalkStates(vol, blocks)
  BY <1>1, <1>2, <1>4, <1>5 DEF WalkStates
<1> QED
  BY <1>6 DEF w

LEMMA MissingState ==
    ASSUME NEW vol, NEW blocks \in Nat, NEW left \in Nat, NEW how \in {"on", "out"},
           how = "on" => left = blocks
    PROVE  Walk(NoItem, left, how) \in WalkStates(vol, blocks)
<1> DEFINE w == Walk(NoItem, left, how)
<1>1. w.item = NoItem /\ w.free = left /\ w.how = how
  BY DEF Walk
<1>2. w \in [item : Items, free : Nat, how : {"on", "out", "wild"}]
  BY NoItemType DEF Walk
<1>3. ~Found(NoItem)
  BY DEF Found, NoItem
<1> HIDE DEF w
<1>4. w \in WalkStates(vol, blocks)
  BY <1>1, <1>2, <1>3 DEF WalkStates
<1> QED
  BY <1>4 DEF w

(* A directory entry of a sound volume names a sound directory, and on a   *)
(* tidy volume one that is counted right.                                  *)
LEMMA EntryNamesDirectory ==
    ASSUME NEW vol, VolumeShape(vol), SoundVolume(vol),
           NEW e \in EntriesOf(vol), e \in SlotRecords, e.kind = "dir"
    PROVE  /\ OfChain(vol, e.cluster) \in Seq(SlotRecords)
           /\ SoundSlots(OfChain(vol, e.cluster))
           /\ \A k \in 1 .. Len(OfChain(vol, e.cluster)) : OfChain(vol, e.cluster)[k] \in EntriesOf(vol)
           /\ TidyOn(vol) =>
                 /\ fat16_get_total_items_for_directory(OnDisk(vol, e.cluster))
                       = Len(UpToEnd(OfChain(vol, e.cluster)))
                 /\ Len(UpToEnd(OfChain(vol, e.cluster))) <= Len(OfChain(vol, e.cluster))
<1> DEFINE slots == OfChain(vol, e.cluster)
           onDisk == OnDisk(vol, e.cluster)
<1>1. e.cluster \in ClusterIds
  BY DEF SlotRecords
<1>2. /\ slots \in Seq(SlotRecords) /\ onDisk \in Seq(SlotRecords)
      /\ \A k \in DOMAIN slots : slots[k] \in EntriesOf(vol)
  BY <1>1, OfChainType, OnDiskType
<1>3. SoundSlots(slots) /\ vol.data[e.cluster][1].kind = "dot"
  BY DEF SoundVolume
<1>4. TidyOn(vol) => Tidy(slots, onDisk)
  BY <1>1, <1>3 DEF TidyOn
<1>5. Len(UpToEnd(slots)) <= Len(slots)
  BY <1>2, UpToEndIs
<1> HIDE DEF slots, onDisk
<1>6. DOMAIN slots = 1 .. Len(slots)
  BY <1>2
<1>7. TidyOn(vol) => fat16_get_total_items_for_directory(onDisk) = Len(UpToEnd(slots))
  BY <1>2, <1>4, TidyTotal
<1> QED
  BY <1>2, <1>3, <1>5, <1>6, <1>7 DEF slots, onDisk

LEMMA OnwardIs ==
    ASSUME NEW vol, VolumeShape(vol), SoundVolume(vol), NEW name \in PathNames,
           NEW blocks \in Nat, NEW was \in WalkStates(vol, blocks),
           NEW w, w = Onward(vol, name, was)
    PROVE  /\ w \in WalkStates(vol, blocks)
           /\ was.how = "on" /\ w.how = "on" /\ Found(w.item) =>
                 /\ Found(was.item) /\ was.item.entry.kind = "dir"
                 /\ w.item.entry = Among(ContentsOf(vol, was.item.entry), name)
           /\ was.how # "on" => w.how # "on"
           /\ /\ was.how = "on" /\ Found(was.item) /\ was.item.ptr = "ok" /\ blocks >= 6
              /\ was.item.entry.kind = "dir" /\ TidyOn(vol)
              /\ Among(ContentsOf(vol, was.item.entry), name) # EndMark
              => w.how = "on" /\ Found(w.item) /\ w.item.ptr = "ok"
<1> DEFINE e == was.item.entry
           dir == was.item.dir
           all == OfChain(vol, e.cluster)
           here == fat16_find_item_in_directory(vol, dir, name, was.free)
           x == Among(UpToEnd(all), name)
<1>1. /\ was \in [item : Items, free : Nat, how : {"on", "out", "wild"}]
      /\ was.how = "on" /\ Found(was.item) =>
            /\ was.free + Blocks(was.item) = blocks /\ e \in EntriesOf(vol)
            /\ was.item.type = "directory" <=> e.kind = "dir"
            /\ was.item.type = "directory" /\ was.item.ptr = "ok" => Loaded(vol, e, dir)
      /\ was.how = "on" /\ ~Found(was.item) => was.item = NoItem /\ was.free = blocks
  BY DEF WalkStates
<1>2. /\ was.item \in Items /\ was.free \in Nat /\ e \in SlotRecords
      /\ dir.items \in Seq(SlotRecords) /\ dir.total \in Nat
      /\ was.item.type \in {"none", "file", "directory"}
  BY <1>1 DEF Items
<1>3. CASE was.how # "on"
  <2>1. w = was
    BY <1>3 DEF Onward
  <2> QED
    BY <1>3, <2>1
<1>4. CASE was.how = "on" /\ was.item.type = "file"
  <2>1. w = Walk(NoItem, was.free, "out")
    BY <1>4 DEF Onward
  <2>2. w.how = "out"
    BY <2>1 DEF Walk
  <2>3. w \in WalkStates(vol, blocks)
    BY <1>2, <2>1, MissingState
  <2>4. Found(was.item) => e.kind # "dir"
    BY <1>1, <1>4
  <2> QED
    BY <1>4, <2>2, <2>3, <2>4
<1>5. CASE was.how = "on" /\ was.item.type # "file" /\ was.item.ptr # "ok"
  <2>1. w = Walk(was.item, was.free, "wild")
    BY <1>5 DEF Onward
  <2>2. w.how = "wild" /\ w \in [item : Items, free : Nat, how : {"on", "out", "wild"}]
    BY <1>2, <2>1 DEF Walk
  <2>3. w \in WalkStates(vol, blocks)
    BY <2>2 DEF WalkStates
  <2> QED
    BY <1>5, <2>2, <2>3
<1>6. CASE was.how = "on" /\ was.item.type # "file" /\ was.item.ptr = "ok"
  <2>1. w = Walk(here.item, here.free + Blocks(was.item), "on")
    BY <1>6 DEF Onward
  <2>2. Found(was.item) /\ was.item.type = "directory"
    BY <1>1, <1>2, <1>6 DEF NoItem, Found
  <2>3. e.kind = "dir" /\ e \in EntriesOf(vol) /\ Loaded(vol, e, dir)
        /\ was.free + Blocks(was.item) = blocks
    BY <1>1, <1>6, <2>2
  <2>4. Blocks(was.item) = 3
    BY <1>6, <2>2 DEF Blocks
  <2>5. /\ all \in Seq(SlotRecords) /\ SoundSlots(all)
        /\ \A k \in 1 .. Len(all) : all[k] \in EntriesOf(vol)
        /\ TidyOn(vol) => /\ fat16_get_total_items_for_directory(OnDisk(vol, e.cluster))
                                = Len(UpToEnd(all))
                          /\ Len(UpToEnd(all)) <= Len(all)
    BY <1>2, <2>3, EntryNamesDirectory
  <2>6. /\ dir.total = fat16_get_total_items_for_directory(OnDisk(vol, e.cluster))
        /\ dir.total <= Len(all) /\ dir.items = SubSeq(all, 1, dir.total)
    BY <2>3 DEF Loaded
  <2>7. x = Among(ContentsOf(vol, e), name)
    BY DEF ContentsOf
  <2> HIDE DEF all, dir, e
  <2>8. Len(dir.items) = dir.total /\ \A k \in 1 .. Len(dir.items) : dir.items[k] = all[k]
    BY <1>2, <2>5, <2>6
  <2>9. \/ /\ was.free # 0 /\ ItemFor(vol, x, was.free, here)
           /\ \E k \in 1 .. Len(all) : x = all[k]
        \/ /\ here = [item |-> NoItem, free |-> was.free]
           /\ ~(/\ dir.total >= Len(UpToEnd(all)) /\ Len(dir.items) >= Len(UpToEnd(all))
                /\ was.free # 0 /\ x # EndMark)
    <3>1. Len(dir.items) <= Len(all) /\ dir.total <= Len(dir.items)
      BY <1>2, <2>6, <2>8
    <3> HIDE DEF here, x
    <3>2. here = fat16_find_item_in_directory(vol, dir, name, was.free) /\ x = Among(UpToEnd(all), name)
      BY DEF here, x
    <3>3. was.free \in Nat /\ dir.items \in Seq(SlotRecords) /\ dir.total \in Nat
      BY <1>2, <2>5, <2>6
    <3>4. Searched(vol, all, dir, was.free, x, here)
      BY <2>5, <2>8, <3>1, <3>2, <3>3, SearchFinds
    <3> QED
      BY <3>4 DEF Searched
  <2> HIDE DEF here, x
  <2>10. CASE was.free # 0 /\ ItemFor(vol, x, was.free, here) /\ \E k \in 1 .. Len(all) : x = all[k]
    <3>1. x \in EntriesOf(vol) /\ x \in SlotRecords
      BY <2>5, <2>10
    <3>2. Walk(here.item, here.free + 3, "on") \in WalkStates(vol, blocks)
      <4>1. 3 \in Nat /\ was.free + 3 = blocks
        BY <2>3, <2>4
      <4> QED
        BY <1>2, <2>10, <3>1, <4>1, FoundState
    <3>3. w \in WalkStates(vol, blocks)
      BY <2>1, <2>4, <3>2
    <3>4. w.item = here.item /\ w.how = "on"
      BY <2>1 DEF Walk
    <3>5. Found(here.item) /\ here.item.entry = x
      BY <2>10 DEF ItemFor
    <3>6. ASSUME blocks >= 6, TidyOn(vol) PROVE here.item.ptr = "ok"
      <4>1. was.free >= 3
        BY <1>2, <2>3, <2>4, <3>6
      <4>2. x.kind = "dir" => fat16_get_total_items_for_directory(OnDisk(vol, x.cluster))
                                 <= Len(OfChain(vol, x.cluster))
        BY <3>1, <3>6, EntryNamesDirectory
      <4> QED
        BY <2>10, <4>1, <4>2 DEF ItemFor
    <3> QED
      BY <1>6, <2>2, <2>3, <2>7, <3>3, <3>4, <3>5, <3>6 DEF e
  <2>11. CASE /\ here = [item |-> NoItem, free |-> was.free]
              /\ ~(/\ dir.total >= Len(UpToEnd(all)) /\ Len(dir.items) >= Len(UpToEnd(all))
                   /\ was.free # 0 /\ x # EndMark)
    <3>1. w = Walk(NoItem, blocks, "on")
      BY <2>1, <2>3, <2>11
    <3>2. w \in WalkStates(vol, blocks)
      BY <3>1, MissingState
    <3>3. ~Found(w.item)
      BY <3>1 DEF Walk, Found, NoItem
    <3>4. ASSUME blocks >= 6, TidyOn(vol) PROVE x = EndMark
      <4>1. was.free # 0
        BY <1>2, <2>3, <2>4, <3>4
      <4>2. dir.total = Len(UpToEnd(all))
        BY <2>5, <2>6, <3>4
      <4>3. dir.total >= Len(UpToEnd(all))
        BY <1>2, <4>2
      <4> QED
        BY <2>8, <2>11, <4>1, <4>3
    <3> QED
      BY <1>6, <2>7, <3>2, <3>3, <3>4 DEF e
  <2> QED
    BY <2>9, <2>10, <2>11
<1> QED
  BY <1>3, <1>4, <1>5, <1>6

LEMMA AmongType ==
    ASSUME NEW slots \in Seq(SlotRecords), NEW name
    PROVE  Among(slots, name) \in SlotRecords
<1>1. \/ Among(slots, name) = EndMark
      \/ \E k \in 1 .. Len(slots) : Among(slots, name) = slots[k]
  BY AmongIs
<1> QED
  BY <1>1, NoItemType

(* What the first names of a path stand for, one more name at a time. *)
NamedSoFar(vol, names, at) ==
    /\ at \in [0 .. Len(names) - 1 -> SlotRecords]
    /\ at[0] = Among(UpToEnd(vol.root), names[1])
    /\ \A k \in 1 .. Len(names) - 1 :
          at[k] = IF at[k - 1].kind # "dir" THEN EndMark
                  ELSE Among(ContentsOf(vol, at[k - 1]), names[k + 1])

LEMMA NamedLoop ==
    ASSUME NEW vol, VolumeShape(vol), NEW names \in Seq(PathNames), names # <<>>
    PROVE  \E at : NamedSoFar(vol, names, at) /\ Named(vol, names) = at[Len(names) - 1]
<1> DEFINE N == Len(names) - 1
           T == SlotRecords
           base == Among(UpToEnd(vol.root), names[1])
           Then(s, k) == IF s.kind # "dir" THEN EndMark
                         ELSE Among(ContentsOf(vol, s), names[k + 1])
           step == [x \in T \X (1 .. N) |-> Then(x[1], x[2])]
           Body(v) == [k \in 0 .. N |-> IF k = 0 THEN base ELSE Then(v[k - 1], k)]
           f == CHOOSE v : v = Body(v)
<1>1. N \in Nat
  OBVIOUS
<1>2. base \in T
  <2>1. vol.root \in Seq(SlotRecords)
    BY DEF VolumeShape
  <2>2. UpToEnd(vol.root) \in Seq(SlotRecords)
    BY <2>1, UpToEndIs
  <2> QED
    BY <2>2, AmongType
<1>3. ASSUME NEW s \in T, NEW k \in 1 .. N PROVE Then(s, k) \in T
  <2>1. CASE s.kind # "dir"
    BY <2>1, NoItemType
  <2>2. CASE s.kind = "dir"
    <3>1. s.cluster \in ClusterIds
      BY <2>2 DEF SlotRecords
    <3>2. OfChain(vol, s.cluster) \in Seq(SlotRecords)
      BY <3>1, OfChainType
    <3>3. ContentsOf(vol, s) \in Seq(SlotRecords)
      BY <3>2, UpToEndIs DEF ContentsOf
    <3>4. Among(ContentsOf(vol, s), names[k + 1]) \in T
      BY <3>3, AmongType
    <3> QED
      BY <2>2, <3>4
  <2> QED
    BY <2>1, <2>2
<1> HIDE DEF T, N, base, Then
<1>4. step \in [T \X (1 .. N) -> T]
  BY <1>3
<1>5. \A x \in T, k \in 1 .. N : step[<<x, k>>] = Then(x, k)
  OBVIOUS
<1> HIDE DEF step
<1>6. PICK g : LoopValues(g, N, T, base, step)
  BY <1>1, <1>2, <1>4, LoopHasValues, Zenon
<1>7. ASSUME NEW k \in 0 .. N PROVE g[k] = Body(g)[k]
  <2>1. k # 0 => k \in 1 .. N /\ k - 1 \in 0 .. N
    BY <1>1
  <2> QED
    BY <1>5, <1>6, <2>1 DEF LoopValues
<1>8. g = Body(g)
  BY <1>6, <1>7 DEF LoopValues
<1>9. f = Body(f)
  BY <1>8
<1>10. Named(vol, names) = f[N]
  BY DEF Named, base, Then, N
<1> HIDE DEF f
<1>11. f[0] = g[0]
  BY <1>1, <1>8, <1>9
<1>12. ASSUME NEW k \in 1 .. N, f[k - 1] = g[k - 1] PROVE f[k] = g[k]
  <2>1. k \in 0 .. N /\ k # 0
    BY <1>1
  <2>2. f[k] = Body(f)[k] /\ g[k] = Body(g)[k]
    BY <1>8, <1>9, Zenon
  <2>3. Body(f)[k] = Body(g)[k]
    BY <1>12, <2>1
  <2> QED
    BY <2>2, <2>3, Zenon
<1>13. f[N] = g[N]
  <2>1. Alike(f, g, N)
    BY <1>11, <1>12 DEF Alike
  <2>2. \A k \in 0 .. N : f[k] = g[k]
    <3>1. N \in Nat
      BY <1>1
    <3>2. Agree(f, g, N)
      BY <2>1, <3>1, LoopAgree, Zenon
    <3> QED
      BY <3>2 DEF Agree
  <2> QED
    BY <1>1, <2>2
<1>14. g \in [0 .. N -> T] /\ g[0] = base /\ \A k \in 1 .. N : g[k] = Then(g[k - 1], k)
  <2>1. \A k \in 1 .. N : k \in 0 .. N /\ k # 0
    BY <1>1
  <2>2. g \in [0 .. N -> T] /\ g[0] = base
    BY <1>6 DEF LoopValues
  <2> QED
    BY <1>7, <2>1, <2>2
<1>15. NamedSoFar(vol, names, g)
  BY <1>14 DEF NamedSoFar, N, T, base, Then
<1> QED
  BY <1>10, <1>13, <1>15 DEF N

(* The first part, in the root directory. *)
FirstOf(vol, name, blocks) ==
    LET first == fat16_find_item_in_directory(vol, fat16_get_root_directory(vol), name, blocks)
    IN  Walk(first.item, first.free, IF Found(first.item) THEN "on" ELSE "out")

LEMMA FirstIs ==
    ASSUME NEW vol, VolumeShape(vol), SoundVolume(vol), NEW name \in PathNames,
           NEW blocks \in Nat, NEW w, w = FirstOf(vol, name, blocks)
    PROVE  /\ w \in WalkStates(vol, blocks)
           /\ w.how = "on" => w.item.entry = Among(UpToEnd(vol.root), name)
           /\ blocks >= 6 /\ TidyOn(vol) /\ Among(UpToEnd(vol.root), name) # EndMark
              => w.how = "on" /\ Found(w.item) /\ w.item.ptr = "ok"
<1> DEFINE dir == fat16_get_root_directory(vol)
           all == vol.root
           first == fat16_find_item_in_directory(vol, dir, name, blocks)
           x == Among(UpToEnd(all), name)
<1>1. /\ dir.items = all /\ all \in Seq(SlotRecords) /\ dir.total \in Nat
      /\ dir.total <= Len(all)
      /\ TidyOn(vol) => dir.total = Len(UpToEnd(all))
  BY RootIs
<1>2. SoundSlots(all) /\ \A k \in 1 .. Len(all) : all[k] \in EntriesOf(vol)
  <2>1. DOMAIN all = 1 .. Len(all)
    BY <1>1
  <2> QED
    BY <2>1 DEF SoundVolume, EntriesOf
<1>3. Len(UpToEnd(all)) <= Len(all)
  BY <1>1, UpToEndIs
<1>4. w = Walk(first.item, first.free, IF Found(first.item) THEN "on" ELSE "out")
  BY DEF FirstOf
<1>5. \/ /\ blocks # 0 /\ ItemFor(vol, x, blocks, first)
         /\ \E k \in 1 .. Len(all) : x = all[k]
      \/ /\ first = [item |-> NoItem, free |-> blocks]
         /\ ~(/\ dir.total >= Len(UpToEnd(all)) /\ Len(dir.items) >= Len(UpToEnd(all))
              /\ blocks # 0 /\ x # EndMark)
  <2> HIDE DEF dir, all, first, x
  <2>1. first = fat16_find_item_in_directory(vol, dir, name, blocks) /\ x = Among(UpToEnd(all), name)
    BY DEF first, x
  <2>2. /\ Len(dir.items) <= Len(all) /\ dir.total <= Len(dir.items)
        /\ \A k \in 1 .. Len(dir.items) : dir.items[k] = all[k]
    BY <1>1
  <2> QED
    BY <1>1, <1>2, <2>1, <2>2, SearchFinds DEF Searched
<1> HIDE DEF dir, first, x
<1>6. CASE blocks # 0 /\ ItemFor(vol, x, blocks, first) /\ \E k \in 1 .. Len(all) : x = all[k]
  <2>1. x \in EntriesOf(vol) /\ x \in SlotRecords
    BY <1>1, <1>2, <1>6
  <2>2. Found(first.item) /\ first.free \in Nat /\ first.item.entry = x
    BY <1>6 DEF ItemFor
  <2>3. w = Walk(first.item, first.free + 0, "on")
    BY <1>4, <2>2
  <2>4. w \in WalkStates(vol, blocks)
    <3>1. 0 \in Nat /\ blocks + 0 = blocks
      OBVIOUS
    <3> QED
      BY <1>6, <2>1, <2>3, <3>1, FoundState
  <2>5. w.item = first.item /\ w.how = "on"
    BY <2>3 DEF Walk
  <2>6. ASSUME blocks >= 6, TidyOn(vol) PROVE first.item.ptr = "ok"
    <3>1. blocks >= 3
      BY <2>6
    <3>2. x.kind = "dir" => fat16_get_total_items_for_directory(OnDisk(vol, x.cluster))
                               <= Len(OfChain(vol, x.cluster))
      BY <2>1, <2>6, EntryNamesDirectory
    <3> QED
      BY <1>6, <3>1, <3>2 DEF ItemFor
  <2> QED
    BY <2>2, <2>4, <2>5, <2>6 DEF x
<1>7. CASE /\ first = [item |-> NoItem, free |-> blocks]
           /\ ~(/\ dir.total >= Len(UpToEnd(all)) /\ Len(dir.items) >= Len(UpToEnd(all))
                /\ blocks # 0 /\ x # EndMark)
  <2>1. w = Walk(NoItem, blocks, "out")
    BY <1>4, <1>7 DEF Found, NoItem
  <2>2. w \in WalkStates(vol, blocks) /\ w.how = "out"
    <3>1. w \in WalkStates(vol, blocks)
      BY <2>1, MissingState
    <3> QED
      BY <2>1, <3>1 DEF Walk
  <2>3. ASSUME blocks >= 6, TidyOn(vol) PROVE x = EndMark
    <3>1. dir.total >= Len(UpToEnd(all))
      BY <1>1, <2>3
    <3>2. blocks # 0 /\ Len(dir.items) >= Len(UpToEnd(all))
      BY <1>1, <1>3, <2>3
    <3> QED
      BY <1>7, <3>1, <3>2
  <2> QED
    BY <2>2, <2>3 DEF x
<1> QED
  BY <1>5, <1>6, <1>7

(* The loop of fat16_get_directory_entry. *)
LEMMA WalkLoop ==
    ASSUME NEW vol, VolumeShape(vol), SoundVolume(vol), NEW parts \in Seq(PathNames),
           parts # <<>>, NEW blocks \in Nat
    PROVE  \E g \in [0 .. Len(parts) - 1 -> WalkStates(vol, blocks)] :
              /\ g[0] = FirstOf(vol, parts[1], blocks)
              /\ \A k \in 1 .. Len(parts) - 1 : g[k] = Onward(vol, parts[k + 1], g[k - 1])
              /\ fat16_get_directory_entry(vol, parts, blocks) = g[Len(parts) - 1]
<1> DEFINE N == Len(parts) - 1
           T == WalkStates(vol, blocks)
           base == FirstOf(vol, parts[1], blocks)
           Then(s, k) == Onward(vol, parts[k + 1], s)
           step == [x \in T \X (1 .. N) |-> Then(x[1], x[2])]
           Body(v) == [k \in 0 .. N |-> IF k = 0 THEN base ELSE Then(v[k - 1], k)]
           f == CHOOSE v : v = Body(v)
<1>1. N \in Nat /\ \A k \in 0 .. N : parts[k + 1] \in PathNames
  OBVIOUS
<1>2. base \in T
  <2>1. parts[1] \in PathNames
    OBVIOUS
  <2> QED
    BY <2>1, FirstIs
<1>3. ASSUME NEW s \in T, NEW k \in 1 .. N PROVE Then(s, k) \in T
  <2>1. parts[k + 1] \in PathNames
    BY <1>1
  <2> QED
    BY <2>1, OnwardIs
<1> HIDE DEF T, N, base, Then
<1>4. step \in [T \X (1 .. N) -> T]
  BY <1>3
<1>5. \A x \in T, k \in 1 .. N : step[<<x, k>>] = Then(x, k)
  OBVIOUS
<1> HIDE DEF step
<1>6. PICK g : LoopValues(g, N, T, base, step)
  BY <1>1, <1>2, <1>4, LoopHasValues, Zenon
<1>7. ASSUME NEW k \in 0 .. N PROVE g[k] = Body(g)[k]
  <2>1. k # 0 => k \in 1 .. N /\ k - 1 \in 0 .. N
    BY <1>1
  <2> QED
    BY <1>5, <1>6, <2>1 DEF LoopValues
<1>8. g = Body(g)
  BY <1>6, <1>7 DEF LoopValues
<1>9. f = Body(f)
  BY <1>8
<1>10. fat16_get_directory_entry(vol, parts, blocks) = f[N]
  BY DEF fat16_get_directory_entry, base, Then, N, FirstOf, Onward
<1> HIDE DEF f
<1>11. f[0] = g[0]
  BY <1>1, <1>8, <1>9
<1>12. ASSUME NEW k \in 1 .. N, f[k - 1] = g[k - 1] PROVE f[k] = g[k]
  <2>1. k \in 0 .. N /\ k # 0
    BY <1>1
  <2>2. f[k] = Body(f)[k] /\ g[k] = Body(g)[k]
    BY <1>8, <1>9, Zenon
  <2>3. Body(f)[k] = Body(g)[k]
    BY <1>12, <2>1
  <2> QED
    BY <2>2, <2>3, Zenon
<1>13. f[N] = g[N]
  <2>1. Alike(f, g, N)
    BY <1>11, <1>12 DEF Alike
  <2>2. N \in Nat
    BY <1>1
  <2>3. \A k \in 0 .. N : f[k] = g[k]
    <3>1. Agree(f, g, N)
      BY <2>1, <2>2, LoopAgree, Zenon
    <3> QED
      BY <3>1 DEF Agree
  <2> QED
    BY <1>1, <2>3
<1>14. g \in [0 .. N -> T] /\ g[0] = base /\ \A k \in 1 .. N : g[k] = Then(g[k - 1], k)
  <2>1. \A k \in 1 .. N : k \in 0 .. N /\ k # 0
    BY <1>1
  <2>2. g \in [0 .. N -> T] /\ g[0] = base
    BY <1>6 DEF LoopValues
  <2> QED
    BY <1>7, <2>1, <2>2
<1>15. /\ g[0] = base /\ \A k \in 1 .. N : g[k] = Onward(vol, parts[k + 1], g[k - 1])
       /\ fat16_get_directory_entry(vol, parts, blocks) = g[N]
  BY <1>10, <1>13, <1>14 DEF Then
<1> QED
  BY <1>14, <1>15 DEF N, T, base

(* fat16_get_directory_entry: what it returns, when it does not go wild,   *)
(* is what the parts name; it holds the blocks that are missing from the   *)
(* heap; and on a tidy volume with room on the heap what the parts name is *)
(* found.                                                                  *)
LEMMA WalkFinds ==
    ASSUME NEW vol, VolumeShape(vol), SoundVolume(vol), NEW parts \in Seq(PathNames),
           parts # <<>>, NEW blocks \in Nat,
           NEW w, w = fat16_get_directory_entry(vol, parts, blocks)
    PROVE  /\ w \in WalkStates(vol, blocks)
           /\ w.how # "wild" /\ Found(w.item) =>
                 /\ w.how = "on" /\ w.free + Blocks(w.item) = blocks
                 /\ w.item.entry = Named(vol, parts)
           /\ blocks >= 6 /\ TidyOn(vol) /\ Named(vol, parts) # EndMark =>
                 w.how = "on" /\ w.item.ptr = "ok" /\ w.item.entry = Named(vol, parts)
<1> DEFINE N == Len(parts) - 1
<1>1. N \in Nat /\ \A k \in 0 .. N : parts[k + 1] \in PathNames
  OBVIOUS
<1>2. PICK g \in [0 .. N -> WalkStates(vol, blocks)] :
         /\ g[0] = FirstOf(vol, parts[1], blocks)
         /\ \A k \in 1 .. N : g[k] = Onward(vol, parts[k + 1], g[k - 1])
         /\ w = g[N]
  BY WalkLoop
<1>3. PICK at : NamedSoFar(vol, parts, at) /\ Named(vol, parts) = at[N]
  BY NamedLoop
<1>4. /\ at \in [0 .. N -> SlotRecords]
      /\ at[0] = Among(UpToEnd(vol.root), parts[1])
      /\ \A k \in 1 .. N :
            at[k] = IF at[k - 1].kind # "dir" THEN EndMark
                    ELSE Among(ContentsOf(vol, at[k - 1]), parts[k + 1])
  BY <1>3 DEF NamedSoFar
<1> HIDE DEF N
<1> DEFINE Ok(s, e) == /\ s.how = "on" /\ Found(s.item) => s.item.entry = e
                       /\ blocks >= 6 /\ TidyOn(vol) /\ e # EndMark =>
                             s.how = "on" /\ Found(s.item) /\ s.item.ptr = "ok"
           S == {k \in 0 .. N : Ok(g[k], at[k])}
<1>5. 0 \in S
  <2>1. parts[1] \in PathNames
    OBVIOUS
  <2>2. Ok(FirstOf(vol, parts[1], blocks), Among(UpToEnd(vol.root), parts[1]))
    BY <2>1, FirstIs
  <2>3. Ok(g[0], at[0])
    <3> HIDE DEF Ok
    <3> QED
      BY <1>2, <1>4, <2>2
  <2> QED
    BY <1>1, <2>3
<1>6. ASSUME NEW j \in S \cap (0 .. N - 1) PROVE j + 1 \in S
  <2> DEFINE k == j + 1
             name == parts[k + 1]
             was == g[j]
             here == g[k]
             e == at[j]
  <2>1. k \in 1 .. N /\ k \in 0 .. N /\ k - 1 = j /\ j \in 0 .. N /\ Ok(g[j], at[j])
    BY <1>1
  <2>2. name \in PathNames
    BY <1>1, <2>1
  <2> HIDE DEF k
  <2>3. here = Onward(vol, name, was) /\ was \in WalkStates(vol, blocks)
    BY <1>2, <2>1
  <2>4. at[k] = IF e.kind # "dir" THEN EndMark ELSE Among(ContentsOf(vol, e), name)
    BY <1>4, <2>1
  <2> HIDE DEF name, was, here, e
  <2>5. /\ was.how = "on" /\ here.how = "on" /\ Found(here.item) =>
              /\ Found(was.item) /\ was.item.entry.kind = "dir"
              /\ here.item.entry = Among(ContentsOf(vol, was.item.entry), name)
        /\ was.how # "on" => here.how # "on"
        /\ /\ was.how = "on" /\ Found(was.item) /\ was.item.ptr = "ok" /\ blocks >= 6
           /\ was.item.entry.kind = "dir" /\ TidyOn(vol)
           /\ Among(ContentsOf(vol, was.item.entry), name) # EndMark
           => here.how = "on" /\ Found(here.item) /\ here.item.ptr = "ok"
    BY <2>2, <2>3, OnwardIs
  <2>6. Ok(was, e)
    BY <2>1 DEF was, e
  <2>7. ASSUME here.how = "on", Found(here.item) PROVE here.item.entry = at[k]
    BY <2>4, <2>5, <2>6, <2>7
  <2>8. ASSUME blocks >= 6, TidyOn(vol), at[k] # EndMark
        PROVE  here.how = "on" /\ Found(here.item) /\ here.item.ptr = "ok"
    <3>1. e.kind = "dir" /\ Among(ContentsOf(vol, e), name) # EndMark
      BY <2>4, <2>8
    <3>2. e # EndMark
      BY <3>1 DEF EndMark, Slot
    <3>3. was.how = "on" /\ Found(was.item) /\ was.item.ptr = "ok" /\ was.item.entry = e
      BY <2>6, <2>8, <3>2
    <3> QED
      BY <2>5, <2>8, <3>1, <3>3
  <2>9. Ok(here, at[k])
    BY <2>7, <2>8
  <2> QED
    BY <2>1, <2>9 DEF here, k
<1>7. 0 .. N \subseteq S
  <2> HIDE DEF S
  <2> QED
    BY <1>1, <1>5, <1>6, Induction
<1>8. Ok(w, Named(vol, parts)) /\ w \in WalkStates(vol, blocks)
  <2>1. N \in 0 .. N
    BY <1>1
  <2>2. Ok(g[N], at[N])
    BY <1>7, <2>1
  <2> HIDE DEF Ok
  <2> QED
    BY <1>2, <1>3, <2>1, <2>2
<1>9. w.how # "wild" /\ Found(w.item) => w.how = "on"
  BY <1>8 DEF WalkStates, NoItem, Found
<1>10. w.how = "on" /\ Found(w.item) => w.free + Blocks(w.item) = blocks
  BY <1>8 DEF WalkStates
<1> QED
  BY <1>8, <1>9, <1>10

-------------------------------------------------------------------------------
(* The blocks of the open files. *)

BlocksOf(d) == IF d = Closed THEN 0 ELSE 2 + Blocks(d.item)

LEMMA BlocksType ==
    ASSUME NEW d
    PROVE  Blocks(d.item) \in Nat /\ BlocksOf(d) \in Nat
BY DEF Blocks, BlocksOf

(* Their sum over the first descriptors. *)
Sums(g, table) ==
    /\ g \in [0 .. MaxFiles -> Nat]
    /\ g[0] = 0
    /\ \A n \in 1 .. MaxFiles : g[n] = g[n - 1] + BlocksOf(table[n])

LEMMA OpenBlocksLoop ==
    ASSUME NEW table
    PROVE  \E g : Sums(g, table) /\ OpenBlocks(table) = g[MaxFiles]
<1> DEFINE N == MaxFiles
           base == 0
           step == [x \in Nat \X (1 .. N) |-> x[1] + BlocksOf(table[x[2]])]
           Body(v) == [n \in 0 .. N |-> IF n = 0 THEN base ELSE v[n - 1] + BlocksOf(table[n])]
           f == CHOOSE v : v = Body(v)
<1>1. N \in Nat /\ base \in Nat
  BY FilesAssumption
<1>2. step \in [Nat \X (1 .. N) -> Nat]
  BY BlocksType
<1>3. \A x \in Nat, n \in 1 .. N : step[<<x, n>>] = x + BlocksOf(table[n])
  OBVIOUS
<1> HIDE DEF N, step, base
<1>4. PICK g : LoopValues(g, N, Nat, base, step)
  BY <1>1, <1>2, LoopHasValues, Zenon
<1>5. ASSUME NEW k \in 0 .. N PROVE g[k] = Body(g)[k]
  <2>1. k # 0 => k \in 1 .. N /\ k - 1 \in 0 .. N
    BY <1>1
  <2> QED
    BY <1>3, <1>4, <2>1 DEF LoopValues
<1>6. g = Body(g)
  BY <1>4, <1>5 DEF LoopValues
<1>7. f = Body(f)
  BY <1>6
<1>8. OpenBlocks(table) = f[N]
  BY DEF OpenBlocks, BlocksOf, N, base
<1> HIDE DEF f
<1>9. f[0] = g[0]
  BY <1>1, <1>6, <1>7
<1>10. ASSUME NEW k \in 1 .. N, f[k - 1] = g[k - 1] PROVE f[k] = g[k]
  <2>1. k \in 0 .. N /\ k # 0
    BY <1>1
  <2>2. f[k] = Body(f)[k] /\ g[k] = Body(g)[k]
    BY <1>6, <1>7, Zenon
  <2>3. Body(f)[k] = Body(g)[k]
    BY <1>10, <2>1
  <2> QED
    BY <2>2, <2>3, Zenon
<1>11. f[N] = g[N]
  <2>1. Alike(f, g, N)
    BY <1>9, <1>10 DEF Alike
  <2>2. N \in Nat
    BY <1>1
  <2>3. \A k \in 0 .. N : f[k] = g[k]
    <3>1. Agree(f, g, N)
      BY <2>1, <2>2, LoopAgree, Zenon
    <3> QED
      BY <3>1 DEF Agree
  <2> QED
    BY <1>1, <2>3
<1>12. g \in [0 .. N -> Nat] /\ g[0] = base /\ \A n \in 1 .. N : g[n] = g[n - 1] + BlocksOf(table[n])
  <2>1. \A k \in 1 .. N : k \in 0 .. N /\ k # 0
    BY <1>1
  <2>2. g \in [0 .. N -> Nat] /\ g[0] = base
    BY <1>4 DEF LoopValues
  <2> QED
    BY <1>5, <2>1, <2>2
<1>13. Sums(g, table)
  BY <1>12 DEF Sums, N, base
<1> QED
  BY <1>8, <1>11, <1>13 DEF N

LEMMA OpenBlocksType ==
    ASSUME NEW table
    PROVE  OpenBlocks(table) \in Nat
<1>1. PICK g : Sums(g, table) /\ OpenBlocks(table) = g[MaxFiles]
  BY OpenBlocksLoop
<1>2. MaxFiles \in 0 .. MaxFiles
  BY FilesAssumption
<1> QED
  BY <1>1, <1>2 DEF Sums

LEMMA NoneOpen ==
    ASSUME NEW table, \A fd \in Descriptors : table[fd] = Closed
    PROVE  OpenBlocks(table) = 0
<1>1. PICK g : Sums(g, table) /\ OpenBlocks(table) = g[MaxFiles]
  BY OpenBlocksLoop
<1>2. MaxFiles \in Nat
  BY FilesAssumption
<1> DEFINE S == {n \in 0 .. MaxFiles : g[n] = 0}
<1>3. 0 \in S
  BY <1>1, <1>2 DEF Sums
<1>4. ASSUME NEW k \in S \cap (0 .. MaxFiles - 1) PROVE k + 1 \in S
  <2> DEFINE n == k + 1
  <2>1. n \in 1 .. MaxFiles /\ n - 1 = k /\ g[k] = 0
    BY <1>2
  <2> HIDE DEF n
  <2>2. BlocksOf(table[n]) = 0
    BY <2>1 DEF BlocksOf, Descriptors
  <2>3. g[n] = 0
    BY <1>1, <2>1, <2>2 DEF Sums
  <2> QED
    BY <2>1, <2>3 DEF n
<1>5. 0 .. MaxFiles \subseteq S
  <2> HIDE DEF S
  <2> QED
    BY <1>2, <1>3, <1>4, Induction
<1> QED
  BY <1>1, <1>2, <1>5

(* One descriptor changes. *)
LEMMA OneChanges ==
    ASSUME NEW s, NEW t, NEW fd \in Descriptors,
           \A n \in Descriptors \ {fd} : t[n] = s[n]
    PROVE  OpenBlocks(t) + BlocksOf(s[fd]) = OpenBlocks(s) + BlocksOf(t[fd])
<1>1. PICK g : Sums(g, s) /\ OpenBlocks(s) = g[MaxFiles]
  BY OpenBlocksLoop
<1>2. PICK h : Sums(h, t) /\ OpenBlocks(t) = h[MaxFiles]
  BY OpenBlocksLoop
<1>3. MaxFiles \in Nat /\ fd \in 1 .. MaxFiles
  BY FilesAssumption DEF Descriptors
<1> DEFINE a == BlocksOf(s[fd])
           b == BlocksOf(t[fd])
           S == {n \in 0 .. MaxFiles : IF n < fd THEN h[n] = g[n] ELSE h[n] + a = g[n] + b}
<1>4. a \in Nat /\ b \in Nat
  BY BlocksType
<1>5. 0 \in S
  BY <1>1, <1>2, <1>3 DEF Sums
<1>6. ASSUME NEW k \in S \cap (0 .. MaxFiles - 1) PROVE k + 1 \in S
  <2> DEFINE n == k + 1
             c == BlocksOf(s[n])
             d == BlocksOf(t[n])
  <2>1. /\ n \in 1 .. MaxFiles /\ n - 1 = k /\ k \in 0 .. MaxFiles
        /\ IF k < fd THEN h[k] = g[k] ELSE h[k] + a = g[k] + b
    BY <1>3
  <2>2. n < fd => k < fd
    BY <1>3, <2>1
  <2>3. n = fd => k < fd
    BY <1>3, <2>1
  <2>4. n > fd => ~(k < fd)
    BY <1>3, <2>1
  <2>5. c \in Nat /\ d \in Nat
    BY BlocksType
  <2> HIDE DEF n
  <2>6. g[k] \in Nat /\ h[k] \in Nat /\ g[n] = g[k] + c /\ h[n] = h[k] + d
    BY <1>1, <1>2, <2>1 DEF Sums
  <2>7. n # fd => c = d
    BY <2>1 DEF Descriptors
  <2>8. n = fd => c = a /\ d = b
    OBVIOUS
  <2> HIDE DEF a, b, c, d
  <2>9. IF n < fd THEN h[n] = g[n] ELSE h[n] + a = g[n] + b
    <3>1. CASE n < fd
      BY <1>3, <2>1, <2>2, <2>6, <2>7, <3>1
    <3>2. CASE n = fd
      BY <1>3, <1>4, <2>1, <2>3, <2>5, <2>6, <2>8, <3>2
    <3>3. CASE n > fd
      BY <1>3, <1>4, <2>1, <2>4, <2>5, <2>6, <2>7, <3>3
    <3> QED
      BY <1>3, <2>1, <3>1, <3>2, <3>3
  <2> QED
    BY <2>1, <2>9 DEF n
<1>7. 0 .. MaxFiles \subseteq S
  <2> HIDE DEF S
  <2> QED
    BY <1>3, <1>5, <1>6, Induction
<1>8. MaxFiles \in 0 .. MaxFiles /\ ~(MaxFiles < fd)
  BY <1>3
<1>9. h[MaxFiles] + a = g[MaxFiles] + b
  BY <1>7, <1>8
<1> QED
  BY <1>1, <1>2, <1>9

-------------------------------------------------------------------------------
(* The inductive invariant. *)

(* All volumes are sound: no directory has a name twice or behind its end  *)
(* mark.                                                                   *)
SoundVolumes == \A vol \in Volumes : SoundVolume(vol)

DescriptorRecords == [item : Items, path : Seq(PathNames)]

(* An open descriptor has the item that a beginning of its path names. *)
DescriptorOK(vol, d) ==
    d # Closed =>
        /\ Found(d.item)
        /\ \E n \in 1 .. Len(d.path) : d.item.entry = Named(vol, SubSeq(d.path, 1, n))

FilesShape ==
    /\ volume \in Volumes /\ filesystem \in BOOLEAN
    /\ file_descriptors \in [Descriptors -> DescriptorRecords]
    /\ free \in Nat /\ elsewhere \in Nat /\ lostPaths \in Nat
    /\ outcome \in {"done", "failed"} /\ mode \in {"ok", "wild"}

AllBlocks == TotalBlocks = free + elsewhere + lostPaths + OpenBlocks(file_descriptors)

FilesInv ==
    /\ FilesShape
    /\ \A fd \in Descriptors : DescriptorOK(volume, file_descriptors[fd])
    /\ AllBlocks

LEMMA ClosedType == Closed \in DescriptorRecords
BY NoItemType DEF Closed, DescriptorRecords

LEMMA FilesStart == FilesInit => FilesInv
<1> SUFFICES ASSUME FilesInit PROVE FilesInv
  OBVIOUS
<1>1. /\ volume \in Volumes /\ filesystem \in BOOLEAN
      /\ file_descriptors = [fd \in Descriptors |-> Closed]
      /\ free = TotalBlocks /\ elsewhere = 0 /\ lostPaths = 0 /\ outcome = "done" /\ mode = "ok"
  BY DEF FilesInit
<1>2. TotalBlocks \in Nat
  BY FilesAssumption
<1>3. FilesShape
  BY <1>1, <1>2, ClosedType DEF FilesShape
<1>4. \A fd \in Descriptors : file_descriptors[fd] = Closed
  BY <1>1
<1>5. OpenBlocks(file_descriptors) = 0
  BY <1>4, NoneOpen
<1>6. AllBlocks
  BY <1>1, <1>2, <1>5 DEF AllBlocks
<1> QED
  BY <1>3, <1>4, <1>6 DEF FilesInv, DescriptorOK

(* A step that leaves the volume, the table and the paths alone, and moves *)
(* blocks between the heap and the rest of the kernel at most.             *)
LEMMA SameTable ==
    ASSUME FilesInv,
           UNCHANGED <<volume, filesystem, file_descriptors, lostPaths>>,
           free' \in Nat, elsewhere' \in Nat, free' + elsewhere' = free + elsewhere,
           outcome' \in {"done", "failed"}, mode' \in {"ok", "wild"}
    PROVE  FilesInv'
<1>1. FilesShape'
  BY DEF FilesInv, FilesShape, DescriptorRecords, Items
<1>2. AllBlocks'
  <2> DEFINE open == OpenBlocks(file_descriptors)
  <2>1. open \in Nat
    BY OpenBlocksType
  <2>2. open' = open
    OBVIOUS
  <2>3. TotalBlocks = free + elsewhere + lostPaths + open
    BY DEF FilesInv, AllBlocks
  <2> HIDE DEF open
  <2>4. TotalBlocks = free' + elsewhere' + lostPaths' + open'
    BY <2>1, <2>2, <2>3 DEF FilesInv, FilesShape
  <2> QED
    BY <2>4 DEF AllBlocks, open
<1>3. (\A fd \in Descriptors : DescriptorOK(volume, file_descriptors[fd]))'
  BY DEF FilesInv
<1> QED
  BY <1>1, <1>2, <1>3 DEF FilesInv

(* What fat16_open gives for a path that was parsed. *)
LEMMA OpenGives ==
    ASSUME SoundVolumes, FilesInv, NEW parts \in Seq(PathNames), parts # <<>>, NEW how,
           NEW blocks \in Nat, NEW o, o = fat16_open(parts, how, blocks), o.ok
    PROVE  /\ o.item \in Items /\ Found(o.item) /\ o.free \in Nat
           /\ o.free + 1 + Blocks(o.item) = blocks
           /\ o.item.entry = Named(volume, parts)
<1> DEFINE w == fat16_get_directory_entry(volume, parts, blocks - 1)
<1>1. /\ o.item = w.item /\ o.free = w.free
      /\ blocks > 0 /\ w.how # "wild" /\ Found(w.item)
  BY DEF fat16_open
<1>2. VolumeShape(volume) /\ SoundVolume(volume)
  BY FilesAssumption DEF FilesInv, FilesShape, SoundVolumes
<1>3. blocks - 1 \in Nat
  BY <1>1
<1>4. /\ w \in WalkStates(volume, blocks - 1)
      /\ w.how # "wild" /\ Found(w.item) =>
            /\ w.how = "on" /\ w.free + Blocks(w.item) = blocks - 1
            /\ w.item.entry = Named(volume, parts)
  BY <1>2, <1>3, WalkFinds
<1> HIDE DEF w
<1>5. w.item \in Items /\ w.free \in Nat
  BY <1>4 DEF WalkStates
<1>6. Blocks(w.item) \in Nat
  BY BlocksType
<1>7. w.free + Blocks(w.item) = blocks - 1 /\ w.item.entry = Named(volume, parts)
  BY <1>1, <1>4
<1>8. w.free + 1 + Blocks(w.item) = blocks
  <2> DEFINE left == w.free
             taken == Blocks(w.item)
  <2>1. left \in Nat /\ taken \in Nat /\ left + taken = blocks - 1
    BY <1>5, <1>6, <1>7
  <2> HIDE DEF left, taken
  <2>2. left + 1 + taken = blocks
    BY <2>1
  <2> QED
    BY <2>2 DEF left, taken
<1> QED
  BY <1>1, <1>5, <1>7, <1>8

-------------------------------------------------------------------------------
(* The operations. *)

(* fopen goes wild, gives everything back, or fills a descriptor with the  *)
(* item that was found.                                                    *)
LEMMA OpenOutcomes ==
    ASSUME SoundVolumes, FilesInv, NEW path \in Paths, NEW how, fopen(path, how)
    PROVE  \/ Wild
           \/ Fails(free)
           \/ \E fd \in Descriptors, d \in DescriptorRecords, lost \in Nat :
                 /\ file_descriptors[fd] = Closed /\ d # Closed /\ DescriptorOK(volume, d)
                 /\ file_descriptors' = [file_descriptors EXCEPT ![fd] = d]
                 /\ free' \in Nat /\ free' + lost + BlocksOf(d) = free
                 /\ lostPaths' = lostPaths + lost
                 /\ outcome' = "done" /\ UNCHANGED <<volume, filesystem, elsewhere, mode>>
<1> DEFINE p == pathparser_parse(path, free)
           names == NamesOf(path)
<1>1. free \in Nat /\ lostPaths \in Nat
  BY DEF FilesInv, FilesShape
<1>2. /\ p.parts \in Seq(PathNames) /\ p.free \in Nat
      /\ p.parts = <<>> => p.free = free
      /\ p.parts # <<>> => /\ p.free + PathBlocks(p.parts) = free
                           /\ Len(p.parts) \in 1 .. Len(names)
                           /\ p.parts = SubSeq(names, 1, Len(p.parts))
                           /\ names \in Seq(PathNames)
  BY <1>1, PathParsed
<1> DEFINE o == fat16_open(p.parts, how, p.free)
<1>3. \/ p.parts = <<>> /\ Fails(p.free)
      \/ p.parts # <<>> /\ Fails(pathparser_free(p.parts, p.free))
      \/ p.parts # <<>> /\ ~o.ok /\ Wild
      \/ /\ p.parts # <<>> /\ o.ok
         /\ Fails(pathparser_free(p.parts, fat16_close(o.item, o.free)))
      \/ p.parts # <<>> /\ Wild
      \/ /\ p.parts # <<>> /\ o.ok /\ file_new_descriptor # {} /\ o.free > 0
         /\ Returns([file_descriptors EXCEPT ![Min(file_new_descriptor)] =
                        [item |-> o.item, path |-> names]], o.free - 1, "done")
         /\ lostPaths' = lostPaths + PathBlocks(p.parts)
  BY Zenon DEF fopen
<1> HIDE DEF p, names
<1>4. p.parts # <<>> => PathBlocks(p.parts) \in Nat
  BY <1>2 DEF PathBlocks
<1>5. CASE p.parts = <<>> /\ Fails(p.free)
  BY <1>2, <1>5
<1>6. CASE p.parts # <<>> /\ Fails(pathparser_free(p.parts, p.free))
  BY <1>2, <1>6 DEF pathparser_free
<1>7. CASE Wild
  BY <1>7
<1>8. CASE p.parts # <<>> /\ o.ok
  <2>1. /\ o.item \in Items /\ Found(o.item) /\ o.free \in Nat
        /\ o.free + 1 + Blocks(o.item) = p.free
        /\ o.item.entry = Named(volume, p.parts)
    BY <1>2, <1>8, OpenGives
  <2> HIDE DEF o
  <2>2. Blocks(o.item) \in Nat
    BY BlocksType
  <2>3. CASE Fails(pathparser_free(p.parts, fat16_close(o.item, o.free)))
    <3>1. pathparser_free(p.parts, fat16_close(o.item, o.free)) = free
      BY <1>2, <1>8, <2>1 DEF pathparser_free, fat16_close
    <3> QED
      BY <2>3, <3>1
  <2>4. CASE /\ file_new_descriptor # {} /\ o.free > 0
             /\ Returns([file_descriptors EXCEPT ![Min(file_new_descriptor)] =
                            [item |-> o.item, path |-> names]], o.free - 1, "done")
             /\ lostPaths' = lostPaths + PathBlocks(p.parts)
    <3> DEFINE fd == Min(file_new_descriptor)
               d == [item |-> o.item, path |-> names]
               lost == PathBlocks(p.parts)
    <3>1. fd \in Descriptors /\ file_descriptors[fd] = Closed
      <4>1. file_new_descriptor \subseteq Nat
        BY FilesAssumption DEF file_new_descriptor, Descriptors
      <4>2. fd \in file_new_descriptor
        BY <2>4, <4>1, MinElement
      <4> HIDE DEF fd
      <4> QED
        BY <4>2 DEF file_new_descriptor, Open
    <3>2. d \in DescriptorRecords
      BY <1>2, <1>8, <2>1 DEF DescriptorRecords
    <3>3. d.item = o.item /\ d.path = names
      OBVIOUS
    <3>4. /\ file_descriptors' = [file_descriptors EXCEPT ![fd] = d]
          /\ free' = o.free - 1 /\ outcome' = "done"
          /\ UNCHANGED <<volume, filesystem, elsewhere, mode>>
          /\ lostPaths' = lostPaths + lost
      BY <2>4 DEF Returns
    <3> HIDE DEF d, fd, lost
    <3>5. d # Closed
      BY <2>1, <3>3 DEF Closed, Found, NoItem
    <3>6. DescriptorOK(volume, d)
      <4>1. d.item.entry = Named(volume, SubSeq(d.path, 1, Len(p.parts)))
        BY <1>2, <1>8, <2>1, <3>3
      <4> QED
        BY <1>2, <1>8, <2>1, <3>3, <4>1 DEF DescriptorOK
    <3>7. BlocksOf(d) = 2 + Blocks(o.item)
      BY <3>3, <3>5 DEF BlocksOf
    <3>8. lost \in Nat /\ p.free + lost = free
      BY <1>2, <1>4, <1>8 DEF lost
    <3>9. free' \in Nat /\ free' + lost + BlocksOf(d) = free
      <4> DEFINE a == o.free
                 b == Blocks(o.item)
                 c == p.free
      <4>1. a \in Nat /\ a > 0 /\ b \in Nat /\ c \in Nat /\ a + 1 + b = c
            /\ lost \in Nat /\ c + lost = free
        BY <1>2, <2>1, <2>2, <2>4, <3>8
      <4>2. free' = a - 1 /\ BlocksOf(d) = 2 + b
        BY <3>4, <3>7
      <4> HIDE DEF a, b, c
      <4> QED
        BY <1>1, <4>1, <4>2
    <3> QED
      BY <3>1, <3>2, <3>4, <3>5, <3>6, <3>8, <3>9
  <2> QED
    BY <1>3, <1>7, <1>8, <2>3, <2>4, <1>5, <1>6 DEF o
<1> QED
  BY <1>3, <1>5, <1>6, <1>7, <1>8

(* fclose goes wild, fails, or gives all blocks of a descriptor back. *)
LEMMA CloseOutcomes ==
    ASSUME FilesInv, NEW fd \in Descriptors, fclose(fd)
    PROVE  \/ Wild
           \/ Fails(free)
           \/ /\ file_descriptors[fd] # Closed
              /\ file_descriptors' = [file_descriptors EXCEPT ![fd] = Closed]
              /\ free' = free + BlocksOf(file_descriptors[fd])
              /\ outcome' = "done" /\ UNCHANGED <<volume, filesystem, elsewhere, mode, lostPaths>>
<1> DEFINE d == file_descriptors[fd]
<1>1. CASE ~file_get_descriptor(fd) /\ Fails(free)
  BY <1>1
<1>2. CASE Wild
  BY <1>2
<1>3. CASE /\ file_get_descriptor(fd)
           /\ Returns([file_descriptors EXCEPT ![fd] = Closed], fat16_close(d.item, free) + 1, "done")
           /\ UNCHANGED lostPaths
  <2>1. d # Closed
    BY <1>3 DEF file_get_descriptor, Open
  <2>2. BlocksOf(d) = 2 + Blocks(d.item) /\ Blocks(d.item) \in Nat
    BY <2>1, BlocksType DEF BlocksOf
  <2>3. free \in Nat
    BY DEF FilesInv, FilesShape
  <2>4. fat16_close(d.item, free) + 1 = free + BlocksOf(d)
    BY <2>2, <2>3 DEF fat16_close
  <2>5. /\ file_descriptors' = [file_descriptors EXCEPT ![fd] = Closed]
        /\ free' = fat16_close(d.item, free) + 1
        /\ outcome' = "done" /\ UNCHANGED <<volume, filesystem, elsewhere, mode, lostPaths>>
    BY <1>3 DEF Returns
  <2> QED
    BY <2>1, <2>4, <2>5
<1>4. \/ ~file_get_descriptor(fd) /\ Fails(free)
      \/ Wild
      \/ /\ file_get_descriptor(fd)
         /\ Returns([file_descriptors EXCEPT ![fd] = Closed], fat16_close(d.item, free) + 1, "done")
         /\ UNCHANGED lostPaths
  BY DEF fclose
<1> QED
  BY <1>1, <1>2, <1>3, <1>4

(* fstat and fread go wild or leave the table and the heap alone. *)
LEMMA LookOutcomes ==
    ASSUME NEW fd \in Descriptors, fstat(fd) \/ fread(fd)
    PROVE  \/ Wild
           \/ /\ UNCHANGED <<volume, filesystem, file_descriptors, free, elsewhere, lostPaths, mode>>
              /\ outcome' \in {"done", "failed"}
BY Zenon DEF fstat, fread, Fails, Returns

(* The table with one other descriptor. *)
LEMMA OtherTable ==
    ASSUME FilesInv, NEW fd \in Descriptors, NEW d \in DescriptorRecords, DescriptorOK(volume, d),
           file_descriptors' = [file_descriptors EXCEPT ![fd] = d],
           NEW lost \in Nat, lostPaths' = lostPaths + lost, free' \in Nat,
           free' + lost + BlocksOf(d) = free + BlocksOf(file_descriptors[fd]),
           outcome' = "done", UNCHANGED <<volume, filesystem, elsewhere, mode>>
    PROVE  FilesInv'
<1>1. /\ file_descriptors \in [Descriptors -> DescriptorRecords]
      /\ free \in Nat /\ elsewhere \in Nat /\ lostPaths \in Nat
  BY DEF FilesInv, FilesShape
<1>2. /\ file_descriptors' \in [Descriptors -> DescriptorRecords]
      /\ file_descriptors'[fd] = d
      /\ \A n \in Descriptors \ {fd} : file_descriptors'[n] = file_descriptors[n]
  BY <1>1
<1>3. FilesShape'
  <2>1. lostPaths' \in Nat
    BY <1>1
  <2> QED
    BY <1>2, <2>1 DEF FilesInv, FilesShape, DescriptorRecords, Items
<1>4. \A n \in Descriptors : DescriptorOK(volume, file_descriptors'[n])
  <2> TAKE n \in Descriptors
  <2>1. CASE n = fd
    BY <1>2, <2>1
  <2>2. CASE n # fd
    BY <1>2, <2>2 DEF FilesInv
  <2> QED
    BY <2>1, <2>2
<1>5. (\A n \in Descriptors : DescriptorOK(volume, file_descriptors[n]))'
  BY <1>4
<1>6. AllBlocks'
  <2> DEFINE open == OpenBlocks(file_descriptors)
             after == OpenBlocks(file_descriptors')
             a == BlocksOf(file_descriptors[fd])
             b == BlocksOf(d)
  <2>1. open \in Nat /\ after \in Nat /\ a \in Nat /\ b \in Nat
    BY OpenBlocksType, BlocksType
  <2>2. after + a = open + b
    BY <1>2, OneChanges
  <2>3. TotalBlocks = free + elsewhere + lostPaths + open
    BY DEF FilesInv, AllBlocks
  <2>4. free' + lost + b = free + a
    OBVIOUS
  <2> HIDE DEF open, after, a, b
  <2>5. TotalBlocks = free' + elsewhere' + lostPaths' + after
    <3> DEFINE f == free'
               l == lostPaths'
    <3>1. f \in Nat /\ l = lostPaths + lost /\ f + lost + b = free + a
      BY <2>4
    <3> HIDE DEF f, l
    <3>2. TotalBlocks = f + elsewhere + l + after
      BY <1>1, <2>1, <2>2, <2>3, <3>1
    <3> QED
      BY <3>2 DEF f, l
  <2> QED
    BY <2>5 DEF AllBlocks, after
<1> QED
  BY <1>3, <1>5, <1>6 DEF FilesInv

LEMMA WildKeeps ==
    ASSUME FilesInv, Wild
    PROVE  FilesInv'
<1>1. /\ free \in Nat /\ elsewhere \in Nat /\ outcome \in {"done", "failed"}
      /\ UNCHANGED <<volume, filesystem, file_descriptors, free, elsewhere, lostPaths, outcome>>
      /\ mode' = "wild"
  BY DEF FilesInv, FilesShape, Wild
<1> QED
  BY <1>1, SameTable

LEMMA FailsKeeps ==
    ASSUME FilesInv, Fails(free)
    PROVE  FilesInv'
<1>1. /\ free \in Nat /\ elsewhere \in Nat /\ mode \in {"ok", "wild"} /\ outcome' = "failed"
      /\ UNCHANGED <<volume, filesystem, file_descriptors, free, elsewhere, lostPaths, mode>>
  BY DEF FilesInv, FilesShape, Fails, Returns
<1> QED
  BY <1>1, SameTable

LEMMA FilesStep ==
    ASSUME SoundVolumes, FilesInv, [FilesNext]_filesVars
    PROVE  FilesInv'
<1>1. /\ free \in Nat /\ elsewhere \in Nat /\ lostPaths \in Nat
      /\ mode \in {"ok", "wild"} /\ outcome \in {"done", "failed"}
      /\ file_descriptors \in [Descriptors -> DescriptorRecords]
  BY DEF FilesInv, FilesShape
<1>2. ASSUME NEW path \in Paths, NEW how, fopen(path, how)
      PROVE  FilesInv'
  <2>1. CASE Wild
    BY <2>1, WildKeeps
  <2>2. CASE Fails(free)
    BY <2>2, FailsKeeps
  <2>3. CASE \E fd \in Descriptors, d \in DescriptorRecords, lost \in Nat :
                /\ file_descriptors[fd] = Closed /\ d # Closed /\ DescriptorOK(volume, d)
                /\ file_descriptors' = [file_descriptors EXCEPT ![fd] = d]
                /\ free' \in Nat /\ free' + lost + BlocksOf(d) = free
                /\ lostPaths' = lostPaths + lost
                /\ outcome' = "done" /\ UNCHANGED <<volume, filesystem, elsewhere, mode>>
    <3>1. PICK fd \in Descriptors, d \in DescriptorRecords, lost \in Nat :
                /\ file_descriptors[fd] = Closed /\ d # Closed /\ DescriptorOK(volume, d)
                /\ file_descriptors' = [file_descriptors EXCEPT ![fd] = d]
                /\ free' \in Nat /\ free' + lost + BlocksOf(d) = free
                /\ lostPaths' = lostPaths + lost
                /\ outcome' = "done" /\ UNCHANGED <<volume, filesystem, elsewhere, mode>>
      BY <2>3
    <3>2. BlocksOf(file_descriptors[fd]) = 0
      BY <3>1 DEF BlocksOf
    <3>3. free' + lost + BlocksOf(d) = free + BlocksOf(file_descriptors[fd])
      BY <1>1, <3>1, <3>2
    <3> QED
      BY <3>1, <3>3, OtherTable
  <2> QED
    BY <1>2, <2>1, <2>2, <2>3, OpenOutcomes
<1>3. ASSUME NEW fd \in Descriptors, fclose(fd)
      PROVE  FilesInv'
  <2>1. CASE Wild
    BY <2>1, WildKeeps
  <2>2. CASE Fails(free)
    BY <2>2, FailsKeeps
  <2>3. CASE /\ file_descriptors[fd] # Closed
             /\ file_descriptors' = [file_descriptors EXCEPT ![fd] = Closed]
             /\ free' = free + BlocksOf(file_descriptors[fd])
             /\ outcome' = "done" /\ UNCHANGED <<volume, filesystem, elsewhere, mode, lostPaths>>
    <3>1. BlocksOf(Closed) = 0 /\ BlocksOf(file_descriptors[fd]) \in Nat
      BY BlocksType DEF BlocksOf
    <3>2. DescriptorOK(volume, Closed)
      BY DEF DescriptorOK
    <3>3. /\ free' \in Nat /\ 0 \in Nat /\ lostPaths' = lostPaths + 0
          /\ free' + 0 + BlocksOf(Closed) = free + BlocksOf(file_descriptors[fd])
      BY <1>1, <2>3, <3>1
    <3> QED
      BY <2>3, <3>2, <3>3, ClosedType, OtherTable
  <2> QED
    BY <1>3, <2>1, <2>2, <2>3, CloseOutcomes
<1>4. ASSUME NEW fd \in Descriptors, fstat(fd) \/ fread(fd)
      PROVE  FilesInv'
  <2>1. CASE Wild
    BY <2>1, WildKeeps
  <2>2. CASE /\ UNCHANGED <<volume, filesystem, file_descriptors, free, elsewhere, lostPaths, mode>>
             /\ outcome' \in {"done", "failed"}
    BY <1>1, <2>2, SameTable
  <2> QED
    BY <1>4, <2>1, <2>2, LookOutcomes
<1>5. CASE Elsewhere
  <2>1. /\ free' \in 0 .. free + elsewhere /\ elsewhere' = elsewhere + free - free'
        /\ outcome' = "done"
        /\ UNCHANGED <<volume, filesystem, file_descriptors, lostPaths, mode>>
    BY <1>5 DEF Elsewhere
  <2>2. free' \in Nat /\ elsewhere' \in Nat /\ free' + elsewhere' = free + elsewhere
    <3> DEFINE f == free'
               e == elsewhere'
    <3>1. f \in 0 .. free + elsewhere /\ e = elsewhere + free - f
      BY <2>1
    <3> HIDE DEF f, e
    <3>2. f \in Nat /\ e \in Nat /\ f + e = free + elsewhere
      BY <1>1, <3>1
    <3> QED
      BY <3>2 DEF f, e
  <2> QED
    BY <1>1, <2>1, <2>2, SameTable
<1>6. CASE UNCHANGED filesVars
  <2>1. UNCHANGED <<volume, filesystem, file_descriptors, free, elsewhere, lostPaths, outcome, mode>>
    BY <1>6 DEF filesVars
  <2> QED
    BY <1>1, <2>1, SameTable
<1> QED
  BY <1>2, <1>3, <1>4, <1>5, <1>6 DEF FilesNext

-------------------------------------------------------------------------------
(* The theorems. *)

(* The invariant holds for any heap, any paths and any sound volumes. *)
THEOREM FilesInvariant ==
    ASSUME SoundVolumes
    PROVE  FilesSpec => []FilesInv
<1>1. FilesInit => FilesInv
  BY FilesStart
<1>2. FilesInv /\ [FilesNext]_filesVars => FilesInv'
  BY FilesStep
<1> QED
  BY <1>1, <1>2, PTL DEF FilesSpec

(* The descriptor table, the counts and the volume keep their types: no    *)
(* count goes below 0 or above the heap, and every open file has an item   *)
(* that is a file or a directory.                                          *)
THEOREM FilesTypeCorrect ==
    ASSUME SoundVolumes
    PROVE  FilesSpec => []FilesTypeOK
<1>1. FilesInv => FilesTypeOK
  <2> SUFFICES ASSUME FilesInv PROVE FilesTypeOK
    OBVIOUS
  <2>1. FilesShape /\ AllBlocks /\ TotalBlocks \in Nat
    BY FilesAssumption DEF FilesInv
  <2>2. VolumeShape(volume)
    BY <2>1, FilesAssumption DEF FilesShape
  <2>3. DOMAIN volume.data = ClusterIds /\ DOMAIN volume.next = ClusterIds
    BY <2>2 DEF VolumeShape
  <2>4. free \in 0 .. TotalBlocks /\ elsewhere \in 0 .. TotalBlocks /\ lostPaths \in 0 .. TotalBlocks
    <3> DEFINE open == OpenBlocks(file_descriptors)
    <3>1. open \in Nat /\ TotalBlocks = free + elsewhere + lostPaths + open
      BY <2>1, OpenBlocksType DEF AllBlocks
    <3>2. free \in Nat /\ elsewhere \in Nat /\ lostPaths \in Nat
      BY <2>1 DEF FilesShape
    <3> HIDE DEF open
    <3> QED
      BY <3>1, <3>2
  <2>5. ASSUME NEW fd \in Open
        PROVE  file_descriptors[fd].item.type \in {"file", "directory"}
    <3>1. fd \in Descriptors /\ file_descriptors[fd] # Closed
      BY DEF Open
    <3>2. file_descriptors[fd] \in DescriptorRecords
      BY <2>1, <3>1 DEF FilesShape
    <3>3. Found(file_descriptors[fd].item)
      BY <3>1 DEF FilesInv, DescriptorOK
    <3> QED
      BY <3>2, <3>3 DEF DescriptorRecords, Items, Found
  <2> QED
    BY <2>1, <2>3, <2>4, <2>5 DEF FilesTypeOK, FilesShape
<1> QED
  BY <1>1, FilesInvariant, PTL

(* No block is lost but those of the paths, and none is given back twice,  *)
(* whichever of the allocations of fopen fails.                            *)
THEOREM BlocksAccounted ==
    ASSUME SoundVolumes
    PROVE  FilesSpec => []OnlyPathsLost
<1>1. FilesInv => OnlyPathsLost
  BY DEF FilesInv, AllBlocks, OnlyPathsLost
<1> QED
  BY <1>1, FilesInvariant, PTL

(* What is open is what the path, or a beginning of it, names on the       *)
(* volume.                                                                 *)
THEOREM OpensRight ==
    ASSUME SoundVolumes
    PROVE  FilesSpec => []OpensNamedItem
<1>1. FilesInv => OpensNamedItem
  BY DEF FilesInv, DescriptorOK, OpensNamedItem, Open
<1> QED
  BY <1>1, FilesInvariant, PTL

(* On a tidy volume, with room on the heap for two items, what a path      *)
(* names is found: TotalBlocks >= 6 is a directory and the next item.      *)
THEOREM ExistingFound ==
    ASSUME SoundVolumes, TotalBlocks >= 6
    PROVE  FilesSpec => []ExistingFilesFound
<1>1. FilesInv => ExistingFilesFound
  <2> SUFFICES ASSUME FilesInv, free = TotalBlocks, TidyVolume, NEW path \in Paths
               PROVE  LET parts == pathparser_parse(path, free).parts
                          named == Named(volume, parts)
                          walk  == fat16_get_directory_entry(volume, parts, free)
                      IN  parts # <<>> /\ named # EndMark =>
                              walk.how = "on" /\ walk.item.ptr = "ok" /\ walk.item.entry = named
    BY DEF ExistingFilesFound
  <2> DEFINE parts == pathparser_parse(path, free).parts
  <2>1. free \in Nat /\ free >= 6
    BY DEF FilesInv, FilesShape
  <2>2. VolumeShape(volume) /\ SoundVolume(volume)
    BY FilesAssumption DEF FilesInv, FilesShape, SoundVolumes
  <2>3. TidyOn(volume)
    BY DEF TidyOn, TidyVolume
  <2>4. parts \in Seq(PathNames)
    BY <2>1, PathParsed
  <2> HIDE DEF parts
  <2> DEFINE w == fat16_get_directory_entry(volume, parts, free)
  <2>5. parts # <<>> /\ Named(volume, parts) # EndMark =>
           w.how = "on" /\ w.item.ptr = "ok" /\ w.item.entry = Named(volume, parts)
    BY <2>1, <2>2, <2>3, <2>4, WalkFinds
  <2> QED
    BY <2>5 DEF parts
<1> QED
  BY <1>1, FilesInvariant, PTL

(* A call that fails without going wild leaves the table and the heap as   *)
(* they were.                                                              *)
THEOREM FailuresHarmless ==
    ASSUME SoundVolumes
    PROVE  FilesSpec => FailuresChangeNothing
<1> DEFINE Harmless == outcome' = "failed" /\ mode' = "ok" =>
                           UNCHANGED <<file_descriptors, free, lostPaths>>
<1>1. ASSUME FilesInv, [FilesNext]_filesVars PROVE [Harmless]_filesVars
  <2> SUFFICES ASSUME FilesNext, outcome' = "failed", mode' = "ok"
               PROVE  UNCHANGED <<file_descriptors, free, lostPaths>>
    BY <1>1
  <2>1. ~Wild
    BY DEF Wild
  <2>2. Fails(free) => UNCHANGED <<file_descriptors, free, lostPaths>>
    BY DEF Fails, Returns
  <2>3. ASSUME NEW path \in Paths, NEW how, fopen(path, how)
        PROVE  UNCHANGED <<file_descriptors, free, lostPaths>>
    <3>1. \/ Wild
          \/ Fails(free)
          \/ outcome' = "done"
      BY <1>1, <2>3, OpenOutcomes
    <3> QED
      BY <2>1, <2>2, <3>1
  <2>4. ASSUME NEW fd \in Descriptors, fclose(fd)
        PROVE  UNCHANGED <<file_descriptors, free, lostPaths>>
    <3>1. \/ Wild
          \/ Fails(free)
          \/ outcome' = "done"
      BY <1>1, <2>4, CloseOutcomes
    <3> QED
      BY <2>1, <2>2, <3>1
  <2>5. ASSUME NEW fd \in Descriptors, fstat(fd) \/ fread(fd)
        PROVE  UNCHANGED <<file_descriptors, free, lostPaths>>
    BY <2>1, <2>5, LookOutcomes
  <2>6. CASE Elsewhere
    BY <2>6 DEF Elsewhere
  <2> QED
    BY <2>3, <2>4, <2>5, <2>6 DEF FilesNext
<1> QED
  BY <1>1, FilesInvariant, PTL DEF FilesSpec, FailuresChangeNothing
===============================================================================
