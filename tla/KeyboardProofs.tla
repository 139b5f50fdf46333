---------------------------- MODULE KeyboardProofs ----------------------------
(***************************************************************************)
(* Proofs about Keyboard for any processes, keys, buffer size and word     *)
(* size that the buffer size divides.  The counters wrap at the word size  *)
(* and are reduced modulo the buffer size where they are used: the proofs  *)
(* rest on two facts about these two moduli, WrapKeepsCell and             *)
(* CellsDiffer.                                                            *)
(***************************************************************************)
EXTENDS Keyboard, NatLemmas, SequenceTheorems, TLAPS

(* The history variables have their types too, and a buffer never holds    *)
(* more unread characters than it has cells.                               *)
HistoryTypeOK ==
    /\ capslock \in BOOLEAN
    /\ unread \in [Processes -> Seq(Chars)]
    /\ \A p \in Processes : Len(unread[p]) <= Size

KeyInv == KeyTypeOK /\ HistoryTypeOK /\ RingHoldsUnread

(* A buffer b with the counters h and t holds the characters u. *)
Holds(b, h, t, u) ==
    /\ t = (h + Len(u)) % Word
    /\ \A j \in Cells : b[(h + j) % Size] = IF j < Len(u) THEN u[j + 1] ELSE Zero

-------------------------------------------------------------------------------
(* Arithmetic of the counters. *)

(* The word size is a multiple of the buffer size, at least the buffer     *)
(* size.                                                                   *)
LEMMA WordMultiple == \E k \in Nat \ {0} : Word = Size * k /\ Size <= Word
<1>1. Size \in Nat \ {0} /\ Word \in Nat \ {0} /\ Word % Size = 0
  BY KeyboardAssumption
<1> DEFINE k == Word \div Size
<1>2. k \in Int /\ Word = Size * k
  BY <1>1, DivMod
<1> HIDE DEF k
<1>3. k > 0
  BY <1>1, <1>2
<1>4. Size * k >= Size
  BY <1>1, <1>2, <1>3
<1> QED
  BY <1>1, <1>2, <1>3, <1>4

(* A counter that has wrapped leads to the cell it would lead to if it had *)
(* not: keyboard_push and keyboard_pop may let tail and head overflow.     *)
LEMMA WrapKeepsCell ==
    ASSUME NEW a \in Nat, NEW j \in Nat, a < 2 * Word
    PROVE  ((a % Word) + j) % Size = (a + j) % Size
<1>1. PICK k \in Nat \ {0} : Word = Size * k
  BY WordMultiple
<1>2. a % Word = a \/ a % Word = a - Word
  BY KeyboardAssumption
<1> DEFINE q == (a + j) \div Size
           r == (a + j) % Size
<1>3. q \in Int /\ r \in 0 .. Size - 1 /\ a + j = Size * q + r
  <2>1. a + j \in Int /\ Size \in Nat \ {0}
    BY KeyboardAssumption
  <2> QED
    BY <2>1, DivMod, Zenon
<1>4. CASE a % Word = a - Word
  <2> HIDE DEF q, r
  <2>1. (a % Word) + j = Size * (q - k) + r
    BY <1>1, <1>3, <1>4, KeyboardAssumption
  <2>2. q - k \in Int /\ Size \in Nat \ {0}
    BY <1>1, <1>3, KeyboardAssumption
  <2>3. (Size * (q - k) + r) % Size = r
    BY <2>2, <1>3, ModUnique, Zenon
  <2> QED
    BY <2>1, <2>3 DEF r
<1> QED
  BY <1>2, <1>4

(* The cells of a buffer seen from a counter are all different. *)
LEMMA CellsDiffer ==
    ASSUME NEW h \in Nat, NEW j \in Cells, NEW k \in Cells, (h + j) % Size = (h + k) % Size
    PROVE  j = k
<1> DEFINE r == (h + j) % Size
           qj == (h + j) \div Size
           qk == (h + k) \div Size
<1>1. /\ qj \in Int /\ qk \in Int /\ r \in 0 .. Size - 1
      /\ h + j = Size * qj + r
      /\ h + k = Size * qk + r
  <2>1. h + j \in Int /\ h + k \in Int /\ Size \in Nat \ {0}
    BY KeyboardAssumption DEF Cells
  <2> QED
    BY <2>1, DivMod, Zenon
<1> HIDE DEF r, qj, qk
<1>2. j - k = Size * (qj - qk)
  BY <1>1, KeyboardAssumption DEF Cells
<1>3. qj - qk = 0
  <2>1. CASE qj - qk >= 1
    BY <2>1, <1>1, <1>2, KeyboardAssumption DEF Cells
  <2>2. CASE qj - qk <= -1
    BY <2>2, <1>1, <1>2, KeyboardAssumption DEF Cells
  <2> QED
    BY <2>1, <2>2, <1>1
<1> QED
  BY <1>1, <1>2, <1>3, KeyboardAssumption DEF Cells

(* Size steps from a counter lead back to its cell. *)
LEMMA CellsWrap ==
    ASSUME NEW h \in Nat
    PROVE  (h + Size) % Size = h % Size
<1>1. h \div Size \in Int /\ h % Size \in 0 .. Size - 1 /\ h = Size * (h \div Size) + (h % Size)
  BY DivMod, KeyboardAssumption
<1> DEFINE q == h \div Size
           r == h % Size
<1> HIDE DEF q, r
<1>2. h + Size = Size * (q + 1) + r
  BY <1>1, KeyboardAssumption DEF q, r
<1>3. q + 1 \in Int /\ Size \in Nat \ {0} /\ r \in 0 .. Size - 1
  BY <1>1, KeyboardAssumption DEF q, r
<1>4. (Size * (q + 1) + r) % Size = r
  BY <1>3, ModUnique, Zenon
<1> QED
  BY <1>2, <1>4 DEF r

(* The character 0 is none of the characters of keys. *)
LEMMA ZeroIsNoChar == Zero \notin Chars
<1>1. Len(Zero) = 1
  BY DEF Zero
<1>2. \A c \in Chars : Len(c) = 2
  BY DEF Chars
<1> QED
  BY <1>1, <1>2

(* A cleared buffer holds no characters. *)
LEMMA EmptyHolds == Holds([i \in Cells |-> Zero], 0, 0, <<>>)
<1>1. \A j \in Cells : (0 + j) % Size \in Cells
  BY KeyboardAssumption DEF Cells
<1>2. Len(<<>>) = 0 /\ \A j \in Cells : ~(j < 0)
  BY DEF Cells
<1>3. (0 + 0) % Word = 0
  BY KeyboardAssumption
<1> QED
  BY <1>1, <1>2, <1>3 DEF Holds

-------------------------------------------------------------------------------
(* The inductive invariant. *)

LEMMA InitKeyInv == KeyInit => KeyInv
<1> SUFFICES ASSUME KeyInit PROVE KeyInv
  OBVIOUS
<1> USE KeyboardAssumption
<1>1. KeyTypeOK
  BY DEF KeyInit, KeyTypeOK, Cells
<1>2. HistoryTypeOK
  <2>1. <<>> \in Seq(Chars) /\ Len(<<>>) <= Size
    OBVIOUS
  <2>2. unread \in [Processes -> Seq(Chars)] /\ \A p \in Processes : unread[p] = <<>>
    BY <2>1 DEF KeyInit
  <2> QED
    BY <2>1, <2>2 DEF KeyInit, HistoryTypeOK
<1>3. RingHoldsUnread
  <2>1. \A p \in Processes : /\ buffer[p] = [i \in Cells |-> Zero] /\ unread[p] = <<>>
                             /\ head[p] = 0 /\ tail[p] = 0
    BY DEF KeyInit
  <2> QED
    BY <2>1, EmptyHolds DEF RingHoldsUnread, Holds
<1> QED
  BY <1>1, <1>2, <1>3 DEF KeyInv

(* A key is pushed for the process that has the focus: into the first cell *)
(* behind the unread characters, or over the oldest one when the buffer is *)
(* full.                                                                   *)
LEMMA PressKeepsInv ==
    ASSUME KeyInv, NEW key \in Letters \cup Others, Press(key)
    PROVE  KeyInv'
<1> DEFINE c == pso2_keyboard_scancode_to_char(key)
           t == keyboard_get_tail_index(focus)
<1>1. c \in Chars
  BY DEF pso2_keyboard_scancode_to_char, Chars
<1>2. t \in Cells
  BY KeyboardAssumption DEF KeyInv, KeyTypeOK, keyboard_get_tail_index, Cells
<1> HIDE DEF c, t
<1>3. /\ buffer' = [buffer EXCEPT ![focus][t] = c]
      /\ tail' = [tail EXCEPT ![focus] = (tail[focus] + 1) % Word]
      /\ UNCHANGED <<head, capslock, focus, running>>
  BY DEF Press, keyboard_push, c, t
<1>4. KeyTypeOK'
  <2>1. \A x \in Nat : x % Word \in 0 .. Word - 1
    BY KeyboardAssumption
  <2>2. tail' \in [Processes -> 0 .. Word - 1]
    BY <1>3, <2>1 DEF KeyInv, KeyTypeOK
  <2>3. buffer' \in [Processes -> [Cells -> Chars \cup {Zero}]]
    BY <1>1, <1>2, <1>3 DEF KeyInv, KeyTypeOK
  <2> QED
    BY <1>3, <2>2, <2>3 DEF KeyInv, KeyTypeOK, Press, keyboard_push
<1>5. CASE Len(unread[focus]) = Size \/ focus \in overrun
  <2>1. /\ overrun' = overrun \cup {focus}
        /\ unread' = [unread EXCEPT ![focus] = <<>>]
    BY <1>5 DEF Press, keyboard_push
  <2>2. HistoryTypeOK'
    <3>1. <<>> \in Seq(Chars) /\ Len(<<>>) <= Size
      BY KeyboardAssumption
    <3> QED
      BY <1>3, <2>1, <3>1 DEF KeyInv, HistoryTypeOK
  <2>3. RingHoldsUnread'
    <3>1. \A p \in Processes \ overrun' :
             /\ p \in Processes \ overrun
             /\ buffer'[p] = buffer[p] /\ tail'[p] = tail[p] /\ head'[p] = head[p]
             /\ unread'[p] = unread[p]
      BY <1>3, <2>1 DEF KeyInv, KeyTypeOK, HistoryTypeOK
    <3> QED
      BY <3>1 DEF KeyInv, RingHoldsUnread
  <2> QED
    BY <1>4, <2>2, <2>3 DEF KeyInv
<1>6. CASE Len(unread[focus]) # Size /\ focus \notin overrun
  <2>1. /\ overrun' = overrun
        /\ unread' = [unread EXCEPT ![focus] = Append(unread[focus], c)]
    BY <1>6 DEF Press, keyboard_push, c
  <2>2. /\ focus \in Processes /\ unread[focus] \in Seq(Chars)
        /\ Len(unread[focus]) \in Nat /\ Len(unread[focus]) < Size
    BY <1>6, KeyboardAssumption, LenProperties DEF KeyInv, KeyTypeOK, HistoryTypeOK
  <2> DEFINE h == head[focus]
             n == Len(unread[focus])
  <2>3. /\ h \in Nat /\ h < Word /\ n \in Nat /\ n \in Cells
        /\ tail[focus] = (h + n) % Word
        /\ \A j \in Cells :
              buffer[focus][(h + j) % Size] = IF j < n THEN unread[focus][j + 1] ELSE Zero
    <3>1. h \in Nat /\ h < Word
      BY <2>2, KeyboardAssumption DEF KeyInv, KeyTypeOK
    <3>2. n \in Nat /\ n \in Cells
      BY <2>2, KeyboardAssumption DEF Cells
    <3>3. focus \in Processes \ overrun
      BY <1>6, <2>2
    <3> QED
      BY <3>1, <3>2, <3>3 DEF KeyInv, RingHoldsUnread
  <2>4. /\ unread'[focus] = Append(unread[focus], c)
        /\ unread'[focus] \in Seq(Chars)
        /\ Len(unread'[focus]) = n + 1
        /\ \A j \in 1 .. n : unread'[focus][j] = unread[focus][j]
        /\ unread'[focus][n + 1] = c
    BY <1>1, <2>1, <2>2 DEF KeyInv, HistoryTypeOK
  <2>5. HistoryTypeOK'
    BY <1>3, <2>1, <2>2, <2>4, KeyboardAssumption DEF KeyInv, HistoryTypeOK
  <2>6. t = (h + n) % Size
    <3>1. Size <= Word
      BY WordMultiple
    <3> HIDE DEF h
    <3>2. h + n \in Nat /\ h + n < 2 * Word
      BY <2>2, <2>3, <3>1, KeyboardAssumption
    <3>3. t = ((h + n) % Word) % Size
      BY <2>3 DEF t, keyboard_get_tail_index
    <3> HIDE DEF n
    <3>4. ((h + n) % Word) + 0 = (h + n) % Word /\ h + n + 0 = h + n
      BY <3>2, KeyboardAssumption
    <3> QED
      BY <3>2, <3>3, <3>4, WrapKeepsCell
  <2>7. tail'[focus] = (h + (n + 1)) % Word
    <3>1. tail'[focus] = (((h + n) % Word) + 1) % Word
      BY <1>3, <2>2, <2>3 DEF KeyInv, KeyTypeOK
    <3> HIDE DEF h, n
    <3>2. h + n \in Int /\ Word \in Nat \ {0} /\ h + n + 1 = h + (n + 1)
      BY <2>3, KeyboardAssumption
    <3>3. (((h + n) % Word) + 1) % Word = (h + n + 1) % Word
      BY <3>2, ModAdd
    <3> QED
      BY <3>1, <3>2, <3>3
  <2>8. ASSUME NEW j \in Cells
        PROVE  buffer'[focus][(h + j) % Size] =
                   IF j < n + 1 THEN unread'[focus][j + 1] ELSE Zero
    <3>1. (h + j) % Size \in Cells
      BY <2>3, KeyboardAssumption DEF Cells
    <3>2. buffer'[focus][(h + j) % Size] =
             IF (h + j) % Size = t THEN c ELSE buffer[focus][(h + j) % Size]
      BY <1>2, <1>3, <2>2, <3>1 DEF KeyInv, KeyTypeOK
    <3>3. (h + j) % Size = t <=> j = n
      <4> HIDE DEF h, n
      <4> QED
        BY <2>3, <2>6, CellsDiffer
    <3> HIDE DEF h, n
    <3> QED
      BY <2>3, <2>4, <3>2, <3>3 DEF Cells
  <2>9. ASSUME NEW p \in Processes \ overrun', p # focus
        PROVE  /\ p \in Processes \ overrun
               /\ buffer'[p] = buffer[p] /\ tail'[p] = tail[p] /\ head'[p] = head[p]
               /\ unread'[p] = unread[p]
    BY <1>3, <2>1, <2>9 DEF KeyInv, KeyTypeOK, HistoryTypeOK
  <2>10. Holds(buffer'[focus], head'[focus], tail'[focus], unread'[focus])
    BY <1>3, <2>4, <2>7, <2>8 DEF Holds
  <2>11. \A p \in Processes \ overrun : Holds(buffer[p], head[p], tail[p], unread[p])
    BY DEF KeyInv, RingHoldsUnread, Holds
  <2>12. \A p \in Processes \ overrun' : Holds(buffer'[p], head'[p], tail'[p], unread'[p])
    BY <1>3, <2>9, <2>10, <2>11
  <2>13. RingHoldsUnread'
    BY <2>12 DEF RingHoldsUnread, Holds
  <2> QED
    BY <1>4, <2>5, <2>13 DEF KeyInv
<1> QED
  BY <1>5, <1>6

(* A process reads the first unread character of its own buffer, clears    *)
(* the cell, and the cell becomes the last free one.                       *)
LEMMA PopKeepsInv ==
    ASSUME KeyInv, keyboard_pop
    PROVE  KeyInv'
<1> DEFINE h == head[running]
           u == unread[running]
           n == Len(u)
           c == h % Size
<1>1. /\ running \in Processes /\ h \in Nat /\ h < Word /\ c \in Cells
      /\ u \in Seq(Chars) /\ n \in Nat /\ n <= Size
  BY KeyboardAssumption DEF KeyInv, KeyTypeOK, HistoryTypeOK, Cells
<1>2. /\ buffer[running][c] # Zero
      /\ buffer' = [buffer EXCEPT ![running][c] = Zero]
      /\ head' = [head EXCEPT ![running] = (h + 1) % Word]
      /\ unread' = [unread EXCEPT ![running] = IF u = <<>> THEN u ELSE Tail(u)]
      /\ UNCHANGED <<tail, capslock, focus, running, overrun>>
  BY DEF keyboard_pop, Popped
<1>3. KeyTypeOK'
  <2>1. (h + 1) % Word \in 0 .. Word - 1
    BY <1>1, KeyboardAssumption
  <2>2. buffer' \in [Processes -> [Cells -> Chars \cup {Zero}]]
    BY <1>1, <1>2 DEF KeyInv, KeyTypeOK
  <2> QED
    BY <1>2, <2>1, <2>2 DEF KeyInv, KeyTypeOK
<1>4. HistoryTypeOK'
  <2>1. u # <<>> => Tail(u) \in Seq(Chars) /\ Len(Tail(u)) = n - 1
    BY <1>1
  <2>2. /\ unread'[running] \in Seq(Chars) /\ Len(unread'[running]) <= Size
        /\ \A p \in Processes : p # running => unread'[p] = unread[p]
        /\ unread' \in [Processes -> Seq(Chars)]
    BY <1>1, <1>2, <2>1, KeyboardAssumption DEF KeyInv, HistoryTypeOK
  <2> QED
    BY <1>2, <2>2 DEF KeyInv, HistoryTypeOK
<1>5. ASSUME running \notin overrun
      PROVE  /\ tail'[running] = (head'[running] + Len(unread'[running])) % Word
             /\ \A j \in Cells :
                   buffer'[running][(head'[running] + j) % Size] =
                       IF j < Len(unread'[running]) THEN unread'[running][j + 1] ELSE Zero
  <2>1. /\ tail[running] = (h + n) % Word
        /\ \A j \in Cells :
              buffer[running][(h + j) % Size] = IF j < n THEN u[j + 1] ELSE Zero
    BY <1>1, <1>5 DEF KeyInv, RingHoldsUnread
  <2>2. n > 0 /\ u # <<>>
    <3>1. buffer[running][(h + 0) % Size] = IF 0 < n THEN u[0 + 1] ELSE Zero
      BY <2>1, KeyboardAssumption DEF Cells
    <3> QED
      BY <1>1, <1>2, <3>1
  <2>3. /\ unread'[running] = Tail(u) /\ Len(Tail(u)) = n - 1
        /\ \A j \in 1 .. n - 1 : Tail(u)[j] = u[j + 1]
        /\ head'[running] = (h + 1) % Word
    BY <1>1, <1>2, <2>2 DEF KeyInv, KeyTypeOK, HistoryTypeOK
  <2>4. tail'[running] = (((h + 1) % Word) + (n - 1)) % Word
    <3>1. Size <= Word
      BY WordMultiple
    <3>2. tail'[running] = (h + n) % Word
      BY <1>2, <2>1
    <3> HIDE DEF h, n
    <3> QED
      BY <1>1, <2>2, <3>1, <3>2, KeyboardAssumption
  <2>5. ASSUME NEW j \in Cells
        PROVE  buffer'[running][(((h + 1) % Word) + j) % Size] =
                   IF j < n - 1 THEN Tail(u)[j + 1] ELSE Zero
    <3>1. (((h + 1) % Word) + j) % Size = (h + 1 + j) % Size
      <4>1. h + 1 \in Nat /\ h + 1 < 2 * Word /\ j \in Nat
        BY <1>1, KeyboardAssumption DEF Cells
      <4> HIDE DEF h
      <4> QED
        BY <4>1, WrapKeepsCell
    <3>2. (h + 1 + j) % Size \in Cells
      BY <1>1, KeyboardAssumption DEF Cells
    <3>3. buffer'[running][(h + 1 + j) % Size] =
             IF (h + 1 + j) % Size = c THEN Zero ELSE buffer[running][(h + 1 + j) % Size]
      BY <1>1, <1>2, <3>2 DEF KeyInv, KeyTypeOK
    <3>4. CASE j = Size - 1
      <4>1. h + 1 + j = h + Size
        BY <1>1, <3>4, KeyboardAssumption
      <4>2. (h + 1 + j) % Size = c
        <5> HIDE DEF h
        <5> QED
          BY <1>1, <4>1, CellsWrap DEF c
      <4> HIDE DEF h, n
      <4> QED
        BY <1>1, <3>1, <3>3, <3>4, <4>2, KeyboardAssumption
    <3>5. CASE j # Size - 1
      <4>1. j + 1 \in Cells /\ j \in Nat /\ h + 1 + j = h + (j + 1) /\ h + 0 = h /\ 0 \in Cells
        BY <1>1, <3>5, KeyboardAssumption DEF Cells
      <4>2. (h + 1 + j) % Size # c
        <5> HIDE DEF h
        <5>1. (h + (j + 1)) % Size = (h + 0) % Size => j + 1 = 0
          BY <1>1, <4>1, CellsDiffer
        <5> QED
          BY <4>1, <5>1 DEF c
      <4>3. buffer[running][(h + 1 + j) % Size] = IF j + 1 < n THEN u[j + 1 + 1] ELSE Zero
        BY <2>1, <4>1
      <4>4. j < n - 1 => Tail(u)[j + 1] = u[j + 1 + 1]
        BY <1>1, <2>3, <4>1
      <4>5. j + 1 < n <=> j < n - 1
        BY <1>1, <4>1
      <4> HIDE DEF h, u, n, c
      <4> QED
        BY <3>1, <3>3, <4>2, <4>3, <4>4, <4>5
    <3> QED
      BY <3>4, <3>5
  <2> HIDE DEF h, u, n, c
  <2> QED
    BY <2>3, <2>4, <2>5
<1>6. ASSUME NEW p \in Processes \ overrun', p # running
      PROVE  /\ p \in Processes \ overrun
             /\ buffer'[p] = buffer[p] /\ tail'[p] = tail[p] /\ head'[p] = head[p]
             /\ unread'[p] = unread[p]
  BY <1>2, <1>6 DEF KeyInv, KeyTypeOK, HistoryTypeOK
<1>7. running \notin overrun =>
         Holds(buffer'[running], head'[running], tail'[running], unread'[running])
  <2> HIDE DEF h, u, n, c
  <2> QED
    BY <1>5 DEF Holds
<1>8. \A p \in Processes \ overrun : Holds(buffer[p], head[p], tail[p], unread[p])
  BY DEF KeyInv, RingHoldsUnread, Holds
<1>9. \A p \in Processes \ overrun' : Holds(buffer'[p], head'[p], tail'[p], unread'[p])
  BY <1>2, <1>6, <1>7, <1>8
<1>10. RingHoldsUnread'
  BY <1>9 DEF RingHoldsUnread, Holds
<1> QED
  BY <1>3, <1>4, <1>10 DEF KeyInv

(* A new process begins with an empty buffer. *)
LEMMA ProcessInitKeepsInv ==
    ASSUME KeyInv, NEW p \in Processes, process_init(p)
    PROVE  KeyInv'
<1> USE KeyboardAssumption
<1>1. KeyTypeOK'
  BY DEF KeyInv, KeyTypeOK, process_init, Cells
<1>2. HistoryTypeOK'
  <2>1. <<>> \in Seq(Chars) /\ Len(<<>>) <= Size
    OBVIOUS
  <2> QED
    BY <2>1 DEF KeyInv, HistoryTypeOK, process_init
<1>3. /\ buffer'[p] = [i \in Cells |-> Zero] /\ head'[p] = 0 /\ tail'[p] = 0
      /\ unread'[p] = <<>>
  BY DEF KeyInv, KeyTypeOK, HistoryTypeOK, process_init
<1>4. ASSUME NEW q \in Processes \ overrun', q # p
      PROVE  /\ q \in Processes \ overrun
             /\ buffer'[q] = buffer[q] /\ tail'[q] = tail[q] /\ head'[q] = head[q]
             /\ unread'[q] = unread[q]
  BY <1>4 DEF KeyInv, KeyTypeOK, HistoryTypeOK, process_init
<1>5. \A q \in Processes \ overrun : Holds(buffer[q], head[q], tail[q], unread[q])
  BY DEF KeyInv, RingHoldsUnread, Holds
<1>6. \A q \in Processes \ overrun' : Holds(buffer'[q], head'[q], tail'[q], unread'[q])
  BY <1>3, <1>4, <1>5, EmptyHolds
<1>7. RingHoldsUnread'
  BY <1>6 DEF RingHoldsUnread, Holds
<1> QED
  BY <1>1, <1>2, <1>7 DEF KeyInv

(* A step in which the buffers, the counters and the histories stay. *)
LEMMA QuietStepKeepsInv ==
    ASSUME KeyInv, UNCHANGED <<buffer, head, tail, unread, overrun>>,
           capslock' \in BOOLEAN, focus' \in Processes, running' \in Processes
    PROVE  KeyInv'
BY DEF KeyInv, KeyTypeOK, HistoryTypeOK, RingHoldsUnread

LEMMA NextKeepsKeyInv ==
    ASSUME KeyInv, [KeyNext]_keyVars
    PROVE  KeyInv'
<1>1. focus \in Processes /\ running \in Processes /\ capslock \in BOOLEAN
  BY DEF KeyInv, KeyTypeOK, HistoryTypeOK
<1>2. CASE \E key \in Letters \cup Others : Press(key)
  BY <1>2, PressKeepsInv
<1>3. CASE PressCapsLock
  BY <1>1, <1>3, QuietStepKeepsInv DEF PressCapsLock
<1>4. CASE keyboard_pop
  BY <1>4, PopKeepsInv
<1>5. CASE Switch
  BY <1>1, <1>5, QuietStepKeepsInv DEF Switch
<1>6. CASE \E p \in Processes : process_init(p)
  BY <1>6, ProcessInitKeepsInv
<1>7. CASE UNCHANGED keyVars
  BY <1>1, <1>7, QuietStepKeepsInv DEF keyVars
<1> QED
  BY <1>2, <1>3, <1>4, <1>5, <1>6, <1>7 DEF KeyNext

LEMMA KeyInvariant == KeySpec => []KeyInv
<1>1. KeyInit => KeyInv
  BY InitKeyInv
<1>2. KeyInv /\ [KeyNext]_keyVars => KeyInv'
  BY NextKeepsKeyInv
<1> QED
  BY <1>1, <1>2, PTL DEF KeySpec

(* The first cell of the unread characters is the one getkey reads. *)
LEMMA InvGivesOrder == KeyInv => GetKeyInOrder
<1> SUFFICES ASSUME KeyInv PROVE GetKeyInOrder
  OBVIOUS
<1> SUFFICES ASSUME NEW p \in Processes \ overrun
             PROVE  Popped(p) = IF unread[p] = <<>> THEN Zero ELSE Head(unread[p])
  BY DEF GetKeyInOrder
<1>1. head[p] \in Nat /\ unread[p] \in Seq(Chars) /\ Len(unread[p]) \in Nat
  BY DEF KeyInv, KeyTypeOK, HistoryTypeOK
<1>2. buffer[p][(head[p] + 0) % Size] = IF 0 < Len(unread[p]) THEN unread[p][0 + 1] ELSE Zero
  BY KeyboardAssumption DEF KeyInv, RingHoldsUnread, Cells
<1>3. Popped(p) = IF 0 < Len(unread[p]) THEN unread[p][1] ELSE Zero
  BY <1>1, <1>2 DEF Popped
<1> QED
  BY <1>1, <1>3

-------------------------------------------------------------------------------
(* Theorems. *)

(* The keyboard's state has its type: the counters stay below the word     *)
(* size although push and pop only ever add to them, and a cell holds a    *)
(* character or 0 (keyboard.c, process.h).                                 *)
THEOREM KeyboardTypeCorrect == KeySpec => []KeyTypeOK
<1>1. KeyInv => KeyTypeOK
  BY DEF KeyInv
<1> QED
  BY <1>1, KeyInvariant, PTL

(* Until a buffer is overrun, reader and writer agree on it: the cells     *)
(* from head on hold the characters typed and not read, in order, and the  *)
(* others hold 0, for every buffer size that divides the word size, also   *)
(* after the counters have wrapped (keyboard_push, keyboard_pop).          *)
THEOREM RingSound == KeySpec => []RingHoldsUnread
<1>1. KeyInv => RingHoldsUnread
  BY DEF KeyInv
<1> QED
  BY <1>1, KeyInvariant, PTL

(* A process that is told that there is no key has read all that was typed *)
(* for it: no key lies in its buffer where getkey does not look.           *)
ZeroMeansNone ==
    \A p \in Processes \ overrun : Popped(p) = Zero <=> unread[p] = <<>>

(* getkey gives its caller the oldest character typed for it, and 0 only   *)
(* when there is none, whichever process had the focus meanwhile, until    *)
(* the caller's buffer is overrun (keyboard_pop,                           *)
(* isr80h_command2_getkey).                                                *)
THEOREM KeysInOrder == KeySpec => []GetKeyInOrder
BY InvGivesOrder, KeyInvariant, PTL

(* getkey answers 0 if and only if nothing is left to read for its caller, *)
(* until the caller's buffer is overrun: polling with getkey misses no key *)
(* (keyboard_pop, pandora_getkeyblock).                                    *)
THEOREM PollingMissesNothing == KeySpec => []ZeroMeansNone
<1>1. ASSUME KeyInv PROVE ZeroMeansNone
  <2> SUFFICES ASSUME NEW p \in Processes \ overrun
               PROVE  Popped(p) = Zero <=> unread[p] = <<>>
    BY DEF ZeroMeansNone
  <2>1. Popped(p) = IF unread[p] = <<>> THEN Zero ELSE Head(unread[p])
    BY <1>1, InvGivesOrder DEF GetKeyInOrder
  <2>2. unread[p] \in Seq(Chars) /\ (unread[p] # <<>> => Head(unread[p]) \in Chars)
    BY <1>1 DEF KeyInv, HistoryTypeOK
  <2> QED
    BY <2>1, <2>2, ZeroIsNoChar
<1> QED
  BY <1>1, KeyInvariant, PTL
===============================================================================
