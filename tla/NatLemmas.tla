------------------------------ MODULE NatLemmas ------------------------------
(* Facts about natural numbers that the proofs of several modules need. *)
EXTENDS Integers, FiniteSetsExt, TLAPS, WellFoundedInduction

(* A nonempty set of naturals has a least element and Min picks it: what   *)
(* "the first free block" and "the first free slot" rest on.               *)
LEMMA MinElement ==
    ASSUME NEW S, S \subseteq Nat, S # {}
    PROVE  Min(S) \in S /\ \A y \in S : Min(S) <= y
<1> DEFINE R == {p \in Nat \X Nat : p[1] < p[2]}
<1>1. R = OpToRel(<, Nat)
  BY Zenon DEF OpToRel
<1>2. IsWellFoundedOn(R, Nat)
  BY <1>1, NatLessThanWellFounded, Zenon
<1>3. PICK x \in S : \A y \in S : ~(<<y, x>> \in R)
  <2> HIDE DEF R
  <2> QED
    BY <1>2, WFMin
<1>4. ASSUME NEW y \in S, ~(x <= y)
      PROVE  FALSE
  <2>1. <<y, x>> \in Nat \X Nat /\ <<y, x>>[1] < <<y, x>>[2]
    BY <1>4
  <2>2. <<y, x>> \in R
    BY <2>1, Zenon
  <2> HIDE DEF R
  <2> QED
    BY <2>2, <1>3
<1> QED
  BY <1>4 DEF Min

(* A least element is the only one. *)
LEMMA MinIs ==
    ASSUME NEW S, S \subseteq Nat, NEW m \in S, \A y \in S : m <= y
    PROVE  Min(S) = m
<1>1. Min(S) \in S /\ \A y \in S : Min(S) <= y
  BY MinElement
<1>2. Min(S) \in Nat /\ m \in Nat /\ Min(S) <= m /\ m <= Min(S)
  BY <1>1
<1> QED
  BY <1>2

LEMMA MaxIs ==
    ASSUME NEW S, S \subseteq Nat, NEW m \in S, \A y \in S : m >= y
    PROVE  Max(S) = m
<1>1. Max(S) \in S /\ \A y \in S : Max(S) >= y
  BY DEF Max
<1>2. Max(S) \in Nat /\ m \in Nat /\ Max(S) <= m /\ m <= Max(S)
  BY <1>1
<1> QED
  BY <1>2

(* A factor can be cancelled on both sides of a comparison. *)
LEMMA FactorOrder ==
    ASSUME NEW n \in Nat \ {0}, NEW a \in Int, NEW b \in Int
    PROVE  (n * a <= n * b <=> a <= b) /\ (n * a < n * b <=> a < b)
OBVIOUS

LEMMA ProductNat ==
    ASSUME NEW a \in Nat, NEW b \in Nat
    PROVE  a * b \in Nat
OBVIOUS

(* A quotient and a remainder below the divisor are the ones of the        *)
(* division.                                                               *)
LEMMA ModUnique ==
    ASSUME NEW n \in Nat \ {0}, NEW q \in Int, NEW r \in 0 .. n - 1
    PROVE  (n * q + r) % n = r /\ (n * q + r) \div n = q
OBVIOUS

(* What a remainder is. *)
LEMMA DivMod ==
    ASSUME NEW n \in Nat \ {0}, NEW a \in Int
    PROVE  /\ a % n \in 0 .. n - 1
           /\ a \div n \in Int
           /\ a = n * (a \div n) + (a % n)
OBVIOUS

(* A remainder can be taken before an addition as well. *)
LEMMA ModAdd ==
    ASSUME NEW n \in Nat \ {0}, NEW a \in Int, NEW b \in Int
    PROVE  ((a % n) + b) % n = (a + b) % n
<1> DEFINE q == a \div n
           q2 == (a + b) \div n
           r2 == (a + b) % n
<1>1. q \in Int /\ a % n \in Int /\ a = n * q + (a % n)
  <2>1. q \in Int /\ a % n \in 0 .. n - 1 /\ a = n * q + (a % n)
    BY DivMod, Zenon
  <2> QED
    BY <2>1
<1>2. q2 \in Int /\ r2 \in 0 .. n - 1 /\ a + b = n * q2 + r2
  <2>1. a + b \in Int
    OBVIOUS
  <2> QED
    BY <2>1, DivMod, Zenon
<1> HIDE DEF q, q2, r2
<1>3. (a % n) + b = n * (q2 - q) + r2 /\ q2 - q \in Int
  BY <1>1, <1>2
<1>4. (n * (q2 - q) + r2) % n = r2
  BY <1>2, <1>3, ModUnique, Zenon
<1> QED
  BY <1>3, <1>4 DEF r2

(* Induction, for a set instead of a predicate: a set that contains 0 and, *)
(* with each number below n, the next one, contains all numbers up to n.   *)
LEMMA Induction ==
    ASSUME NEW n \in Nat, NEW S, 0 \in S, \A i \in S \cap (0 .. n - 1) : i + 1 \in S
    PROVE  0 .. n \subseteq S
<1> DEFINE Out == (0 .. n) \ S
<1> SUFFICES ASSUME Out # {} PROVE FALSE
  OBVIOUS
<1>1. Out \subseteq Nat
  OBVIOUS
<1> DEFINE m == Min(Out)
<1>2. m \in Out /\ \A y \in Out : m <= y
  <2> HIDE DEF Out
  <2> QED
    BY <1>1, MinElement
<1> HIDE DEF m
<1>3. m \in 1 .. n /\ m \notin S
  BY <1>2
<1>4. m - 1 \in S \cap (0 .. n - 1) /\ m - 1 + 1 = m
  BY <1>2, <1>3
<1> QED
  BY <1>3, <1>4

(* g[i] is the value after i iterations of a loop over 1 .. n. *)
LoopValues(g, n, T, base, step) ==
    /\ g \in [0 .. n -> T]
    /\ g[0] = base
    /\ \A i \in 1 .. n : g[i] = step[<<g[i - 1], i>>]

(* A loop over 1 .. n has a result: there is a function that gives the     *)
(* value after each iteration.  The step of the loop is a function of the  *)
(* value before it and of the iteration.  What a recursive function on     *)
(* 0 .. n returns follows from this lemma.                                 *)
LEMMA LoopHasValues ==
    ASSUME NEW n \in Nat, NEW T, NEW base \in T, NEW step \in [T \X (1 .. n) -> T]
    PROVE  \E g : LoopValues(g, n, T, base, step)
<1> DEFINE Values(g, m) == g[0] = base /\ \A i \in 1 .. m : g[i] = step[<<g[i - 1], i>>]
           S == {m \in 0 .. n : \E g \in [0 .. m -> T] : Values(g, m)}
<1>1. 0 \in S
  <2> DEFINE g == [i \in 0 .. 0 |-> base]
  <2>1. g \in [0 .. 0 -> T] /\ Values(g, 0)
    OBVIOUS
  <2> HIDE DEF g, Values
  <2> QED
    BY <2>1
<1>2. ASSUME NEW m \in S \cap (0 .. n - 1)
      PROVE  m + 1 \in S
  <2>1. PICK g \in [0 .. m -> T] : Values(g, m)
    OBVIOUS
  <2> DEFINE x == step[<<g[m], m + 1>>]
             f == [i \in 0 .. m + 1 |-> IF i = m + 1 THEN x ELSE g[i]]
  <2>2. x \in T
    OBVIOUS
  <2> HIDE DEF x
  <2>3. f \in [0 .. m + 1 -> T]
    BY <2>2
  <2>4. f[0] = base
    BY <2>1
  <2>5. ASSUME NEW i \in 1 .. m + 1
        PROVE  f[i] = step[<<f[i - 1], i>>]
    <3>1. CASE i = m + 1
      <4>1. m \in 0 .. m + 1 /\ m + 1 \in 0 .. m + 1 /\ m # m + 1 /\ (m + 1) - 1 = m
        OBVIOUS
      <4>2. f[m + 1] = x /\ f[m] = g[m]
        BY <4>1
      <4> HIDE DEF f
      <4>3. f[m + 1] = step[<<f[m], m + 1>>]
        BY <4>2 DEF x
      <4> QED
        BY <3>1, <4>1, <4>3
    <3>2. CASE i \in 1 .. m
      BY <2>1, <3>2
    <3> QED
      BY <3>1, <3>2
  <2> HIDE DEF f
  <2>6. Values(f, m + 1) /\ m + 1 \in 0 .. n
    BY <2>4, <2>5
  <2> HIDE DEF Values
  <2> QED
    BY <2>3, <2>6
<1>3. n \in S
  <2> HIDE DEF S
  <2>1. 0 .. n \subseteq S
    BY <1>1, <1>2, Induction
  <2> QED
    BY <2>1
<1> QED
  BY <1>3 DEF LoopValues

(* Two functions that begin alike and go on alike are the same on 0 .. n:  *)
(* a recursive function on 0 .. n is the one that LoopHasValues gives.     *)
Alike(f, g, n) == f[0] = g[0] /\ \A k \in 1 .. n : f[k - 1] = g[k - 1] => f[k] = g[k]
Agree(f, g, n) == \A k \in 0 .. n : f[k] = g[k]

LEMMA LoopAgree ==
    ASSUME NEW n \in Nat, NEW f, NEW g, Alike(f, g, n)
    PROVE  Agree(f, g, n)
<1>0. f[0] = g[0] /\ \A k \in 1 .. n : f[k - 1] = g[k - 1] => f[k] = g[k]
  BY DEF Alike
<1> DEFINE S == {k \in 0 .. n : f[k] = g[k]}
<1>1. 0 \in S
  BY <1>0
<1>2. ASSUME NEW k \in S \cap (0 .. n - 1) PROVE k + 1 \in S
  <2> DEFINE m == k + 1
  <2>1. m \in 1 .. n /\ m - 1 = k /\ f[k] = g[k]
    OBVIOUS
  <2> HIDE DEF m
  <2>2. f[m] = g[m]
    BY <1>0, <2>1
  <2> QED
    BY <2>1, <2>2 DEF m
<1>3. 0 .. n \subseteq S
  <2> HIDE DEF S
  <2> QED
    BY <1>1, <1>2, Induction
<1> QED
  BY <1>3 DEF Agree

(* Induction from all smaller numbers. *)
LEMMA StrongInduction ==
    ASSUME NEW n \in Nat, NEW S, \A m \in 0 .. n : 0 .. m - 1 \subseteq S => m \in S
    PROVE  0 .. n \subseteq S
<1> DEFINE Out == (0 .. n) \ S
<1> SUFFICES ASSUME Out # {} PROVE FALSE
  OBVIOUS
<1>1. Out \subseteq Nat
  OBVIOUS
<1> DEFINE m == Min(Out)
<1>2. m \in Out /\ \A y \in Out : m <= y
  <2> HIDE DEF Out
  <2> QED
    BY <1>1, MinElement
<1> HIDE DEF m
<1>3. m \in 0 .. n /\ m \notin S
  BY <1>2
<1>4. ASSUME NEW y \in 0 .. m - 1 PROVE y \in S
  <2>1. y \in 0 .. n /\ ~(m <= y)
    BY <1>3
  <2> QED
    BY <1>2, <2>1
<1> QED
  BY <1>3, <1>4

(* g is defined from n down: each value by that of a smaller argument,     *)
(* except where the descent stops.                                         *)
DescentValues(g, n, T, stop, leaf, prev, step) ==
    /\ g \in [0 .. n -> T]
    /\ \A t \in 0 .. n : g[t] = IF t \in stop THEN leaf[t] ELSE step[<<g[prev[t]], t>>]

(* Such a function exists. *)
LEMMA DescentHasValues ==
    ASSUME NEW n \in Nat, NEW T, NEW stop, NEW leaf \in [0 .. n -> T], NEW prev,
           NEW step \in [T \X (0 .. n) -> T],
           \A t \in 0 .. n : t \notin stop => prev[t] \in 0 .. t - 1
    PROVE  \E g : DescentValues(g, n, T, stop, leaf, prev, step)
<1> DEFINE Values(g, m) ==
               \A t \in 0 .. m : g[t] = IF t \in stop THEN leaf[t] ELSE step[<<g[prev[t]], t>>]
           S == {m \in 0 .. n : \E g \in [0 .. m -> T] : Values(g, m)}
<1>1. 0 \in S
  <2> DEFINE g == [i \in 0 .. 0 |-> leaf[0]]
  <2>1. 0 \in stop
    OBVIOUS
  <2>2. leaf[0] \in T
    OBVIOUS
  <2>3. g \in [0 .. 0 -> T]
    BY <2>2
  <2>4. Values(g, 0)
    BY <2>1
  <2> HIDE DEF g, Values
  <2> QED
    BY <2>3, <2>4
<1>2. ASSUME NEW m \in S \cap (0 .. n - 1)
      PROVE  m + 1 \in S
  <2>1. PICK g \in [0 .. m -> T] : Values(g, m)
    OBVIOUS
  <2> DEFINE x == IF m + 1 \in stop THEN leaf[m + 1] ELSE step[<<g[prev[m + 1]], m + 1>>]
             f == [i \in 0 .. m + 1 |-> IF i = m + 1 THEN x ELSE g[i]]
  <2>2. x \in T
    <3>1. CASE m + 1 \in stop
      BY <3>1
    <3>2. CASE m + 1 \notin stop
      <4>1. prev[m + 1] \in 0 .. m
        BY <3>2
      <4>2. g[prev[m + 1]] \in T /\ m + 1 \in 0 .. n
        BY <4>1
      <4> QED
        BY <3>2, <4>2
    <3> QED
      BY <3>1, <3>2
  <2> HIDE DEF x
  <2>3. f \in [0 .. m + 1 -> T]
    BY <2>2
  <2>4. ASSUME NEW t \in 0 .. m + 1
        PROVE  f[t] = IF t \in stop THEN leaf[t] ELSE step[<<f[prev[t]], t>>]
    <3>1. t \notin stop => prev[t] \in 0 .. m /\ f[prev[t]] = g[prev[t]]
      OBVIOUS
    <3> HIDE DEF f
    <3>2. CASE t = m + 1
      <4>1. f[t] = x
        BY <3>2 DEF f
      <4> QED
        BY <3>1, <3>2, <4>1 DEF x
    <3>3. CASE t \in 0 .. m
      <4>1. f[t] = g[t]
        BY <3>3 DEF f
      <4> QED
        BY <2>1, <3>1, <3>3, <4>1
    <3> QED
      BY <3>2, <3>3
  <2> HIDE DEF f
  <2>5. Values(f, m + 1) /\ m + 1 \in 0 .. n
    BY <2>4
  <2> HIDE DEF Values
  <2> QED
    BY <2>3, <2>5
<1>3. n \in S
  <2> HIDE DEF S
  <2>1. 0 .. n \subseteq S
    BY <1>1, <1>2, Induction
  <2> QED
    BY <2>1
<1> QED
  BY <1>3 DEF DescentValues
===============================================================================
