------------------------------ MODULE Fat16Proofs ------------------------------
(***************************************************************************)
(* Proofs about Fat16: what a read of a file returns, for any sizes of     *)
(* sectors and clusters, any volume, any chain of clusters and any read.   *)
(***************************************************************************)
EXTENDS Fat16, NatLemmas, SequenceTheorems

LEMMA FatNumbers ==
    /\ SectorSize \in Nat \ {0} /\ SectorsPerCluster \in Nat \ {0}
    /\ DataSector \in Nat /\ MaxClusters \in Nat \ {0}
    /\ MaxSize \in Nat /\ MaxItems \in Nat /\ MaxPos \in Nat
BY FatAssumption

-------------------------------------------------------------------------------
(* Pieces of a sequence of bytes. *)

(* n bytes of F from position o on. *)
Slice(F, o, n) == [k \in 1 .. n |-> F[o + k - 1]]

LEMMA SliceType ==
    ASSUME NEW F \in [Nat -> Nat], NEW o \in Nat, NEW n \in Nat
    PROVE  Slice(F, o, n) \in Seq(Nat) /\ Len(Slice(F, o, n)) = n
<1>1. \A k \in 1 .. n : F[o + k - 1] \in Nat
  OBVIOUS
<1>2. Slice(F, o, n) \in [1 .. n -> Nat]
  BY <1>1 DEF Slice
<1> QED
  BY <1>2

(* Two pieces one after the other. *)
LEMMA SliceJoin ==
    ASSUME NEW F \in [Nat -> Nat], NEW o \in Nat, NEW m \in Nat, NEW n \in Nat
    PROVE  Slice(F, o, m) \o Slice(F, o + m, n) = Slice(F, o, m + n)
<1> DEFINE a == Slice(F, o, m)
           b == Slice(F, o + m, n)
           c == Slice(F, o, m + n)
<1>1. a \in Seq(Nat) /\ Len(a) = m
  BY SliceType
<1>2. b \in Seq(Nat) /\ Len(b) = n
  <2>1. o + m \in Nat
    OBVIOUS
  <2> QED
    BY <2>1, SliceType
<1>3. c \in Seq(Nat) /\ Len(c) = m + n
  <2>1. m + n \in Nat
    OBVIOUS
  <2> QED
    BY <2>1, SliceType
<1>4. \A k \in 1 .. m : a[k] = F[o + k - 1]
  BY DEF Slice
<1>5. \A k \in 1 .. n : b[k] = F[o + m + k - 1]
  BY DEF Slice
<1>6. \A k \in 1 .. m + n : c[k] = F[o + k - 1]
  BY DEF Slice
<1> HIDE DEF a, b, c
<1> DEFINE d == a \o b
<1>7. /\ d \in Seq(Nat) /\ Len(d) = m + n
      /\ \A k \in 1 .. m + n : d[k] = IF k <= m THEN a[k] ELSE b[k - m]
  <2>1. /\ d \in Seq(Nat) /\ Len(d) = Len(a) + Len(b)
        /\ \A k \in 1 .. Len(a) + Len(b) : d[k] = IF k <= Len(a) THEN a[k] ELSE b[k - Len(a)]
    BY <1>1, <1>2, ConcatProperties, Zenon
  <2> HIDE DEF d
  <2> QED
    BY <1>1, <1>2, <2>1
<1> HIDE DEF d
<1>8. ASSUME NEW k \in 1 .. m + n PROVE d[k] = c[k]
  <2>9. d[k] = IF k <= m THEN a[k] ELSE b[k - m]
    BY <1>7, Zenon
  <2>1. CASE k \in 1 .. m
    <3>1. k <= m /\ a[k] = F[o + k - 1] /\ c[k] = F[o + k - 1]
      BY <1>4, <1>6, <2>1
    <3> QED
      BY <2>9, <3>1, Zenon
  <2>2. CASE k \notin 1 .. m
    <3>1. k - m \in 1 .. n /\ o + m + (k - m) - 1 = o + k - 1
      BY <2>2
    <3>2. d[k] = b[k - m]
      <4>1. ~(k <= m)
        BY <2>2
      <4> QED
        BY <2>9, <4>1, Zenon
    <3>3. b[k - m] = F[o + k - 1]
      BY <1>5, <3>1
    <3> QED
      BY <1>6, <3>2, <3>3
  <2> QED
    BY <2>1, <2>2
<1>9. d = c
  <2>1. Len(d) = Len(c) /\ \A k \in 1 .. Len(d) : d[k] = c[k]
    BY <1>3, <1>7, <1>8
  <2> QED
    BY <1>3, <1>7, <2>1, SeqEqual, Zenon
<1> QED
  BY <1>9 DEF a, b, c, d

-------------------------------------------------------------------------------
(* The stream. *)

Disk == [p \in Nat |-> p]

(* diskstreamer_read returns the bytes of the disk from its position on,   *)
(* however many sectors they are in.                                       *)
LEMMA StreamReads ==
    ASSUME NEW start \in Nat, NEW total \in Nat
    PROVE  diskstreamer_read(start, total) = Slice(Disk, start, total)
<1> DEFINE At(t) == start + (total - t)
           Over(t) == (At(t) % SectorSize) + t >= SectorSize
           Count(t) == IF Over(t) THEN SectorSize - (At(t) % SectorSize) ELSE t
           Got(t) == LET buf == [k \in 0 .. SectorSize - 1 |->
                                    (At(t) \div SectorSize) * SectorSize + k]
                     IN  [k \in 1 .. Count(t) |-> buf[(At(t) % SectorSize) + k - 1]]
           Body(g) == [t \in 0 .. total |->
                         IF Over(t) THEN Got(t) \o g[t - Count(t)] ELSE Got(t)]
           read == CHOOSE g : g = Body(g)
           good == [t \in 0 .. total |-> Slice(Disk, At(t), t)]
<1>1. SectorSize \in Nat \ {0} /\ Disk \in [Nat -> Nat]
  BY FatNumbers DEF Disk
<1>2. diskstreamer_read(start, total) = read[total]
  BY DEF diskstreamer_read
<1>3. ASSUME NEW t \in 0 .. total
      PROVE  /\ At(t) \in Nat
             /\ Count(t) \in 0 .. t
             /\ Over(t) => Count(t) > 0 /\ At(t) + Count(t) = At(t - Count(t))
             /\ ~Over(t) => Count(t) = t
             /\ Got(t) = Slice(Disk, At(t), Count(t))
  <2> DEFINE p == At(t)
             q == p \div SectorSize
             r == p % SectorSize
  <2>1. p \in Nat /\ p \in Int
    OBVIOUS
  <2>2. r \in 0 .. SectorSize - 1 /\ q \in Int /\ p = SectorSize * q + r
    <3> HIDE DEF p
    <3> QED
      BY <1>1, <2>1, DivMod, Zenon
  <2>3. SectorSize * q = q * SectorSize /\ q * SectorSize \in Int
    BY <1>1, <2>2
  <2>4. /\ Count(t) \in 0 .. t
        /\ Over(t) => Count(t) > 0
        /\ ~Over(t) => Count(t) = t
        /\ r + Count(t) <= SectorSize
    <3> HIDE DEF r
    <3> QED
      BY <1>1, <2>2 DEF r
  <2>5. p + Count(t) = At(t - Count(t))
    <3> DEFINE c == Count(t)
    <3>1. c \in 0 .. t
      BY <2>4
    <3> HIDE DEF c
    <3>2. p + c = At(t - c)
      BY <3>1
    <3> QED
      BY <3>2 DEF c
  <2>6. Got(t) = Slice(Disk, p, Count(t))
    <3> DEFINE n == Count(t)
               buf == [k \in 0 .. SectorSize - 1 |-> q * SectorSize + k]
    <3>1. Got(t) = [k \in 1 .. n |-> buf[r + k - 1]]
      OBVIOUS
    <3>2. n \in Nat /\ r + n <= SectorSize
      <4>1. n \in 0 .. t /\ r + n <= SectorSize
        BY <2>4
      <4> HIDE DEF n, r
      <4> QED
        BY <4>1
    <3> HIDE DEF n
    <3>3. ASSUME NEW k \in 1 .. n PROVE buf[r + k - 1] = Disk[p + k - 1]
      <4> DEFINE j == r + k - 1
                 s == q * SectorSize
      <4>1. j \in 0 .. SectorSize - 1 /\ p = s + r /\ s \in Int /\ p + k - 1 \in Nat
        <5>1. p = s + r /\ s \in Int
          BY <2>2, <2>3
        <5> HIDE DEF p, r, s
        <5> QED
          BY <1>1, <2>1, <2>2, <3>2, <5>1
      <4>2. buf[j] = s + j
        BY <4>1
      <4>3. Disk[p + k - 1] = p + k - 1
        BY <4>1 DEF Disk
      <4>4. s + j = p + k - 1
        <5> HIDE DEF p, r, s
        <5> QED
          BY <1>1, <2>2, <4>1
      <4> QED
        BY <4>2, <4>3, <4>4
    <3> HIDE DEF buf
    <3>4. Slice(Disk, p, n) = [k \in 1 .. n |-> Disk[p + k - 1]]
      BY DEF Slice
    <3> QED
      BY <3>1, <3>3, <3>4 DEF n
  <2> HIDE DEF Got, Count, Over, r, q
  <2> QED
    BY <2>1, <2>4, <2>5, <2>6
<1> HIDE DEF At, Over, Count, Got
<1>4. ASSUME NEW g, NEW t \in 0 .. total,
             Over(t) => g[t - Count(t)] = Slice(Disk, At(t - Count(t)), t - Count(t))
      PROVE  Body(g)[t] = Slice(Disk, At(t), t)
  <2> DEFINE n == Count(t)
  <2>1. At(t) \in Nat /\ n \in 0 .. t /\ Got(t) = Slice(Disk, At(t), n)
    BY <1>3
  <2>2. CASE Over(t)
    <3>1. At(t) + n = At(t - n) /\ t - n \in Nat /\ n \in Nat /\ n + (t - n) = t
      BY <1>3, <2>1, <2>2
    <3>2. Body(g)[t] = Slice(Disk, At(t), n) \o Slice(Disk, At(t) + n, t - n)
      BY <1>4, <2>1, <2>2, <3>1
    <3>3. Slice(Disk, At(t), n) \o Slice(Disk, At(t) + n, t - n) = Slice(Disk, At(t), n + (t - n))
      <4> DEFINE a == At(t)
                 l == t - n
      <4>1. a \in Nat /\ n \in Nat /\ l \in Nat
        BY <2>1, <3>1
      <4> HIDE DEF a, n, l
      <4>3. Disk \in [Nat -> Nat]
        BY <1>1
      <4>2. Slice(Disk, a, n) \o Slice(Disk, a + n, l) = Slice(Disk, a, n + l)
        BY <4>1, <4>3, SliceJoin, ZenonT(30)
      <4> QED
        BY <4>2 DEF a, l
    <3> QED
      BY <3>1, <3>2, <3>3
  <2>3. CASE ~Over(t)
    BY <1>3, <2>1, <2>3
  <2> QED
    BY <2>2, <2>3
<1>5. good = Body(good)
  <2>1. ASSUME NEW t \in 0 .. total PROVE Body(good)[t] = good[t]
    <3>1. Over(t) => t - Count(t) \in 0 .. total
      BY <1>3
    <3>2. Over(t) => good[t - Count(t)] = Slice(Disk, At(t - Count(t)), t - Count(t))
      BY <3>1
    <3>3. Body(good)[t] = Slice(Disk, At(t), t)
      <4> HIDE DEF good, Body
      <4> QED
        BY <1>4, <3>2
    <3> QED
      BY <3>3
  <2> QED
    BY <2>1
<1>6. read = Body(read)
  <2> HIDE DEF good, Body
  <2> QED
    BY <1>5
<1> HIDE DEF read
<1> DEFINE S == {t \in 0 .. total : read[t] = Slice(Disk, At(t), t)}
<1>7. ASSUME NEW t \in 0 .. total, 0 .. t - 1 \subseteq S
      PROVE  t \in S
  <2>1. Over(t) => t - Count(t) \in 0 .. t - 1
    BY <1>3
  <2>2. Over(t) => read[t - Count(t)] = Slice(Disk, At(t - Count(t)), t - Count(t))
    BY <1>7, <2>1
  <2>3. Body(read)[t] = Slice(Disk, At(t), t)
    <3> HIDE DEF Body
    <3> QED
      BY <1>4, <2>2
  <2>4. read[t] = Body(read)[t]
    BY <1>6, Zenon
  <2> QED
    BY <2>3, <2>4
<1>8. 0 .. total \subseteq S
  <2> HIDE DEF S
  <2> QED
    BY <1>7, StrongInduction
<1>9. read[total] = Slice(Disk, At(total), total)
  BY <1>8
<1>10. At(total) = start
  BY DEF At
<1> QED
  BY <1>2, <1>9, <1>10

-------------------------------------------------------------------------------
(* The chain. *)

(* A file has clusters, and the table leads from one to the next.  Where   *)
(* the clusters of the file lie does not matter.                           *)
SoundChain ==
    /\ chain \in Seq(ClusterIds) /\ Len(chain) > 0
    /\ fat \in [Cells -> Numbers]
    /\ \A k \in 1 .. Len(chain) - 1 : fat[chain[k]] = chain[k + 1]
    /\ fat[chain[Len(chain)]] \in EndMarks

(* No cluster but the first has a number that the walk takes for a mark. *)
Plain == \A k \in 2 .. Len(chain) : chain[k] \notin Stops

(* The walk knows the end mark of the file. *)
Ended == fat[chain[Len(chain)]] \in LastMarks

LEMMA ChainShape ==
    ASSUME SoundChain
    PROVE  Len(chain) \in Nat \ {0} /\ \A k \in 1 .. Len(chain) : chain[k] \in ClusterIds
BY DEF SoundChain

(* What a walk comes to has the number of a cluster. *)
LEMMA CellShape ==
    ASSUME NEW c \in Cells
    PROVE  c - 2 \in Nat /\ c # EIO
<1>1. c \in ClusterIds \/ c \in EndMarks \/ (c \in Strays /\ c # 0)
  BY DEF Cells, Numbers, Stops
<1>2. c \in Nat /\ c >= 2
  BY <1>1, FatAssumption
<1> QED
  BY <1>2 DEF EIO

(* A round of the walk comes to an entry of the table or gives up. *)
LEMMA FollowType ==
    ASSUME SoundChain, NEW c \in Cells \cup {EIO}
    PROVE  Follow(c) \in Cells \cup {EIO}
<1>1. CASE c = EIO
  BY <1>1 DEF Follow
<1>2. CASE c # EIO
  <2>1. fat[c] \in Numbers
    BY <1>2 DEF SoundChain
  <2> QED
    BY <2>1 DEF Follow, fat16_get_fat_entry, Cells
<1> QED
  BY <1>1, <1>2

(* A round of the walk from a cluster of the file. *)
LEMMA FollowChain ==
    ASSUME SoundChain, NEW k \in 1 .. Len(chain)
    PROVE  /\ k < Len(chain) => /\ Follow(chain[k]) \in {chain[k + 1], EIO}
                                /\ Plain => Follow(chain[k]) = chain[k + 1]
           /\ k = Len(chain) /\ Ended => Follow(chain[k]) = EIO
<1> DEFINE N == Len(chain)
<1>1. N \in Nat \ {0}
  BY ChainShape
<1>2. chain[k] # EIO
  <2>1. chain[k] \in Cells
    BY ChainShape DEF Cells
  <2> QED
    BY <2>1, CellShape
<1>3. k < N => fat[chain[k]] = chain[k + 1] /\ k + 1 \in 2 .. N
  BY <1>1 DEF SoundChain
<1>4. Follow(chain[k]) = IF fat[chain[k]] \in Stops THEN EIO ELSE fat[chain[k]]
  BY <1>2 DEF Follow, fat16_get_fat_entry
<1>5. k = N /\ Ended => fat[chain[k]] \in Stops
  BY DEF Ended, Stops
<1>6. k < N /\ Plain => chain[k + 1] \notin Stops
  BY <1>3 DEF Plain
<1> QED
  BY <1>3, <1>4, <1>5, <1>6

(* The walk through the file allocation table finds the cluster of an      *)
(* offset or gives up.  It does not give up inside a file without clusters *)
(* that look like marks, and gives up behind an end mark that it knows.    *)
LEMMA WalkFinds ==
    ASSUME SoundChain, NEW offset \in Nat, NEW w,
           w = fat16_get_cluster_for_offset(chain[1], offset)
    PROVE  /\ w \in Cells \cup {EIO}
           /\ offset \div ClusterSize < Len(chain) =>
                 /\ w \in {chain[offset \div ClusterSize + 1], EIO}
                 /\ Plain => w = chain[offset \div ClusterSize + 1]
           /\ ~(offset \div ClusterSize < Len(chain)) /\ Ended => w = EIO
<1> DEFINE K == offset \div ClusterSize
           N == Len(chain)
           V == Cells \cup {EIO}
           Body(g) == [k \in 0 .. K |-> IF k = 0 THEN chain[1] ELSE Follow(g[k - 1])]
           walk == CHOOSE g : g = Body(g)
           step == [x \in V \X (1 .. K) |-> Follow(x[1])]
<1>1. N \in Nat \ {0} /\ \A k \in 1 .. N : chain[k] \in Cells
  BY ChainShape DEF Cells
<1>2. K \in Nat
  <2>1. ClusterSize \in Nat \ {0}
    BY FatNumbers DEF ClusterSize
  <2> HIDE DEF K
  <2> QED
    BY <2>1 DEF K
<1>3. w = walk[K]
  BY DEF fat16_get_cluster_for_offset
<1> HIDE DEF K, N
<1>4. PICK g : LoopValues(g, K, V, chain[1], step)
  <2>1. chain[1] \in V
    BY <1>1
  <2>2. step \in [V \X (1 .. K) -> V]
    <3>1. \A x \in V \X (1 .. K) : Follow(x[1]) \in V
      BY FollowType
    <3> HIDE DEF V
    <3> QED
      BY <3>1
  <2> HIDE DEF V, step
  <2> QED
    BY <1>2, <2>1, <2>2, LoopHasValues, Zenon
<1>5. g = Body(g)
  <2>1. g \in [0 .. K -> V] /\ g[0] = chain[1]
    BY <1>4 DEF LoopValues
  <2>2. ASSUME NEW k \in 1 .. K PROVE g[k] = Follow(g[k - 1])
    <3>1. g[k] = step[<<g[k - 1], k>>]
      <4> HIDE DEF step
      <4> QED
        BY <1>4 DEF LoopValues
    <3>2. g[k - 1] \in V
      BY <1>2, <2>1
    <3> QED
      BY <3>1, <3>2
  <2>3. ASSUME NEW k \in 0 .. K PROVE g[k] = Body(g)[k]
    <3>1. CASE k = 0
      BY <2>1, <3>1
    <3>2. CASE k # 0
      <4>1. k \in 1 .. K
        BY <1>2, <3>2
      <4> QED
        BY <2>2, <3>2, <4>1
    <3> QED
      BY <3>1, <3>2
  <2> QED
    BY <2>1, <2>3
<1>6. walk = Body(walk)
  <2> HIDE DEF Body
  <2> QED
    BY <1>5
<1> HIDE DEF walk
<1>7. /\ walk[0] = chain[1]
      /\ \A k \in 1 .. K : walk[k] = Follow(walk[k - 1])
  <2>1. \A k \in 0 .. K : walk[k] = Body(walk)[k]
    BY <1>6, Zenon
  <2> QED
    BY <1>2, <2>1
<1> DEFINE Right(v, k) == /\ v \in V
                          /\ k < N => v \in {chain[k + 1], EIO} /\ (Plain => v = chain[k + 1])
                          /\ ~(k < N) /\ Ended => v = EIO
           S == {k \in 0 .. K : Right(walk[k], k)}
<1>8. 0 \in S
  BY <1>1, <1>2, <1>7
<1>9. ASSUME NEW k \in S \cap (0 .. K - 1)
      PROVE  k + 1 \in S
  <2> DEFINE v == walk[k]
             u == Follow(v)
  <2>1. k + 1 \in 0 .. K /\ walk[k + 1] = u /\ Right(v, k) /\ k \in Nat
    BY <1>2, <1>7
  <2>2. u \in V
    BY <2>1, FollowType
  <2>3. v = EIO => u = EIO
    BY DEF Follow
  <2> HIDE DEF u, v
  <2>4. k + 1 < N => u \in {chain[k + 2], EIO} /\ (Plain => u = chain[k + 2])
    <3> SUFFICES ASSUME k + 1 < N
                 PROVE  u \in {chain[k + 2], EIO} /\ (Plain => u = chain[k + 2])
      OBVIOUS
    <3>1. k < N /\ k + 1 \in 1 .. N /\ k + 1 < N /\ k + 1 + 1 = k + 2
      BY <1>1, <2>1
    <3>2. /\ Follow(chain[k + 1]) \in {chain[k + 2], EIO}
          /\ Plain => Follow(chain[k + 1]) = chain[k + 2]
      BY <3>1, FollowChain DEF N
    <3> QED
      BY <2>1, <2>3, <3>1, <3>2 DEF u
  <2>5. ~(k + 1 < N) /\ Ended => u = EIO
    <3> SUFFICES ASSUME ~(k + 1 < N), Ended PROVE u = EIO
      OBVIOUS
    <3>1. CASE k < N
      <4>1. k + 1 \in 1 .. N /\ k + 1 = N
        BY <1>1, <2>1, <3>1
      <4>2. Follow(chain[k + 1]) = EIO
        BY <4>1, FollowChain DEF N
      <4> QED
        BY <2>1, <2>3, <3>1, <4>2 DEF u
    <3>2. CASE ~(k < N)
      BY <2>1, <2>3, <3>2
    <3> QED
      BY <3>1, <3>2
  <2>6. (k + 1) + 1 = k + 2
    BY <2>1
  <2> QED
    BY <2>1, <2>2, <2>4, <2>5, <2>6
<1>10. 0 .. K \subseteq S
  <2> HIDE DEF S
  <2> QED
    BY <1>2, <1>8, <1>9, Induction
<1>11. Right(walk[K], K)
  BY <1>2, <1>10
<1> QED
  BY <1>3, <1>11 DEF K, N

-------------------------------------------------------------------------------
(* One cluster. *)

(* The bytes of the file, as long as its clusters go. *)
Places == [k \in Nat |-> IF k < FileEnd THEN Place(k) ELSE 0]

ReadResults == [ok : BOOLEAN, bytes : Seq(Nat)]

LEMMA Sizes ==
    /\ SectorSize \in Nat \ {0} /\ SectorsPerCluster \in Nat \ {0} /\ DataSector \in Nat
    /\ ClusterSize \in Nat \ {0}
BY FatNumbers DEF ClusterSize

(* An offset is inside the file if and only if its cluster is one of the   *)
(* chain.                                                                  *)
LEMMA OffsetInside ==
    ASSUME SoundChain, NEW o \in Nat
    PROVE  /\ o \div ClusterSize \in Nat
           /\ o \div ClusterSize < Len(chain) <=> o < FileEnd
           /\ o % ClusterSize \in 0 .. ClusterSize - 1
           /\ o = ClusterSize * (o \div ClusterSize) + (o % ClusterSize)
           /\ FileEnd \in Nat
<1> DEFINE q == o \div ClusterSize
           r == o % ClusterSize
           C == ClusterSize
           N == Len(chain)
           x == C * q
           y == C * N
           z == C * (q + 1)
<1>1. C \in Nat \ {0} /\ N \in Nat \ {0}
  BY Sizes, ChainShape
<1>2. r \in 0 .. C - 1 /\ q \in Int /\ o = x + r
  <2>1. o \in Int
    OBVIOUS
  <2> QED
    BY <1>1, <2>1, DivMod, Zenon
<1>3. q \in Nat
  BY <1>1, <1>2
<1>4. FileEnd = y
  BY <1>1 DEF FileEnd
<1>5. x \in Nat /\ y \in Nat /\ z = x + C
  BY <1>1, <1>3
<1>6. q < N => o < y
  <2> SUFFICES ASSUME q < N PROVE o < y
    OBVIOUS
  <2>1. q + 1 <= N /\ q + 1 \in Int /\ N \in Int
    BY <1>1, <1>3
  <2>2. C * (q + 1) <= C * N
    BY <1>1, <2>1, FactorOrder, Zenon
  <2>3. z <= y
    BY <2>2
  <2> HIDE DEF x, y, z, r, q
  <2> QED
    BY <1>1, <1>2, <1>5, <2>3
<1>7. o < y => q < N
  <2> SUFFICES ASSUME o < y PROVE q < N
    OBVIOUS
  <2>1. x < y
    <3> HIDE DEF x, y, r, q
    <3> QED
      BY <1>1, <1>2, <1>5
  <2>2. q \in Int /\ N \in Int
    BY <1>1, <1>2
  <2> QED
    BY <1>1, <2>1, <2>2, FactorOrder, Zenon
<1> QED
  BY <1>2, <1>3, <1>4, <1>5, <1>6, <1>7

LEMMA PlacesType ==
    ASSUME SoundChain
    PROVE  Places \in [Nat -> Nat]
<1> SUFFICES ASSUME NEW k \in Nat, k < FileEnd PROVE Place(k) \in Nat
  BY DEF Places
<1> DEFINE q == k \div ClusterSize
           r == k % ClusterSize
<1>1. q \in Nat /\ q < Len(chain) /\ r \in Nat
  BY OffsetInside
<1>2. chain[q + 1] \in ClusterIds
  BY <1>1, ChainShape
<1> DEFINE c == chain[q + 1] - 2
<1>3. c \in Nat
  BY <1>2, CellShape DEF Cells
<1>4. Place(k) = (DataSector + c * SectorsPerCluster) * SectorSize + r
  BY DEF Place
<1> HIDE DEF c, q, r
<1>5. c * SectorsPerCluster \in Nat
  BY <1>3, Sizes, ProductNat
<1>6. (DataSector + c * SectorsPerCluster) * SectorSize \in Nat
  <2> DEFINE d == DataSector + c * SectorsPerCluster
  <2>1. d \in Nat
    BY <1>5, Sizes
  <2> HIDE DEF d
  <2>2. d * SectorSize \in Nat
    BY <2>1, Sizes, ProductNat
  <2> QED
    BY <2>2 DEF d
<1>7. r \in Nat
  BY <1>1 DEF r
<1> QED
  BY <1>4, <1>6, <1>7

(* Where a read of n bytes at offset o begins on the disk, and what it     *)
(* gets.                                                                   *)
ClusterAt(o) == fat16_get_cluster_for_offset(chain[1], o)
StartAt(o)   == fat16_cluster_to_sector(ClusterAt(o)) * SectorSize + (o % ClusterSize)
GotAt(o, n)  == Read(diskstreamer_read(StartAt(o), n))

(* The walk finds a cluster for every offset of a plain file, and for none *)
(* behind an end mark that it knows.  A read gets n bytes of the disk      *)
(* there; they are bytes of the file if the offset is inside it and they   *)
(* do not go beyond the cluster.                                           *)
LEMMA ClusterReads ==
    ASSUME SoundChain, NEW o \in Nat, NEW n \in Nat
    PROVE  /\ Plain /\ o < FileEnd => ClusterAt(o) # EIO
           /\ Ended /\ ClusterAt(o) # EIO => o < FileEnd
           /\ ClusterAt(o) # EIO =>
                 /\ GotAt(o, n) \in ReadResults /\ GotAt(o, n).ok
                 /\ Len(GotAt(o, n).bytes) = n
                 /\ o < FileEnd /\ (o % ClusterSize) + n <= ClusterSize =>
                       /\ o + n <= FileEnd
                       /\ GotAt(o, n).bytes = Slice(Places, o, n)
<1> DEFINE q == o \div ClusterSize
           r == o % ClusterSize
           N == Len(chain)
           w == ClusterAt(o)
<1>1. /\ q \in Nat /\ r \in 0 .. ClusterSize - 1 /\ o = ClusterSize * q + r
      /\ q < N <=> o < FileEnd
      /\ FileEnd \in Nat /\ N \in Nat \ {0} /\ ClusterSize \in Nat \ {0}
  BY OffsetInside, ChainShape, Sizes
<1>2. /\ w \in Cells \cup {EIO}
      /\ q < N => w \in {chain[q + 1], EIO} /\ (Plain => w = chain[q + 1])
      /\ ~(q < N) /\ Ended => w = EIO
  BY WalkFinds DEF ClusterAt
<1>3. q < N => chain[q + 1] # EIO
  <2> SUFFICES ASSUME q < N PROVE chain[q + 1] # EIO
    OBVIOUS
  <2>1. q + 1 \in 1 .. N
    <3> HIDE DEF q, N
    <3> QED
      BY <1>1
  <2>2. chain[q + 1] \in Cells
    BY <2>1, ChainShape DEF Cells
  <2> QED
    BY <2>2, CellShape
<1>4. (Plain /\ o < FileEnd => w # EIO) /\ (Ended /\ w # EIO => o < FileEnd)
  BY <1>1, <1>2, <1>3
<1>5. ASSUME w # EIO
      PROVE  /\ GotAt(o, n) \in ReadResults /\ GotAt(o, n).ok
             /\ Len(GotAt(o, n).bytes) = n
             /\ o < FileEnd /\ (o % ClusterSize) + n <= ClusterSize =>
                   /\ o + n <= FileEnd
                   /\ GotAt(o, n).bytes = Slice(Places, o, n)
  <2> DEFINE c == w - 2
             b == (DataSector + c * SectorsPerCluster) * SectorSize
  <2>1. c \in Nat
    <3> HIDE DEF w
    <3>1. w \in Cells
      BY <1>2, <1>5
    <3> QED
      BY <3>1, CellShape
  <2>2. StartAt(o) = b + r
    BY DEF StartAt, fat16_cluster_to_sector
  <2>3. b \in Nat
    <3> HIDE DEF c
    <3>1. c * SectorsPerCluster \in Nat
      BY <2>1, Sizes, ProductNat
    <3> DEFINE d == DataSector + c * SectorsPerCluster
    <3>2. d \in Nat
      BY <3>1, Sizes
    <3> HIDE DEF d
    <3>3. d * SectorSize \in Nat
      BY <3>2, Sizes, ProductNat
    <3> QED
      BY <3>3 DEF d
  <2>4. StartAt(o) \in Nat
    <3> HIDE DEF b, r
    <3> QED
      BY <1>1, <2>2, <2>3
  <2>5. Disk \in [Nat -> Nat]
    BY DEF Disk
  <2> DEFINE s == Slice(Disk, StartAt(o), n)
  <2>6. GotAt(o, n) = [ok |-> TRUE, bytes |-> s]
    BY <2>4, StreamReads DEF GotAt, Read
  <2>7. s \in Seq(Nat) /\ Len(s) = n
    BY <2>4, <2>5, SliceType
  <2>8. ASSUME o < FileEnd, r + n <= ClusterSize
        PROVE  o + n <= FileEnd /\ s = Slice(Places, o, n)
    <3>0. q < N /\ w = chain[q + 1]
      <4> HIDE DEF q, N, w
      <4> QED
        BY <1>1, <1>2, <1>5, <2>8
    <3>1. o + n <= FileEnd
      <4> DEFINE C == ClusterSize
                 x == C * q
                 z == C * (q + 1)
                 y == C * N
      <4>1. q + 1 <= N /\ q + 1 \in Int /\ N \in Int /\ C \in Nat \ {0}
        BY <1>1, <3>0
      <4>2. C * (q + 1) <= C * N
        BY <4>1, FactorOrder, Zenon
      <4>3. z = x + C /\ x \in Nat /\ y \in Nat
        BY <1>1
      <4>4. FileEnd = y
        BY <1>1 DEF FileEnd
      <4>5. z <= y /\ o = x + r /\ r + n <= C
        BY <1>1, <2>8, <4>2
      <4> HIDE DEF x, y, z, r, q, C
      <4> QED
        BY <1>1, <4>1, <4>3, <4>4, <4>5
    <3>2. ASSUME NEW k \in 1 .. n
          PROVE  Disk[StartAt(o) + k - 1] = Places[o + k - 1]
      <4> DEFINE j == o + k - 1
                 i == r + k - 1
      <4>1. i \in 0 .. ClusterSize - 1 /\ j \in Nat /\ j < FileEnd
        <5> HIDE DEF r
        <5> QED
          BY <1>1, <2>8, <3>1
      <4>2. j = ClusterSize * q + i
        <5> DEFINE x == ClusterSize * q
        <5>1. x \in Int /\ o = x + r
          BY <1>1
        <5> HIDE DEF x, r
        <5>2. j = x + i
          BY <1>1, <5>1
        <5> QED
          BY <5>2 DEF x
      <4>3. j \div ClusterSize = q /\ j % ClusterSize = i
        <5>1. q \in Int
          BY <1>1
        <5>2. (ClusterSize * q + i) % ClusterSize = i /\ (ClusterSize * q + i) \div ClusterSize = q
          <6> HIDE DEF q, i
          <6> QED
            BY <1>1, <4>1, <5>1, ModUnique, Zenon
        <5> HIDE DEF q, i, j
        <5> QED
          BY <4>2, <5>2
      <4>4. Place(j) = b + i
        <5>1. b = (DataSector + (chain[q + 1] - 2) * SectorsPerCluster) * SectorSize
          BY <3>0
        <5> HIDE DEF j, i, b, w, q
        <5> QED
          BY <4>3, <5>1 DEF Place
      <4>5. Places[j] = b + i
        <5> HIDE DEF b, i, j
        <5> QED
          BY <4>1, <4>4 DEF Places
      <4>6. StartAt(o) + k - 1 = b + i /\ b + i \in Nat
        <5> HIDE DEF b, r
        <5> QED
          BY <1>1, <2>2, <2>3
      <4>7. Disk[b + i] = b + i
        <5> HIDE DEF b, i
        <5> QED
          BY <4>6 DEF Disk
      <4> QED
        BY <4>5, <4>6, <4>7
    <3>3. s = Slice(Places, o, n)
      <4>1. s = [k \in 1 .. n |-> Disk[StartAt(o) + k - 1]]
        BY DEF Slice
      <4>2. Slice(Places, o, n) = [k \in 1 .. n |-> Places[o + k - 1]]
        BY DEF Slice
      <4> HIDE DEF s
      <4> QED
        BY <3>2, <4>1, <4>2
    <3> QED
      BY <3>1, <3>3
  <2> HIDE DEF s
  <2> QED
    BY <2>6, <2>7, <2>8 DEF ReadResults
<1> QED
  BY <1>4, <1>5

-------------------------------------------------------------------------------
(* Several clusters. *)

(* A piece that starts at a cluster or stays in one. *)
FitsAt(o, n) == (o % ClusterSize) = 0 \/ (o % ClusterSize) + n <= ClusterSize

(* What is to be shown of the result r of a read of n bytes at o. *)
ReadOK(r, o, n) ==
    /\ r \in ReadResults
    /\ r.ok => Len(r.bytes) = n
    /\ Plain /\ o + n <= FileEnd => r.ok
    /\ FitsAt(o, n) /\ r.ok /\ (Ended \/ o + n <= FileEnd) =>
           o + n <= FileEnd /\ r.bytes = Slice(Places, o, n)

LEMMA ThenType ==
    ASSUME NEW a \in ReadResults, NEW b \in ReadResults
    PROVE  /\ Then(a, b) \in ReadResults
           /\ Then(a, b).ok <=> a.ok /\ b.ok
           /\ a.ok /\ b.ok => /\ Then(a, b).bytes = a.bytes \o b.bytes
                              /\ Len(Then(a, b).bytes) = Len(a.bytes) + Len(b.bytes)
<1>1. a.bytes \in Seq(Nat) /\ b.bytes \in Seq(Nat) /\ a.ok \in BOOLEAN /\ b.ok \in BOOLEAN
  BY DEF ReadResults
<1> DEFINE c == a.bytes \o b.bytes
<1>2. c \in Seq(Nat) /\ Len(c) = Len(a.bytes) + Len(b.bytes)
  BY <1>1, ConcatProperties, Zenon
<1>3. <<>> \in Seq(Nat)
  BY EmptySeq, Zenon
<1>4. Then(a, b) = IF a.ok /\ b.ok THEN [ok |-> TRUE, bytes |-> c] ELSE [ok |-> FALSE, bytes |-> <<>>]
  BY DEF Then, Read, Failed
<1> HIDE DEF c
<1>5. CASE a.ok /\ b.ok
  <2>1. Then(a, b) = [ok |-> TRUE, bytes |-> c]
    BY <1>4, <1>5
  <2> QED
    BY <1>2, <1>5, <2>1 DEF ReadResults, c
<1>6. CASE ~(a.ok /\ b.ok)
  <2>1. Then(a, b) = [ok |-> FALSE, bytes |-> <<>>]
    BY <1>4, <1>6
  <2> QED
    BY <1>3, <1>6, <2>1 DEF ReadResults
<1> QED
  BY <1>5, <1>6

LEMMA FailedType == Failed \in ReadResults /\ ~Failed.ok
<1>1. <<>> \in Seq(Nat)
  BY EmptySeq, Zenon
<1> QED
  BY <1>1 DEF Failed, ReadResults

(* Two reads one after the other. *)
LEMMA ThenReads ==
    ASSUME SoundChain, NEW o \in Nat, NEW m \in Nat, NEW n \in Nat,
           NEW a \in ReadResults, NEW b \in ReadResults, a.ok, b.ok,
           a.bytes = Slice(Places, o, m), b.bytes = Slice(Places, o + m, n)
    PROVE  Then(a, b).bytes = Slice(Places, o, m + n)
<1>1. Then(a, b).bytes = Slice(Places, o, m) \o Slice(Places, o + m, n)
  <2>1. Then(a, b).bytes = a.bytes \o b.bytes
    BY ThenType, Zenon
  <2> QED
    BY <2>1, Zenon
<1>2. Places \in [Nat -> Nat]
  BY PlacesType
<1>3. Slice(Places, o, m) \o Slice(Places, o + m, n) = Slice(Places, o, m + n)
  BY <1>2, SliceJoin, ZenonT(30)
<1> QED
  BY <1>1, <1>3, Zenon

(* A piece of a whole cluster, and the rest. *)
LEMMA ClusterThenRest ==
    ASSUME SoundChain, NEW o \in Nat, NEW t \in Nat, t > ClusterSize,
           ClusterAt(o) # EIO,
           NEW b, ReadOK(b, o + ClusterSize, t - ClusterSize)
    PROVE  ReadOK(Then(GotAt(o, ClusterSize), b), o, t)
<1> DEFINE C == ClusterSize
           a == GotAt(o, C)
           r == Then(a, b)
           p == o + C
           u == t - C
<1>1. C \in Nat \ {0} /\ p \in Nat /\ u \in Nat /\ FileEnd \in Nat /\ p + u = o + t /\ C + u = t
  BY Sizes, OffsetInside
<1>2. /\ a \in ReadResults /\ a.ok /\ Len(a.bytes) = C
      /\ o < FileEnd /\ (o % C) + C <= C => a.bytes = Slice(Places, o, C)
      /\ Ended => o < FileEnd
  BY <1>1, ClusterReads
<1>3. /\ b \in ReadResults
      /\ b.ok => Len(b.bytes) = u
      /\ Plain /\ p + u <= FileEnd => b.ok
      /\ FitsAt(p, u) /\ b.ok /\ (Ended \/ p + u <= FileEnd) =>
             p + u <= FileEnd /\ b.bytes = Slice(Places, p, u)
  BY DEF ReadOK
<1> HIDE DEF a, p, u
<1>4. /\ r \in ReadResults
      /\ r.ok <=> a.ok /\ b.ok
      /\ a.ok /\ b.ok => Len(r.bytes) = Len(a.bytes) + Len(b.bytes)
  BY <1>2, <1>3, ThenType
<1> HIDE DEF r
<1>5. r.ok => Len(r.bytes) = t
  BY <1>1, <1>2, <1>3, <1>4
<1>6. Plain /\ o + t <= FileEnd => r.ok
  BY <1>1, <1>2, <1>3, <1>4
<1>7. ASSUME FitsAt(o, t), r.ok, Ended \/ o + t <= FileEnd
      PROVE  o + t <= FileEnd /\ r.bytes = Slice(Places, o, t)
  <2>1. o % C = 0
    <3>1. o % C \in 0 .. C - 1
      BY OffsetInside
    <3> QED
      BY <1>1, <1>7, <3>1 DEF FitsAt
  <2>2. p % C = 0
    <3>1. p = C * ((o \div C) + 1)
      <4> DEFINE q == o \div C
      <4>1. q \in Nat /\ o = C * q + 0
        BY <2>1, OffsetInside
      <4>2. C * (q + 1) = C * q + C /\ C * q \in Nat
        BY <1>1, <4>1
      <4> HIDE DEF q
      <4> QED
        BY <1>1, <4>1, <4>2 DEF p, q
    <3>2. (o \div C) + 1 \in Int
      BY OffsetInside
    <3>3. (C * ((o \div C) + 1) + 0) % C = 0
      <4> DEFINE q == (o \div C) + 1
      <4>1. q \in Int /\ 0 \in 0 .. C - 1 /\ C \in Nat \ {0}
        BY <1>1, <3>2
      <4> HIDE DEF q
      <4>2. (C * q + 0) % C = 0
        BY <4>1, ModUnique, Zenon
      <4> QED
        BY <4>2 DEF q
    <3>4. C * ((o \div C) + 1) + 0 = p
      <4>1. p + 0 = p
        BY <1>1
      <4> QED
        BY <3>1, <4>1
    <3> QED
      BY <3>3, <3>4
  <2>3. FitsAt(p, u)
    BY <2>2 DEF FitsAt
  <2>4. a.bytes = Slice(Places, o, C)
    <3>1. o < FileEnd
      BY <1>1, <1>2, <1>7
    <3> QED
      BY <1>1, <1>2, <2>1, <3>1
  <2>5. b.ok /\ p + u <= FileEnd /\ b.bytes = Slice(Places, p, u)
    BY <1>1, <1>3, <1>4, <1>7, <2>3
  <2>6. r.bytes = Slice(Places, o, C + u)
    <3>1. a \in ReadResults /\ b \in ReadResults
      BY <1>2, <1>3
    <3>2. a.ok /\ b.ok
      BY <1>2, <2>5
    <3>3. C \in Nat /\ u \in Nat
      BY <1>1
    <3>4. b.bytes = Slice(Places, o + C, u)
      BY <2>5 DEF p
    <3> HIDE DEF C
    <3>5. Then(a, b).bytes = Slice(Places, o, C + u)
      BY <2>4, <3>1, <3>2, <3>3, <3>4, ThenReads
    <3> QED
      BY <3>5 DEF r
  <2> QED
    BY <1>1, <2>5, <2>6
<1>8. ReadOK(r, o, t)
  BY <1>4, <1>5, <1>6, <1>7 DEF ReadOK
<1> QED
  BY <1>8 DEF r, a

(* At most a cluster. *)
LEMMA LastCluster ==
    ASSUME SoundChain, NEW o \in Nat, NEW t \in Nat \ {0}, t <= ClusterSize,
           ClusterAt(o) # EIO
    PROVE  ReadOK(GotAt(o, t), o, t)
<1> DEFINE C == ClusterSize
           a == GotAt(o, t)
<1>1. /\ a \in ReadResults /\ a.ok /\ Len(a.bytes) = t
      /\ o < FileEnd /\ (o % C) + t <= C => o + t <= FileEnd /\ a.bytes = Slice(Places, o, t)
      /\ Ended => o < FileEnd
  BY ClusterReads
<1>2. FitsAt(o, t) => (o % C) + t <= C
  BY Sizes DEF FitsAt
<1>3. o + t <= FileEnd => o < FileEnd
  BY OffsetInside
<1> HIDE DEF a
<1>4. ReadOK(a, o, t)
  BY <1>1, <1>2, <1>3 DEF ReadOK
<1> QED
  BY <1>4 DEF a

(* Where the walk gives up. *)
LEMMA WalkFails ==
    ASSUME SoundChain, NEW o \in Nat, NEW t \in Nat \ {0}, ClusterAt(o) = EIO
    PROVE  ReadOK(Failed, o, t)
<1>1. FileEnd \in Nat
  BY OffsetInside
<1>2. ~(Plain /\ o < FileEnd)
  BY ClusterReads
<1>3. ~(Plain /\ o + t <= FileEnd)
  BY <1>1, <1>2
<1> QED
  BY <1>3, FailedType DEF ReadOK

(* fat16_read_internal, of any length. *)
LEMMA InternalReads ==
    ASSUME SoundChain, NEW offset \in Nat, NEW total \in Nat \ {0}
    PROVE  ReadOK(fat16_read_internal(chain[1], offset, total), offset, total)
<1> DEFINE C == ClusterSize
           At(t) == offset + (total - t)
           Count(t) == IF t > C THEN C ELSE t
           Body(g) == [t \in 0 .. total |->
                         IF ClusterAt(At(t)) = EIO THEN Failed
                         ELSE IF t - Count(t) > 0 THEN Then(GotAt(At(t), Count(t)), g[t - Count(t)])
                         ELSE GotAt(At(t), Count(t))]
           read == CHOOSE g : g = Body(g)
           stop == {t \in 0 .. total : ClusterAt(At(t)) = EIO \/ ~(t - Count(t) > 0)}
           leaf == [t \in 0 .. total |-> IF ClusterAt(At(t)) = EIO THEN Failed
                                         ELSE GotAt(At(t), Count(t))]
           prev == [t \in 0 .. total |-> t - Count(t)]
           step == [x \in ReadResults \X (0 .. total) |->
                      IF ClusterAt(At(x[2])) = EIO THEN x[1]
                      ELSE Then(GotAt(At(x[2]), Count(x[2])), x[1])]
<1>1. fat16_read_internal(chain[1], offset, total) = read[total]
  BY DEF fat16_read_internal, ClusterAt, StartAt, GotAt
<1>2. C \in Nat \ {0} /\ total \in Nat
  BY Sizes
<1>3. ASSUME NEW t \in 0 .. total
      PROVE  /\ At(t) \in Nat /\ Count(t) \in Nat
             /\ ClusterAt(At(t)) # EIO => GotAt(At(t), Count(t)) \in ReadResults
             /\ t - Count(t) > 0 <=> t > C
             /\ t > C => Count(t) = C
             /\ ~(t > C) => Count(t) = t
             /\ t > C => t - Count(t) \in 0 .. t - 1 /\ At(t - Count(t)) = At(t) + C
  <2>1. /\ At(t) \in Nat /\ Count(t) \in Nat
        /\ t - Count(t) > 0 <=> t > C
        /\ t > C => Count(t) = C
        /\ ~(t > C) => Count(t) = t
        /\ t > C => t - Count(t) \in 0 .. t - 1 /\ At(t - Count(t)) = At(t) + C
    BY <1>2
  <2> HIDE DEF At, Count
  <2> QED
    BY <2>1, ClusterReads
<1> HIDE DEF At, Count
<1>4. PICK g : DescentValues(g, total, ReadResults, stop, leaf, prev, step)
  <2>1. leaf \in [0 .. total -> ReadResults]
    BY <1>3, FailedType
  <2>2. step \in [ReadResults \X (0 .. total) -> ReadResults]
    <3> SUFFICES ASSUME NEW x \in ReadResults \X (0 .. total), ClusterAt(At(x[2])) # EIO
                 PROVE  Then(GotAt(At(x[2]), Count(x[2])), x[1]) \in ReadResults
      OBVIOUS
    <3>1. x[1] \in ReadResults /\ x[2] \in 0 .. total
      OBVIOUS
    <3>2. GotAt(At(x[2]), Count(x[2])) \in ReadResults
      BY <1>3, <3>1
    <3> QED
      BY <3>1, <3>2, ThenType
  <2>3. \A t \in 0 .. total : t \notin stop => prev[t] \in 0 .. t - 1
    BY <1>3
  <2> HIDE DEF stop, leaf, prev, step
  <2> QED
    BY <1>2, <2>1, <2>2, <2>3, DescentHasValues, Zenon
<1>5. g = Body(g)
  <2>1. ASSUME NEW t \in 0 .. total PROVE g[t] = Body(g)[t]
    <3>1. g[t] = IF t \in stop THEN leaf[t] ELSE step[<<g[prev[t]], t>>]
      <4> HIDE DEF stop, leaf, prev, step
      <4> QED
        BY <1>4 DEF DescentValues
    <3>2. CASE t \in stop
      <4>1. g[t] = leaf[t]
        BY <3>1, <3>2
      <4> QED
        BY <3>2, <4>1
    <3>3. CASE t \notin stop
      <4>1. ClusterAt(At(t)) # EIO /\ t - Count(t) > 0 /\ prev[t] = t - Count(t)
        BY <3>3
      <4>2. t - Count(t) \in 0 .. total
        BY <1>3, <4>1
      <4>3. g[t - Count(t)] \in ReadResults
        <5> HIDE DEF stop, leaf, prev, step
        <5> QED
          BY <1>4, <4>2 DEF DescentValues
      <4>4. step[<<g[t - Count(t)], t>>] = Then(GotAt(At(t), Count(t)), g[t - Count(t)])
        BY <4>1, <4>3
      <4>5. g[t] = Then(GotAt(At(t), Count(t)), g[t - Count(t)])
        <5> HIDE DEF step, stop, leaf, prev
        <5> QED
          BY <3>1, <3>3, <4>1, <4>4
      <4> QED
        BY <4>1, <4>5
    <3> QED
      BY <3>2, <3>3
  <2>2. g \in [0 .. total -> ReadResults]
    BY <1>4 DEF DescentValues
  <2> QED
    BY <2>1, <2>2
<1>6. read = Body(read)
  <2> HIDE DEF Body
  <2> QED
    BY <1>5
<1> HIDE DEF read
<1> DEFINE S == {t \in 0 .. total : t > 0 => ReadOK(read[t], At(t), t)}
<1>7. ASSUME NEW t \in 0 .. total, 0 .. t - 1 \subseteq S
      PROVE  t \in S
  <2> SUFFICES ASSUME t > 0 PROVE ReadOK(read[t], At(t), t)
    OBVIOUS
  <2>1. read[t] = IF ClusterAt(At(t)) = EIO THEN Failed
                  ELSE IF t - Count(t) > 0 THEN Then(GotAt(At(t), Count(t)), read[t - Count(t)])
                  ELSE GotAt(At(t), Count(t))
    <3>1. read[t] = Body(read)[t]
      BY <1>6, Zenon
    <3> QED
      BY <3>1
  <2>2. t \in Nat \ {0} /\ At(t) \in Nat
    BY <1>3
  <2>3. CASE ClusterAt(At(t)) = EIO
    <3>1. read[t] = Failed
      BY <1>3, <2>1, <2>3
    <3> QED
      BY <2>2, <2>3, <3>1, WalkFails
  <2>4. CASE ClusterAt(At(t)) # EIO /\ t > C
    <3>1. read[t] = Then(GotAt(At(t), C), read[t - C]) /\ t - C \in 0 .. t - 1 /\ t - C > 0
          /\ At(t - C) = At(t) + C
      BY <1>3, <2>1, <2>4
    <3>2. ReadOK(read[t - C], At(t) + C, t - C)
      BY <1>7, <3>1
    <3> DEFINE b == read[t - C]
    <3>3. ReadOK(Then(GotAt(At(t), C), b), At(t), t)
      <4> HIDE DEF b
      <4> QED
        BY <2>2, <2>4, <3>2, ClusterThenRest DEF b
    <3> QED
      BY <3>1, <3>3
  <2>5. CASE ClusterAt(At(t)) # EIO /\ ~(t > C)
    <3>1. read[t] = GotAt(At(t), t) /\ t <= C
      BY <1>2, <1>3, <2>1, <2>5
    <3> QED
      BY <2>2, <2>5, <3>1, LastCluster
  <2> QED
    BY <2>3, <2>4, <2>5
<1>8. 0 .. total \subseteq S
  <2> HIDE DEF S
  <2> QED
    BY <1>2, <1>7, StrongInduction
<1>9. ReadOK(read[total], At(total), total)
  BY <1>2, <1>8
<1>10. At(total) = offset
  BY DEF At
<1> QED
  BY <1>1, <1>9, <1>10

-------------------------------------------------------------------------------
(* The items of fat16_read. *)

ItemAt(at, size, k) == fat16_read_internal(chain[1], at + (k - 1) * size, size)

Items(at, size, nmemb) ==
    LET items[k \in 0 .. nmemb] ==
            IF k = 0 THEN Read(<<>>) ELSE Then(items[k - 1], ItemAt(at, size, k))
    IN  items[nmemb]

(* What is to be shown of the result r of k items. *)
ItemsOK(r, at, size, k) ==
    /\ r \in ReadResults
    /\ r.ok => Len(r.bytes) = k * size
    /\ Plain /\ at + k * size <= FileEnd => r.ok
    /\ (\A j \in 0 .. k - 1 : FitsAt(at + j * size, size)) /\ r.ok
       /\ (Ended \/ at + k * size <= FileEnd) =>
           /\ k > 0 => at + k * size <= FileEnd
           /\ r.bytes = Slice(Places, at, k * size)

LEMMA NoItems ==
    ASSUME SoundChain, NEW at \in Nat, NEW size \in Nat
    PROVE  ItemsOK(Read(<<>>), at, size, 0)
<1>1. <<>> \in Seq(Nat) /\ Len(<<>>) = 0
  BY EmptySeq
<1>2. Slice(Places, at, 0) = <<>>
  <2>1. Places \in [Nat -> Nat] /\ 0 \in Nat
    BY PlacesType
  <2>2. Slice(Places, at, 0) \in Seq(Nat) /\ Len(Slice(Places, at, 0)) = 0
    BY <2>1, SliceType
  <2> QED
    BY <2>2, EmptySeq
<1>3. 0 * size = 0
  OBVIOUS
<1> DEFINE r == Read(<<>>)
<1>4. r \in ReadResults /\ r.ok = TRUE /\ r.bytes = <<>>
  BY <1>1 DEF Read, ReadResults
<1> HIDE DEF r
<1>5. ItemsOK(r, at, size, 0)
  BY <1>1, <1>2, <1>3, <1>4 DEF ItemsOK
<1> QED
  BY <1>5 DEF r

LEMMA OneMoreItem ==
    ASSUME SoundChain, NEW at \in Nat, NEW size \in Nat \ {0}, NEW k \in Nat \ {0},
           NEW a, ItemsOK(a, at, size, k - 1)
    PROVE  ItemsOK(Then(a, ItemAt(at, size, k)), at, size, k)
<1> DEFINE x == (k - 1) * size
           y == k * size
           o == at + x
           b == ItemAt(at, size, k)
           r == Then(a, b)
<1>1. x \in Nat /\ y = x + size /\ y \in Nat /\ o \in Nat
  <2>1. k - 1 \in Nat /\ size \in Nat
    OBVIOUS
  <2>2. x \in Nat
    BY <2>1, ProductNat, Zenon
  <2>3. y = x + size
    OBVIOUS
  <2> HIDE DEF x, y
  <2> QED
    BY <2>2, <2>3
<1>2. ReadOK(b, o, size)
  <2> HIDE DEF o
  <2>1. ReadOK(fat16_read_internal(chain[1], o, size), o, size)
    BY <1>1, InternalReads
  <2> QED
    BY <2>1 DEF ItemAt, o
<1>3. /\ b \in ReadResults
      /\ b.ok => Len(b.bytes) = size
      /\ Plain /\ o + size <= FileEnd => b.ok
      /\ FitsAt(o, size) /\ b.ok /\ (Ended \/ o + size <= FileEnd) =>
             o + size <= FileEnd /\ b.bytes = Slice(Places, o, size)
  <2> HIDE DEF b, o
  <2> QED
    BY <1>2 DEF ReadOK
<1>4. /\ a \in ReadResults
      /\ a.ok => Len(a.bytes) = x
      /\ Plain /\ at + x <= FileEnd => a.ok
      /\ (\A j \in 0 .. (k - 1) - 1 : FitsAt(at + j * size, size)) /\ a.ok
         /\ (Ended \/ at + x <= FileEnd) =>
             a.bytes = Slice(Places, at, x)
  BY DEF ItemsOK
<1> HIDE DEF b
<1>5. /\ r \in ReadResults
      /\ r.ok <=> a.ok /\ b.ok
      /\ a.ok /\ b.ok => Len(r.bytes) = Len(a.bytes) + Len(b.bytes)
  BY <1>3, <1>4, ThenType
<1>6. FileEnd \in Nat
  BY OffsetInside
<1>7. r.ok => Len(r.bytes) = y
  <2> HIDE DEF r, x, y
  <2> QED
    BY <1>1, <1>3, <1>4, <1>5
<1>8. Plain /\ at + y <= FileEnd => r.ok
  <2>1. o = at + x
    OBVIOUS
  <2> HIDE DEF r, x, y, o
  <2> QED
    BY <1>1, <1>3, <1>4, <1>5, <1>6, <2>1
<1>9. ASSUME \A j \in 0 .. k - 1 : FitsAt(at + j * size, size), r.ok,
             Ended \/ at + y <= FileEnd
      PROVE  at + y <= FileEnd /\ r.bytes = Slice(Places, at, y)
  <2>1. FitsAt(o, size)
    <3>1. k - 1 \in 0 .. k - 1
      OBVIOUS
    <3> QED
      BY <1>9, <3>1
  <2>2. \A j \in 0 .. (k - 1) - 1 : FitsAt(at + j * size, size)
    <3>1. 0 .. (k - 1) - 1 \subseteq 0 .. k - 1
      OBVIOUS
    <3> QED
      BY <1>9, <3>1, Zenon
  <2>3. a.ok /\ b.ok
    BY <1>5, <1>9
  <2>0. Ended \/ (at + x <= FileEnd /\ o + size <= FileEnd)
    <3>1. o = at + x
      OBVIOUS
    <3> HIDE DEF x, y, o
    <3> QED
      BY <1>1, <1>6, <1>9, <3>1
  <2>4. a.bytes = Slice(Places, at, x)
    <3> HIDE DEF x, o
    <3> QED
      BY <1>4, <2>0, <2>2, <2>3
  <2>5. o + size <= FileEnd /\ b.bytes = Slice(Places, o, size)
    <3> HIDE DEF o
    <3> QED
      BY <1>3, <2>0, <2>1, <2>3
  <2>6. b.bytes = Slice(Places, at + x, size)
    BY <2>5
  <2>7. size \in Nat
    OBVIOUS
  <2>8. Then(a, b).bytes = Slice(Places, at, x + size)
    <3> HIDE DEF x, o, r
    <3> QED
      BY <1>1, <1>3, <1>4, <2>3, <2>4, <2>6, <2>7, ThenReads
  <2>9. at + y = o + size
    <3>1. o = at + x
      OBVIOUS
    <3> HIDE DEF x, y, o
    <3> QED
      BY <1>1, <3>1
  <2> HIDE DEF x, y, o
  <2> QED
    BY <1>1, <2>5, <2>8, <2>9
<1>10. ItemsOK(r, at, size, k)
  <2>1. r \in ReadResults
    BY <1>5
  <2> HIDE DEF r
  <2> QED
    BY <1>7, <1>8, <1>9, <2>1 DEF ItemsOK
<1> QED
  BY <1>10 DEF b

LEMMA ItemsRead ==
    ASSUME SoundChain, NEW at \in Nat, NEW size \in Nat \ {0}, NEW nmemb \in Nat
    PROVE  ItemsOK(Items(at, size, nmemb), at, size, nmemb)
<1> DEFINE Body(g) == [k \in 0 .. nmemb |-> IF k = 0 THEN Read(<<>>)
                                            ELSE Then(g[k - 1], ItemAt(at, size, k))]
           items == CHOOSE g : g = Body(g)
           base == Read(<<>>)
           step == [x \in ReadResults \X (1 .. nmemb) |-> Then(x[1], ItemAt(at, size, x[2]))]
<1>1. Items(at, size, nmemb) = items[nmemb]
  BY DEF Items
<1>2. ASSUME NEW k \in 1 .. nmemb PROVE ItemAt(at, size, k) \in ReadResults
  <2> DEFINE o == at + (k - 1) * size
  <2>1. o \in Nat
    <3>1. k - 1 \in Nat /\ size \in Nat
      OBVIOUS
    <3>2. (k - 1) * size \in Nat
      BY <3>1, ProductNat, Zenon
    <3> QED
      BY <3>2
  <2> HIDE DEF o
  <2>2. ReadOK(fat16_read_internal(chain[1], o, size), o, size)
    BY <2>1, InternalReads
  <2>3. fat16_read_internal(chain[1], o, size) \in ReadResults
    BY <2>2, Zenon DEF ReadOK
  <2> QED
    BY <2>3 DEF ItemAt, o
<1>3. base \in ReadResults
  <2>1. <<>> \in Seq(Nat)
    BY EmptySeq, Zenon
  <2> QED
    BY <2>1 DEF Read, ReadResults
<1>4. PICK g : LoopValues(g, nmemb, ReadResults, base, step)
  <2>1. step \in [ReadResults \X (1 .. nmemb) -> ReadResults]
    <3> SUFFICES ASSUME NEW x \in ReadResults \X (1 .. nmemb)
                 PROVE  Then(x[1], ItemAt(at, size, x[2])) \in ReadResults
      OBVIOUS
    <3>1. x[1] \in ReadResults /\ x[2] \in 1 .. nmemb
      OBVIOUS
    <3>2. ItemAt(at, size, x[2]) \in ReadResults
      BY <1>2, <3>1
    <3> QED
      BY <3>1, <3>2, ThenType
  <2> HIDE DEF base, step
  <2> QED
    BY <1>3, <2>1, LoopHasValues, Zenon
<1>5. g = Body(g)
  <2>1. g \in [0 .. nmemb -> ReadResults] /\ g[0] = base
    BY <1>4 DEF LoopValues
  <2>2. ASSUME NEW k \in 1 .. nmemb PROVE g[k] = Then(g[k - 1], ItemAt(at, size, k))
    <3>1. g[k] = step[<<g[k - 1], k>>]
      <4> HIDE DEF step
      <4> QED
        BY <1>4 DEF LoopValues
    <3>2. g[k - 1] \in ReadResults
      BY <2>1
    <3> QED
      BY <3>1, <3>2
  <2>3. ASSUME NEW k \in 0 .. nmemb PROVE g[k] = Body(g)[k]
    <3>1. CASE k = 0
      BY <2>1, <3>1
    <3>2. CASE k # 0
      <4>1. k \in 1 .. nmemb
        BY <3>2
      <4> QED
        BY <2>2, <3>2, <4>1
    <3> QED
      BY <3>1, <3>2
  <2> QED
    BY <2>1, <2>3
<1>6. items = Body(items)
  <2> HIDE DEF Body
  <2> QED
    BY <1>5
<1> HIDE DEF items
<1>7. items[0] = Read(<<>>)
       /\ \A k \in 1 .. nmemb : items[k] = Then(items[k - 1], ItemAt(at, size, k))
  <2>1. \A k \in 0 .. nmemb : items[k] = Body(items)[k]
    BY <1>6, Zenon
  <2> QED
    BY <2>1
<1> DEFINE S == {k \in 0 .. nmemb : ItemsOK(items[k], at, size, k)}
<1>8. 0 \in S
  BY <1>7, NoItems
<1>9. ASSUME NEW k \in S \cap (0 .. nmemb - 1) PROVE k + 1 \in S
  <2> DEFINE a == items[k]
  <2>1. k + 1 \in 1 .. nmemb /\ k + 1 \in Nat \ {0} /\ (k + 1) - 1 = k
    OBVIOUS
  <2>2. items[k + 1] = Then(a, ItemAt(at, size, k + 1))
    BY <1>7, <2>1
  <2>3. ItemsOK(a, at, size, (k + 1) - 1)
    BY <2>1
  <2> HIDE DEF a
  <2>4. ItemsOK(Then(a, ItemAt(at, size, k + 1)), at, size, k + 1)
    BY <2>1, <2>3, OneMoreItem
  <2> QED
    BY <2>1, <2>2, <2>4
<1>10. 0 .. nmemb \subseteq S
  <2> HIDE DEF S
  <2> QED
    BY <1>8, <1>9, Induction
<1>11. ItemsOK(items[nmemb], at, size, nmemb)
  BY <1>10
<1> QED
  BY <1>1, <1>11

-------------------------------------------------------------------------------
(* The specification. *)

LastType == [at : Nat, size : Nat, nmemb : Nat, got : ReadResults]

(* The inductive invariant: the chain stays sound, and the last read is    *)
(* what ItemsOK says of it, for the chain as it is now.                    *)
FatInv ==
    /\ SoundChain
    /\ pos \in 0 .. MaxPos
    /\ last \in LastType
    /\ last.nmemb = 0 => last.at = 0
    /\ ItemsOK(last.got, last.at, last.size, last.nmemb)

LEMMA NoReadOK ==
    ASSUME SoundChain
    PROVE  /\ NoRead \in LastType /\ NoRead.at = 0
           /\ ItemsOK(NoRead.got, NoRead.at, NoRead.size, NoRead.nmemb)
<1>1. ItemsOK(Read(<<>>), 0, 0, 0)
  BY NoItems
<1>2. Read(<<>>) \in ReadResults
  BY <1>1, Zenon DEF ItemsOK
<1>3. /\ NoRead.at = 0 /\ NoRead.size = 0 /\ NoRead.nmemb = 0
      /\ NoRead.got = Read(<<>>)
  BY DEF NoRead
<1>4. NoRead \in LastType
  BY <1>2 DEF NoRead, LastType
<1> QED
  BY <1>1, <1>3, <1>4

LEMMA FatInit == fat16_open => FatInv
<1> SUFFICES ASSUME fat16_open PROVE FatInv
  OBVIOUS
<1>1. PICK n \in 1 .. MaxClusters : chain \in [1 .. n -> ClusterIds]
  BY DEF fat16_open
<1>2. SoundChain
  <2>1. n \in Nat \ {0}
    BY FatNumbers
  <2>2. chain \in Seq(ClusterIds) /\ Len(chain) = n /\ DOMAIN chain = 1 .. n
    BY <1>1, <2>1
  <2>3. fat \in [Cells -> Numbers] /\ Holds(fat)
    BY DEF fat16_open
  <2> QED
    BY <2>1, <2>2, <2>3 DEF SoundChain, Holds
<1>3. pos \in 0 .. MaxPos /\ last = NoRead
  BY FatNumbers DEF fat16_open
<1> QED
  BY <1>2, <1>3, NoReadOK DEF FatInv

(* The invariant only speaks of the chain and its table, the position and  *)
(* the last read.                                                          *)
LEMMA SameChain ==
    ASSUME FatInv, chain' = chain, fat' = fat, pos' \in 0 .. MaxPos,
           last' \in LastType, last'.nmemb = 0 => last'.at = 0,
           ItemsOK(last'.got, last'.at, last'.size, last'.nmemb)
    PROVE  FatInv'
<1>1. SoundChain'
  BY DEF FatInv, SoundChain
<1>2. FileEnd' = FileEnd
  BY DEF FileEnd
<1>3. Places' = Places
  BY <1>2 DEF Places, Place
<1>4. Plain' = Plain /\ Ended' = Ended
  BY DEF Plain, Ended
<1>5. ItemsOK(last.got, last.at, last.size, last.nmemb)'
  BY <1>2, <1>3, <1>4 DEF ItemsOK
<1> QED
  BY <1>1, <1>5 DEF FatInv

LEMMA FatReadStep ==
    ASSUME FatInv, NEW size \in 1 .. MaxSize, NEW nmemb \in 1 .. MaxItems,
           fat16_read(size, nmemb)
    PROVE  FatInv'
<1> DEFINE r == Items(pos, size, nmemb)
<1>1. /\ last' = [at |-> pos, size |-> size, nmemb |-> nmemb, got |-> r]
      /\ pos' = IF r.ok THEN pos + nmemb * size ELSE pos
      /\ pos' <= MaxPos
      /\ chain' = chain /\ fat' = fat
  BY DEF fat16_read, Items, ItemAt
<1>2. /\ pos \in Nat /\ pos \in 0 .. MaxPos /\ size \in Nat \ {0} /\ nmemb \in Nat \ {0}
      /\ SoundChain
  BY FatNumbers DEF FatInv
<1>3. ItemsOK(r, pos, size, nmemb)
  BY <1>2, ItemsRead
<1> HIDE DEF r
<1>4. r \in ReadResults
  BY <1>3 DEF ItemsOK
<1>5. pos' \in 0 .. MaxPos
  <2> DEFINE x == nmemb * size
  <2>1. x \in Nat
    BY <1>2
  <2> HIDE DEF x
  <2>2. pos' = IF r.ok THEN pos + x ELSE pos
    BY <1>1 DEF x
  <2> QED
    BY <1>1, <1>2, <2>1, <2>2, FatNumbers
<1>6. /\ last'.at = pos /\ last'.size = size /\ last'.nmemb = nmemb /\ last'.got = r
      /\ last' \in LastType
  BY <1>1, <1>2, <1>4 DEF LastType
<1>7. last'.nmemb # 0
  BY <1>2, <1>6
<1> QED
  BY <1>1, <1>3, <1>5, <1>6, <1>7, SameChain

LEMMA FatSeekStep ==
    ASSUME FatInv, NEW offset \in 0 .. MaxPos, NEW whence \in {"SEEK_SET", "SEEK_CUR"},
           fat16_seek(offset, whence)
    PROVE  FatInv'
<1>1. chain' = chain /\ fat' = fat /\ last' = NoRead /\ pos' \in 0 .. MaxPos
  BY FatNumbers DEF fat16_seek, FatInv
<1>2. SoundChain
  BY DEF FatInv
<1> QED
  BY <1>1, <1>2, NoReadOK, SameChain

(* The invariant holds of every behaviour. *)
THEOREM FatInvariant == FatSpec => []FatInv
<1>1. FatInv /\ [FatNext]_fatVars => FatInv'
  <2> SUFFICES ASSUME FatInv, [FatNext]_fatVars PROVE FatInv'
    OBVIOUS
  <2>1. CASE \E size \in 1 .. MaxSize, nmemb \in 1 .. MaxItems : fat16_read(size, nmemb)
    BY <2>1, FatReadStep
  <2>2. CASE \E offset \in 0 .. MaxPos, whence \in {"SEEK_SET", "SEEK_CUR"} :
                fat16_seek(offset, whence)
    BY <2>2, FatSeekStep
  <2>3. CASE UNCHANGED fatVars
    <3>1. chain' = chain /\ fat' = fat /\ pos' = pos /\ last' = last
      BY <2>3 DEF fatVars
    <3> QED
      BY <3>1, SameChain DEF FatInv
  <2> QED
    BY <2>1, <2>2, <2>3 DEF FatNext
<1> QED
  BY <1>1, FatInit, PTL DEF FatSpec

(* The number of bytes of the last read. *)
LEMMA LastLength ==
    ASSUME FatInv
    PROVE  /\ last.at \in Nat /\ last.size * last.nmemb \in Nat
           /\ last.size * last.nmemb = last.nmemb * last.size
           /\ last.got.bytes \in Seq(Nat)
<1>1. last.at \in Nat /\ last.size \in Nat /\ last.nmemb \in Nat /\ last.got \in ReadResults
  BY DEF FatInv, LastType
<1>2. last.got.bytes \in Seq(Nat)
  BY <1>1 DEF ReadResults
<1>3. \A a, b \in Nat : a * b \in Nat /\ a * b = b * a
  OBVIOUS
<1> QED
  BY <1>1, <1>2, <1>3

(* Type correctness of the descriptor and of what a read returns: a read   *)
(* that succeeds returns all the bytes it was asked for.                   *)
THEOREM FatTypeCorrect == FatSpec => []FatTypeOK
<1>1. FatInv => FatTypeOK
  <2> SUFFICES ASSUME FatInv PROVE FatTypeOK
    OBVIOUS
  <2>1. Range(last.got.bytes) \subseteq Nat
    BY LastLength DEF Range
  <2>2. last.got.ok => Len(last.got.bytes) = last.nmemb * last.size
    BY DEF FatInv, ItemsOK
  <2> QED
    BY <2>1, <2>2, LastLength DEF FatTypeOK, FatInv
<1> QED
  BY <1>1, FatInvariant, PTL

(* A read inside the clusters of the file does not fail, on every volume   *)
(* and for every size and number of items, if the chain has no cluster     *)
(* after the first whose number the walk takes for a mark                  *)
(* (fat16_get_cluster_for_offset, fat16_read).                             *)
THEOREM InsideReadsSucceed == FatSpec => []ReadsInsideSucceed
<1>1. FatInv => ReadsInsideSucceed
  <2> SUFFICES ASSUME FatInv, End <= FileEnd, Plain PROVE last.got.ok
    BY DEF ReadsInsideSucceed, Plain
  <2>1. last.at + last.nmemb * last.size <= FileEnd => last.got.ok
    BY DEF FatInv, ItemsOK
  <2>2. last.at + last.nmemb * last.size = End
    BY LastLength DEF End
  <2> QED
    BY <2>1, <2>2
<1> QED
  BY <1>1, FatInvariant, PTL

(* A read whose items start at a cluster or stay in one returns the bytes  *)
(* of the file, for every cluster size, chain, position and length, and    *)
(* does not go behind an end mark that the walk knows, whatever stands in  *)
(* the rest of the table (fat16_read_internal_from_stream,                 *)
(* diskstreamer_read).                                                     *)
THEOREM FittingReadsRight == FatSpec => []FittingReadsCorrect
<1>1. FatInv => FittingReadsCorrect
  <2> SUFFICES ASSUME FatInv, Fitting, last.got.ok, Ended \/ End <= FileEnd
               PROVE  End <= FileEnd /\ last.got.bytes = FileBytes
    BY DEF FittingReadsCorrect, Ended
  <2> DEFINE n == last.nmemb * last.size
  <2>1. /\ last.at \in Nat /\ n \in Nat /\ End = last.at + n /\ n = last.size * last.nmemb
        /\ FileEnd \in Nat
    <3>1. FileEnd \in Nat
      BY OffsetInside DEF FatInv
    <3> QED
      BY <3>1, LastLength DEF End
  <2>2. \A j \in 0 .. last.nmemb - 1 : FitsAt(last.at + j * last.size, last.size)
    BY DEF Fitting, FitsAt
  <2>3. /\ last.nmemb > 0 => last.at + n <= FileEnd
        /\ last.got.bytes = Slice(Places, last.at, n)
    BY <2>1, <2>2 DEF FatInv, ItemsOK
  <2>4. End <= FileEnd
    <3>1. CASE last.nmemb > 0
      BY <2>1, <2>3, <3>1
    <3>2. CASE last.nmemb = 0
      <4>1. last.at = 0 /\ n = 0
        BY <3>2 DEF FatInv, LastType
      <4> HIDE DEF n
      <4> QED
        BY <2>1, <4>1
    <3>3. last.nmemb \in Nat
      BY DEF FatInv, LastType
    <3> QED
      BY <3>1, <3>2, <3>3
  <2>5. Slice(Places, last.at, n) = FileBytes
    <3> HIDE DEF n
    <3>1. ASSUME NEW k \in 1 .. n PROVE Places[last.at + k - 1] = Place(last.at + k - 1)
      <4> DEFINE j == last.at + k - 1
      <4>1. j \in Nat /\ j < FileEnd
        BY <2>1, <2>4
      <4> HIDE DEF j
      <4>2. Places[j] = Place(j)
        BY <4>1 DEF Places
      <4> QED
        BY <4>2 DEF j
    <3> QED
      BY <2>1, <3>1, Zenon DEF Slice, FileBytes
  <2> QED
    BY <2>3, <2>4, <2>5
<1> QED
  BY <1>1, FatInvariant, PTL
===============================================================================
