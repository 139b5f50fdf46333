-------------------------------- MODULE Fat16 --------------------------------
(***************************************************************************)
(* Reading a file of a FAT16 volume: fat16_read, fat16_seek and what they  *)
(* call in src/fs/fat/fat16.c, down to diskstreamer_read of                *)
(* src/disk/streamer.c.                                                    *)
(*                                                                         *)
(* The byte at a position of the disk is modelled by the position itself,  *)
(* so what a read returns says where each byte came from.                  *)
(***************************************************************************)
EXTENDS Integers, Sequences, Functions

CONSTANTS SectorSize,         \* PANDORA_SECTOR_SIZE
          SectorsPerCluster,  \* sectors_per_cluster
          DataSector,         \* root_directory.ending_sector_pos
          ClusterIds,         \* the clusters of the volume that a file may have
          EndMarks,           \* the end marks the maker of the volume writes
          Strays,             \* what stands in the other entries of the table
          MaxClusters,        \* bound: clusters of the file
          MaxSize,            \* bound: size of one item of a read
          MaxItems,           \* bound: nmemb of a read
          MaxPos              \* bound: position a SEEK_CUR may reach

ASSUME FatAssumption ==
    /\ SectorSize \in Nat \ {0} /\ SectorsPerCluster \in Nat \ {0}
    /\ DataSector \in Nat /\ MaxClusters \in Nat \ {0}
    /\ \A c \in ClusterIds : c \in Nat /\ 2 <= c /\ c <= 65525        \* 0xFFF5
    /\ \A c \in EndMarks : c \in Nat /\ 65528 <= c /\ c <= 65535      \* 0xFFF8 to 0xFFFF
    /\ \A c \in Strays : c \in Nat /\ c # 1 /\ c <= 65535          \* no maker writes 1
    /\ MaxSize \in Nat /\ MaxItems \in Nat /\ MaxPos \in Nat

VARIABLES chain,     \* the clusters of the file, in order
          fat,       \* the file allocation table, where a walk may look at it
          filesize,  \* filesize of its directory entry
          pos,       \* descriptor->pos
          last       \* history: the last read

fatVars == <<chain, fat, filesize, pos, last>>

ClusterSize == SectorsPerCluster * SectorSize
EIO         == -1

(* Entries on which fat16_get_cluster_for_offset gives up: the end marks   *)
(* it knows, 0xFFF8 and 0xFFFF; 0xFF7, 0xFF0 and 0xFF6 for bad and         *)
(* reserved clusters, although on a FAT16 volume these are the numbers of  *)
(* ordinary clusters; and 0.                                               *)
LastMarks == {65528, 65535}
BadSector == 4087
Reserved  == {4080, 4086}
Stops     == LastMarks \cup {BadSector} \cup Reserved \cup {0}

Numbers == ClusterIds \cup EndMarks \cup Strays

(* Where a walk can come to: it goes on from every other entry, also from  *)
(* an end mark it does not know.                                           *)
Cells == ClusterIds \cup (Numbers \ Stops)

(* The table of a volume that holds the file: each cluster of the chain    *)
(* names the next one, and the last one has an end mark.                   *)
Holds(f) ==
    /\ \A k \in 1 .. Len(chain) - 1 : f[chain[k]] = chain[k + 1]
    /\ f[chain[Len(chain)]] \in EndMarks
    /\ \A c \in Cells \ Range(chain) : f[c] \in Strays

fat16_get_fat_entry(c) == fat[c]

-------------------------------------------------------------------------------
(* diskstreamer_read from position start: sector by sector, through a      *)
(* buffer of one sector; read[t] are the last t bytes.                     *)

(* A reader that forgets the offset when it copies out of the buffer. *)
StreamFromSectorStart(start, total) ==
    LET read[t \in 0 .. total] ==
            LET p        == start + (total - t)
                offset   == p % SectorSize
                overflow == offset + t >= SectorSize
                n        == IF overflow THEN SectorSize - offset ELSE t
                got      == [k \in 1 .. n |-> p - offset + k - 1]
            IN  IF overflow THEN got \o read[t - n] ELSE got
    IN  read[total]

(* A reader that stops at the end of the first sector. *)
StreamOneSector(start, total) ==
    LET room == SectorSize - (start % SectorSize)
    IN  [k \in 1 .. (IF total > room THEN room ELSE total) |-> start + k - 1]

diskstreamer_read(start, total) ==
    LET read[t \in 0 .. total] ==
            LET p        == start + (total - t)
                sector   == p \div SectorSize
                offset   == p % SectorSize
                overflow == offset + t >= SectorSize
                n        == IF overflow THEN SectorSize - offset ELSE t
                buf      == [k \in 0 .. SectorSize - 1 |-> sector * SectorSize + k]
                got      == [k \in 1 .. n |-> buf[offset + k - 1]]
            IN  IF overflow THEN got \o read[t - n] ELSE got
    IN  read[total]

-------------------------------------------------------------------------------
(* Clusters. *)

fat16_cluster_to_sector(c) == DataSector + (c - 2) * SectorsPerCluster

(* One round of the loop of fat16_get_cluster_for_offset. *)
Follow(c) ==
    IF c = EIO \/ fat16_get_fat_entry(c) \in Stops THEN EIO ELSE fat16_get_fat_entry(c)

(* A walk that goes one cluster too far at a boundary. *)
WalkTooFar(first, offset) ==
    LET walk[k \in 0 .. (offset + 1) \div ClusterSize] ==
            IF k = 0 THEN first ELSE Follow(walk[k - 1])
    IN  walk[(offset + 1) \div ClusterSize]

fat16_get_cluster_for_offset(first, offset) ==
    LET walk[k \in 0 .. offset \div ClusterSize] ==
            IF k = 0 THEN first ELSE Follow(walk[k - 1])
    IN  walk[offset \div ClusterSize]

(* What a read has delivered so far, and whether it failed. *)
Failed        == [ok |-> FALSE, bytes |-> <<>>]
Read(bytes)   == [ok |-> TRUE, bytes |-> bytes]
Then(a, b)    == IF a.ok /\ b.ok THEN Read(a.bytes \o b.bytes) ELSE Failed

(* fat16_read_internal_from_stream: at most the length of a cluster at a   *)
(* time, from wherever the offset lies in its cluster; read[t] reads the   *)
(* last t bytes.                                                           *)
fat16_read_internal(first, offset, total) ==
    LET read[t \in 0 .. total] ==
            LET o     == offset + (total - t)
                c     == fat16_get_cluster_for_offset(first, o)
                start == fat16_cluster_to_sector(c) * SectorSize + (o % ClusterSize)
                n     == IF t > ClusterSize THEN ClusterSize ELSE t
                got   == Read(diskstreamer_read(start, n))
            IN  IF c = EIO THEN Failed
                ELSE IF t - n > 0 THEN Then(got, read[t - n])
                ELSE got
    IN  read[total]

-------------------------------------------------------------------------------
(* The file operations. *)

NoRead == [at |-> 0, size |-> 0, nmemb |-> 0, got |-> Read(<<>>)]

(* Some file is opened on some volume: its chain visits each of its        *)
(* clusters once and is as long as the size needs.                         *)
fat16_open ==
    /\ chain \in UNION {{s \in [1 .. n -> ClusterIds] : IsInjective(s)} : n \in 1 .. MaxClusters}
    /\ fat \in {f \in [Cells -> Numbers] : Holds(f)}
    /\ filesize \in (Len(chain) - 1) * ClusterSize + 1 .. Len(chain) * ClusterSize
    /\ pos = 0
    /\ last = NoRead

(* fat16_read of nmemb items: one read_internal for each.  An error leaves *)
(* the position where it was.                                              *)
fat16_read(size, nmemb) ==
    LET items[k \in 0 .. nmemb] ==
            IF k = 0 THEN Read(<<>>)
            ELSE Then(items[k - 1],
                      fat16_read_internal(chain[1], pos + (k - 1) * size, size))
    IN  /\ last' = [at |-> pos, size |-> size, nmemb |-> nmemb, got |-> items[nmemb]]
        /\ pos' = IF items[nmemb].ok THEN pos + nmemb * size ELSE pos
        /\ pos' <= MaxPos
        /\ UNCHANGED <<chain, fat, filesize>>

(* fat16_seek.  The offset is compared with the size of the file, not the  *)
(* position it leads to; SEEK_END is not implemented.                      *)
fat16_seek(offset, whence) ==
    /\ offset < filesize
    /\ pos' = IF whence = "SEEK_SET" THEN offset ELSE pos + offset
    /\ pos' <= MaxPos
    /\ last' = NoRead
    /\ UNCHANGED <<chain, fat, filesize>>

FatNext ==
    \/ \E size \in 1 .. MaxSize, nmemb \in 1 .. MaxItems : fat16_read(size, nmemb)
    \/ \E offset \in 0 .. MaxPos, whence \in {"SEEK_SET", "SEEK_CUR"} : fat16_seek(offset, whence)

FatSpec == fat16_open /\ [][FatNext]_fatVars

-------------------------------------------------------------------------------
(* Properties. *)

(* Type correctness of the descriptor and of the last read. *)
FatTypeOK ==
    /\ pos \in 0 .. MaxPos
    /\ Range(last.got.bytes) \subseteq Nat
    /\ last.got.ok => Len(last.got.bytes) = last.size * last.nmemb

(* Where byte k of the file lies on the disk. *)
Place(k) ==
    (DataSector + (chain[k \div ClusterSize + 1] - 2) * SectorsPerCluster) * SectorSize
        + (k % ClusterSize)

FileEnd == Len(chain) * ClusterSize

End == last.at + last.size * last.nmemb

FileBytes == [k \in 1 .. last.size * last.nmemb |-> Place(last.at + k - 1)]

(* Every item of the last read starts at a cluster or stays in one. *)
Fitting ==
    \A k \in 0 .. last.nmemb - 1 :
        LET o == (last.at + (k * last.size)) % ClusterSize
        IN  o = 0 \/ o + last.size <= ClusterSize

(* A read whose items start at a cluster, like the loaders' reads of a     *)
(* whole file, or stay in one, returns the bytes of the file in order,     *)
(* however its clusters are scattered over the disk, and does not go       *)
(* beyond its last cluster if that has an end mark the walk knows; behind  *)
(* another end mark it goes on through the table                           *)
(* (fat16_get_cluster_for_offset, fat16_read_internal_from_stream,         *)
(* fat16.c 420-506).                                                       *)
FittingReadsCorrect ==
    Fitting /\ last.got.ok =>
        /\ fat[chain[Len(chain)]] \in LastMarks => End <= FileEnd
        /\ End <= FileEnd => last.got.bytes = FileBytes

(* A read inside the clusters of the file never fails, unless the chain    *)
(* goes on in a cluster whose number the walk takes for a mark             *)
(* (fat16_get_cluster_for_offset, fat16.c 420-464).                        *)
ReadsInsideSucceed ==
    End <= FileEnd /\ (\A k \in 2 .. Len(chain) : chain[k] \notin Stops) => last.got.ok

(* Any read that succeeds inside the file returns its bytes: the comment   *)
(* on fat16_read_internal says "It'll make it look like we are reading     *)
(* from one giant file."                                                   *)
LooksLikeOneFile ==
    last.got.ok /\ End <= filesize => last.got.bytes = FileBytes
===============================================================================
