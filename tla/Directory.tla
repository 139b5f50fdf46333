------------------------------- MODULE Directory -------------------------------
(***************************************************************************)
(* Finding a file by its path on a FAT16 volume: the directory part of     *)
(* src/fs/fat/fat16.c.  A volume is the root directory, the contents of    *)
(* its clusters as directory slots, and the file allocation table.  A      *)
(* slot is the end mark (first byte 0), deleted (0xE5), or the entry of a  *)
(* file or a directory; the bytes of a file, taken for a slot, are junk.   *)
(* An entry of the table is the next cluster or 0, the end marks that the  *)
(* walk knows; the entries it takes for something else are in Fat16.       *)
(*                                                                         *)
(* The operators pass the number of free blocks of the heap along.  An     *)
(* item keeps what became of the pointer in it: "ok", "null", or "freed".  *)
(***************************************************************************)
EXTENDS Integers, Sequences, FiniteSets, SequencesExt

CONSTANTS Clusters,        \* data clusters of the volume
          SlotsPerCluster  \* directory slots in a cluster

ASSUME DirectoryAssumption ==
    Clusters \in Nat \ {0} /\ SlotsPerCluster \in Nat \ {0}

ClusterIds == 2 .. Clusters + 1
LastInFat  == 0

NoName  == "none"
DotName == "dots"  \* . and ..

Slot(kind, name, cluster) == [kind |-> kind, name |-> name, cluster |-> cluster]

EndMark == Slot("end", NoName, 0)
Deleted == Slot("deleted", NoName, 0)
Junk    == Slot("junk", NoName, 0)

-------------------------------------------------------------------------------
(* Reading directories. *)

(* The slots of n clusters, one after the other, where cluster[k] is the   *)
(* number of the cluster that comes after k others.                        *)
SlotsOf(vol, cluster, n) ==
    [k \in 1 .. n * SlotsPerCluster |->
        vol.data[cluster[(k - 1) \div SlotsPerCluster]][((k - 1) % SlotsPerCluster) + 1]]

(* The slots as they follow each other on the disk, from cluster c on. *)
OnDisk(vol, c) == SlotsOf(vol, [k \in 0 .. Clusters + 1 - c |-> c + k], Clusters + 2 - c)

(* The slots of the chain of clusters that begins at c. *)
OfChain(vol, c) ==
    LET chain[k \in 0 .. Clusters] ==
            IF k = 0 THEN c
            ELSE IF chain[k - 1] = LastInFat THEN LastInFat ELSE vol.next[chain[k - 1]]
        ends == {k \in 0 .. Clusters : chain[k] = LastInFat}
    IN  SlotsOf(vol, chain, Min(ends \cup {Clusters}))

UpToEnd(slots) ==
    IF \E k \in DOMAIN slots : slots[k].kind = "end"
    THEN SubSeq(slots, 1, SelectInSeq(slots, LAMBDA s : s.kind = "end") - 1)
    ELSE slots

(* The entries up to the end mark, without the deleted ones, read straight *)
(* on from the first sector.                                               *)
fat16_get_total_items_for_directory(slots) ==
    Cardinality({k \in DOMAIN UpToEnd(slots) : slots[k].kind # "deleted"})

(* fat16_get_root_directory, done once by fat16_resolve at boot. *)
fat16_get_root_directory(vol) ==
    [items |-> vol.root,
     total |-> fat16_get_total_items_for_directory(vol.root \o OnDisk(vol, 2))]

(* A load that reads straight on, like the count. *)
LoadStraightOn(vol, entry, free) ==
    LET total == fat16_get_total_items_for_directory(OnDisk(vol, entry.cluster))
        slots == OnDisk(vol, entry.cluster)
        gone  == [ptr |-> "freed", items |-> <<>>, total |-> 0, free |-> free]
    IN  IF free = 0 THEN [gone EXCEPT !.ptr = "null"]
        ELSE IF free = 1 \/ total > Len(slots) THEN gone
        ELSE [ptr |-> "ok", items |-> SubSeq(slots, 1, total), total |-> total,
              free |-> free - 2]

(* A load that reads the first cluster of the directory only. *)
LoadOneCluster(vol, entry, free) ==
    LET total == fat16_get_total_items_for_directory(OnDisk(vol, entry.cluster))
        slots == vol.data[entry.cluster]
        gone  == [ptr |-> "freed", items |-> <<>>, total |-> 0, free |-> free]
    IN  IF free = 0 THEN [gone EXCEPT !.ptr = "null"]
        ELSE IF free = 1 \/ total > Len(slots) THEN gone
        ELSE [ptr |-> "ok", items |-> SubSeq(slots, 1, total), total |-> total,
              free |-> free - 2]

(* fat16_load_fat_directory: the struct, the count, an array for as many   *)
(* entries, and the entries, read along the chain.  When the array cannot  *)
(* be allocated or the chain is too short, the directory is freed and      *)
(* returned all the same.                                                  *)
fat16_load_fat_directory(vol, entry, free) ==
    LET total == fat16_get_total_items_for_directory(OnDisk(vol, entry.cluster))
        slots == OfChain(vol, entry.cluster)
        gone  == [ptr |-> "freed", items |-> <<>>, total |-> 0, free |-> free]
    IN  IF free = 0 THEN [gone EXCEPT !.ptr = "null"]
        ELSE IF free = 1 \/ total > Len(slots) THEN gone
        ELSE [ptr |-> "ok", items |-> SubSeq(slots, 1, total), total |-> total,
              free |-> free - 2]

-------------------------------------------------------------------------------
(* Items. *)

NoItem == [type |-> "none", ptr |-> "null", entry |-> EndMark,
           dir |-> [items |-> <<>>, total |-> 0]]

Found(item) == item.type # "none"

(* The blocks of an item: the item, and what it points to. *)
Blocks(item) ==
    IF item.ptr # "ok" THEN 1 ELSE IF item.type = "directory" THEN 3 ELSE 2

(* fat16_new_fat_item_for_directory_item: what is allocated behind the     *)
(* item is not checked.                                                    *)
fat16_new_fat_item(vol, entry, free) ==
    LET d    == fat16_load_fat_directory(vol, entry, free - 1)
        item == [NoItem EXCEPT !.entry = entry]
    IN  IF free = 0 THEN [item |-> NoItem, free |-> 0]
        ELSE IF entry.kind = "dir"
        THEN [item |-> [item EXCEPT !.type = "directory", !.ptr = d.ptr,
                                    !.dir = [items |-> d.items, total |-> d.total]],
              free |-> d.free]
        ELSE [item |-> [item EXCEPT !.type = "file", !.ptr = IF free > 1 THEN "ok" ELSE "null"],
              free |-> IF free > 1 THEN free - 2 ELSE 0]

(* fat16_find_item_in_directory: every entry with the name makes an item,  *)
(* and the last one is returned.  istrncmp takes names that differ only in *)
(* case for the same, so a name stands for all its spellings.  Nothing but *)
(* the count keeps i inside the array: of a root directory with no end     *)
(* mark, counted on into the data, the code reads behind the array, and so *)
(* the volumes of Files have an end mark in their root directory.          *)
fat16_find_item_in_directory(vol, dir, name, free) ==
    LET found[i \in 0 .. dir.total] ==
            IF i = 0 THEN [item |-> NoItem, free |-> free]
            ELSE IF dir.items[i].name = name
            THEN fat16_new_fat_item(vol, dir.items[i], found[i - 1].free)
            ELSE found[i - 1]
    IN  found[dir.total]

(* How far a walk has come: it goes on, has left the loop, or has used an  *)
(* item that is not there.                                                 *)
Walk(item, free, how) == [item |-> item, free |-> free, how |-> how]

(* A walk that does not free the directories it has passed through. *)
WalkKeepsDirectories(vol, parts, free) ==
    LET find(dir, k, f) == fat16_find_item_in_directory(vol, dir, parts[k], f)
        first == find(fat16_get_root_directory(vol), 1, free)
        walk[k \in 0 .. Len(parts) - 1] ==
            LET was  == walk[k - 1]
                here == find(was.item.dir, k + 1, was.free)
            IN  IF k = 0
                THEN Walk(first.item, first.free, IF Found(first.item) THEN "on" ELSE "out")
                ELSE IF was.how # "on" THEN was
                ELSE IF was.item.type = "file" THEN Walk(NoItem, was.free, "out")
                ELSE IF was.item.ptr # "ok" THEN Walk(was.item, was.free, "wild")
                ELSE Walk(here.item, here.free, "on")
    IN  walk[Len(parts) - 1]

(* fat16_get_directory_entry: from the root along the parts, each          *)
(* directory freed when the next item has been looked for in it.  A file   *)
(* in the middle of the path ends the walk and is not freed.  An item that *)
(* is missing in the middle, past the first part, and a directory that     *)
(* could not be loaded are used all the same.                              *)
fat16_get_directory_entry(vol, parts, free) ==
    LET find(dir, k, f) == fat16_find_item_in_directory(vol, dir, parts[k], f)
        first == find(fat16_get_root_directory(vol), 1, free)
        walk[k \in 0 .. Len(parts) - 1] ==
            LET was  == walk[k - 1]
                here == find(was.item.dir, k + 1, was.free)
            IN  IF k = 0
                THEN Walk(first.item, first.free, IF Found(first.item) THEN "on" ELSE "out")
                ELSE IF was.how # "on" THEN was
                ELSE IF was.item.type = "file" THEN Walk(NoItem, was.free, "out")
                ELSE IF was.item.ptr # "ok" THEN Walk(was.item, was.free, "wild")
                ELSE Walk(here.item, here.free + Blocks(was.item), "on")
    IN  walk[Len(parts) - 1]

-------------------------------------------------------------------------------
(* What a path names, by the structure of the volume alone. *)

ContentsOf(vol, entry) == UpToEnd(OfChain(vol, entry.cluster))

Among(slots, name) ==
    IF \E k \in DOMAIN slots : slots[k].name = name
    THEN slots[SelectInSeq(slots, LAMBDA s : s.name = name)]
    ELSE EndMark

Named(vol, names) ==
    LET at[k \in 0 .. Len(names) - 1] ==
            IF k = 0 THEN Among(UpToEnd(vol.root), names[1])
            ELSE IF at[k - 1].kind # "dir" THEN EndMark
            ELSE Among(ContentsOf(vol, at[k - 1]), names[k + 1])
    IN  at[Len(names) - 1]
===============================================================================
