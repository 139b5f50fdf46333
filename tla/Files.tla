--------------------------------- MODULE Files ---------------------------------
(***************************************************************************)
(* Files as the kernel opens and closes them: src/fs/file.c on top of the  *)
(* path parser and of the FAT16 directories.  The kernel calls fopen while *)
(* other users of the heap come and go, so any allocation on the way may   *)
(* fail.  Memory is counted: every struct takes one block.                 *)
(*                                                                         *)
(* A pointer that is null, freed or an error value and is used makes the   *)
(* kernel go wild: what happens then depends on the memory it hits.        *)
(***************************************************************************)
EXTENDS PathParser, Directory

CONSTANTS Volumes,     \* the volumes the disk may hold
          Paths,       \* the paths fopen is called with
          MaxFiles,    \* PANDORA_MAX_FILE_DESCRIPTORS
          TotalBlocks  \* blocks of the heap that the model counts

(* What the format of the disk gives.  A directory entry names a cluster;  *)
(* the first byte of an end mark or a deleted entry is in no name.         *)
Kinds == {"end", "deleted", "junk", "dot", "file", "dir"}

SlotRecords ==
    {s \in [kind : Kinds, name : STRING \cup {NoName}, cluster : Nat] :
        /\ s.kind = "dir" => s.cluster \in ClusterIds
        /\ s.kind \in {"end", "deleted"} => s.name = NoName}

(* The root directory has an end mark: it is not full to its last entry,   *)
(* which fat16_get_total_items_for_directory would count past.             *)
VolumeShape(vol) ==
    /\ vol.root \in Seq(SlotRecords) /\ \E k \in DOMAIN vol.root : vol.root[k].kind = "end"
    /\ vol.data \in [ClusterIds -> [1 .. SlotsPerCluster -> SlotRecords]]
    /\ vol.next \in [ClusterIds -> ClusterIds \cup {LastInFat}]

(* Between two names of a path is a slash.  The names . and .. are left    *)
(* out: the entry .. of a directory in the root has cluster 0, which is no *)
(* cluster of the volume, and the code would read in front of its data.    *)
PathShape(path) ==
    /\ path.valid \in BOOLEAN /\ path.rest \in Seq(STRING)
    /\ \A k \in DOMAIN path.rest : path.rest[k] \notin {NoName, DotName}
    /\ \A k \in 1 .. Len(path.rest) - 1 : path.rest[k] # SLASH => path.rest[k + 1] = SLASH

ASSUME FilesAssumption ==
    /\ MaxFiles \in Nat \ {0} /\ TotalBlocks \in Nat
    /\ \A vol \in Volumes : VolumeShape(vol)
    /\ \A path \in Paths : PathShape(path)

(* A directory as a driver leaves it: no name twice, and no name behind    *)
(* the end mark.                                                           *)
SoundSlots(slots) ==
    /\ \A j, k \in DOMAIN slots : j # k /\ slots[j].name = slots[k].name => slots[j].name = NoName
    /\ \A j, k \in DOMAIN slots : j < k /\ slots[j].kind = "end" => slots[k].name = NoName

EntriesOf(vol) ==
    {vol.root[k] : k \in DOMAIN vol.root}
        \cup {vol.data[c][k] : c \in ClusterIds, k \in 1 .. SlotsPerCluster}

(* All directories are, and begin with the entry for themselves. *)
SoundVolume(vol) ==
    /\ SoundSlots(vol.root)
    /\ \A s \in EntriesOf(vol) :
          s.kind = "dir" => /\ SoundSlots(OfChain(vol, s.cluster))
                            /\ vol.data[s.cluster][1].kind = "dot"

VARIABLES volume,            \* what is on the disk
          filesystem,        \* disk.filesystem is set
          file_descriptors,  \* the table; a descriptor and its item
          free,              \* blocks left
          elsewhere,         \* blocks the rest of the kernel holds
          lostPaths,         \* history: blocks of the paths of opened files
          outcome,           \* of the last call: "done" or "failed"
          mode               \* "ok" or "wild"

filesVars == <<volume, filesystem, file_descriptors, free, elsewhere, lostPaths, outcome, mode>>

Descriptors == 1 .. MaxFiles

Closed == [item |-> NoItem, path |-> <<>>]

Open == {fd \in Descriptors : file_descriptors[fd] # Closed}

(* fs_init and disk_search_and_init: fs_resolve asks fat16_resolve, which  *)
(* takes the volume if its signature is right.  What the file system       *)
(* itself holds from then on belongs to the rest of the kernel.            *)
FilesInit ==
    /\ volume \in Volumes
    /\ filesystem \in BOOLEAN
    /\ file_descriptors = [fd \in Descriptors |-> Closed]
    /\ free = TotalBlocks
    /\ elsewhere = 0
    /\ lostPaths = 0
    /\ outcome = "done"
    /\ mode = "ok"

Wild ==
    /\ mode' = "wild"
    /\ UNCHANGED <<volume, filesystem, file_descriptors, free, elsewhere, lostPaths, outcome>>

(* A call ends: the table, the blocks left, and how it went. *)
Returns(table, blocks, how) ==
    /\ file_descriptors' = table
    /\ free' = blocks
    /\ outcome' = how
    /\ UNCHANGED <<volume, filesystem, elsewhere, mode>>

Fails(blocks) == Returns(file_descriptors, blocks, "failed") /\ UNCHANGED lostPaths

-------------------------------------------------------------------------------
(* The file system's side. *)

(* fat16_open: the item behind the path, the blocks left, and whether      *)
(* there is one.  Files can only be read.                                  *)
fat16_open(parts, how, blocks) ==
    LET walk == fat16_get_directory_entry(volume, parts, blocks - 1)
    IN  [item |-> walk.item, free |-> walk.free,
         ok |-> how = "r" /\ blocks > 0 /\ walk.how # "wild" /\ Found(walk.item)]

(* fat16_close frees the item and what it points to, which may be gone     *)
(* already, or never have been there: a directory that is null is skipped, *)
(* a null directory entry is not.                                          *)
CanClose(item) ==
    \/ item.ptr = "ok"
    \/ item.type = "directory" /\ item.ptr = "null"

fat16_close(item, blocks) == blocks + 1 + Blocks(item)

-------------------------------------------------------------------------------
(* src/fs/file.c. *)

(* file_get_descriptor for a descriptor number the kernel passes. *)
file_get_descriptor(fd) == fd \in 1 .. MaxFiles - 1 /\ fd \in Open

(* The place file_new_descriptor takes, if there is one. *)
file_new_descriptor == Descriptors \ Open

(* fopen.  After a failure the path and what the file system opened are    *)
(* given back; but what is closed after a failed fat16_open is the error   *)
(* value it returned.                                                      *)
fopen(path, how) ==
    \E p \in {pathparser_parse(path, free)} :
        \/ p.parts = <<>> /\ Fails(p.free)
        \/ /\ p.parts # <<>>
           /\ path.drive # 0 \/ ~filesystem \/ how = "?"
           /\ Fails(pathparser_free(p.parts, p.free))
        \/ /\ p.parts # <<>> /\ path.drive = 0 /\ filesystem /\ how # "?"
           /\ \E o \in {fat16_open(p.parts, how, p.free)} :
                \/ ~o.ok /\ Wild
                \/ /\ o.ok /\ file_new_descriptor = {} /\ CanClose(o.item)
                   /\ Fails(pathparser_free(p.parts, fat16_close(o.item, o.free)))
                \/ /\ o.ok /\ file_new_descriptor = {} /\ ~CanClose(o.item)
                   /\ Wild
                \/ /\ o.ok /\ file_new_descriptor # {} /\ o.free = 0
                   /\ Wild
                \/ /\ o.ok /\ file_new_descriptor # {} /\ o.free > 0
                   /\ Returns([file_descriptors EXCEPT ![Min(file_new_descriptor)] =
                                  [item |-> o.item, path |-> NamesOf(path)]],
                              o.free - 1, "done")
                   /\ lostPaths' = lostPaths + PathBlocks(p.parts)

(* fclose: the item, the file system's descriptor and the descriptor go. *)
fclose(fd) ==
    LET item == file_descriptors[fd].item
    IN  \/ ~file_get_descriptor(fd) /\ Fails(free)
        \/ file_get_descriptor(fd) /\ ~CanClose(item) /\ Wild
        \/ /\ file_get_descriptor(fd) /\ CanClose(item)
           /\ Returns([file_descriptors EXCEPT ![fd] = Closed], fat16_close(item, free) + 1, "done")
           /\ UNCHANGED lostPaths

(* fstat and fseek look at the directory entry of a file and refuse a      *)
(* directory; what fseek does to the position is Fat16's subject.          *)
fstat(fd) ==
    LET item == file_descriptors[fd].item
    IN  IF ~file_get_descriptor(fd) \/ item.type = "directory" THEN Fails(free)
        ELSE IF item.ptr # "ok" THEN Wild
        ELSE Returns(file_descriptors, free, "done") /\ UNCHANGED lostPaths

(* fread takes whatever is open for a file. *)
fread(fd) ==
    LET item == file_descriptors[fd].item
    IN  IF ~file_get_descriptor(fd) THEN Fails(free)
        ELSE IF item.type = "directory" \/ item.ptr # "ok" THEN Wild
        ELSE /\ \E how \in {"done", "failed"} : Returns(file_descriptors, free, how)
             /\ UNCHANGED lostPaths

(* The rest of the kernel allocates and frees. *)
Elsewhere ==
    /\ free' \in 0 .. free + elsewhere
    /\ elsewhere' = elsewhere + free - free'
    /\ outcome' = "done"
    /\ UNCHANGED <<volume, filesystem, file_descriptors, lostPaths, mode>>

FilesNext ==
    /\ mode = "ok"
    /\ \/ \E path \in Paths, how \in {"r", "w", "?"} : fopen(path, how)
       \/ \E fd \in Descriptors : fclose(fd) \/ fstat(fd) \/ fread(fd)
       \/ Elsewhere

FilesSpec == FilesInit /\ [][FilesNext]_filesVars

-------------------------------------------------------------------------------
(* Properties. *)

(* Type correctness of the descriptor table and of the counts. *)
FilesTypeOK ==
    /\ DOMAIN volume.data = ClusterIds /\ DOMAIN volume.next = ClusterIds
    /\ filesystem \in BOOLEAN
    /\ free \in 0 .. TotalBlocks /\ elsewhere \in 0 .. TotalBlocks
    /\ lostPaths \in 0 .. TotalBlocks
    /\ outcome \in {"done", "failed"} /\ mode \in {"ok", "wild"}
    /\ \A fd \in Open : file_descriptors[fd].item.type \in {"file", "directory"}

(* The blocks of the open files: descriptors, items and what these point to. *)
OpenBlocks(table) ==
    LET upTo[n \in 0 .. MaxFiles] ==
            IF n = 0 THEN 0
            ELSE upTo[n - 1] + (IF table[n] = Closed THEN 0 ELSE 2 + Blocks(table[n].item))
    IN  upTo[MaxFiles]

(* Every block is free, with the rest of the kernel, part of an open file, *)
(* or of the path of a file that has been opened: nothing else is lost or  *)
(* given back twice, whichever allocation failed on the way, in the        *)
(* parser, in the walk through the directories or in fopen itself          *)
(* (pathparser_parse, fat16_get_directory_entry, the exit of fopen).       *)
OnlyPathsLost ==
    mode = "ok" =>
        TotalBlocks = free + elsewhere + lostPaths + OpenBlocks(file_descriptors)

(* A call that fails without going wild leaves no trace: the table and the *)
(* heap are as they were (the goto out of fopen, file.c 194-216).          *)
FailuresChangeNothing ==
    [][outcome' = "failed" /\ mode' = "ok" => UNCHANGED <<file_descriptors, free, lostPaths>>]_filesVars

(* An open file is the entry that the structure of the volume gives to the *)
(* path, or to the beginning of the path where memory ran out or a slash   *)
(* is doubled: never an entry of another directory, a deleted one, or what *)
(* lies behind the end of a directory (fat16_find_item_in_directory).      *)
OpensNamedItem ==
    \A fd \in Open :
        LET f == file_descriptors[fd]
        IN  \E n \in 1 .. Len(f.path) : f.item.entry = Named(volume, SubSeq(f.path, 1, n))

(* A directory none of whose entries is deleted and which ends with an end *)
(* mark, before its clusters leave the order of the disk.                  *)
Tidy(slots, onDisk) ==
    /\ \A k \in DOMAIN slots : slots[k].kind # "deleted"
    /\ UpToEnd(slots) = UpToEnd(onDisk)
    /\ \E k \in DOMAIN slots : slots[k].kind = "end"

TidyVolume ==
    /\ Tidy(volume.root, volume.root)
    /\ \A c \in ClusterIds :
        volume.data[c][1].kind = "dot" => Tidy(OfChain(volume, c), OnDisk(volume, c))

(* On a volume whose directories are tidy, a path made of names finds what *)
(* the structure of the volume gives it, in directories of several         *)
(* clusters as well, when the heap has room                                *)
(* (fat16_get_total_items_for_directory, fat16_load_fat_directory).        *)
ExistingFilesFound ==
    free = TotalBlocks /\ TidyVolume =>
        \A path \in Paths :
            LET parts == pathparser_parse(path, free).parts
                named == Named(volume, parts)
                walk  == fat16_get_directory_entry(volume, parts, free)
            IN  parts # <<>> /\ named # EndMark =>
                    walk.how = "on" /\ walk.item.ptr = "ok" /\ walk.item.entry = named
===============================================================================
