-------------------------------- MODULE MCFiles --------------------------------
(* Volumes and paths for the run of Files. *)
EXTENDS Files

Dot        == Slot("dot", DotName, 0)  \* the entries . and .., which no path names
File(name) == Slot("file", name, 0)
Dir(name, cluster) == Slot("dir", name, cluster)

(* Slots as mkfs and a driver leave them: nothing behind the end mark, no  *)
(* name twice.                                                             *)
Sound(slots) ==
    /\ \A j, k \in DOMAIN slots : j < k /\ slots[j].kind = "end" => slots[k].kind = "end"
    /\ \A j, k \in DOMAIN slots : slots[j].name = slots[k].name /\ j # k => slots[j].name = NoName

Roots == { <<File("a"), Dir("d", 2), EndMark>>, <<Deleted, Dir("d", 2), EndMark>> }

(* What the three slots behind the dots of the directory d hold. *)
Contents ==
    {s \in {Deleted, Dir("e", 5)} \X {EndMark, Deleted, File("a")} \X {EndMark, File("b")} : Sound(s)}

Ends  == <<EndMark, EndMark>>
Junks == <<Junk, Junk>>

(* d has one cluster, or two, one behind the other or not; its directory e *)
(* has two; a cluster that belongs to neither is unused or part of a file. *)
Layout(s, second, other) ==
    [c \in ClusterIds |->
        CASE c = 2 -> <<Dot, s[1]>>
          [] c = second -> <<s[2], s[3]>>
          [] c = 5 -> <<Dot, File("b")>>
          [] c = 6 -> Ends
          [] OTHER -> other]

Fat(second) ==
    [c \in ClusterIds |-> CASE c = 2 -> second [] c = 5 -> 6 [] OTHER -> LastInFat]

AllVolumes ==
    {[root |-> r, data |-> Layout(s, second, other), next |-> Fat(second)] :
        r \in Roots, s \in Contents, second \in {LastInFat, 3, 4}, other \in {Ends, Junks}}

(* The hypothesis of the theorems in FilesProofs. *)
ASSUME VolumesSound == \A vol \in AllVolumes : SoundVolume(vol)

Path(rest) == [valid |-> TRUE, drive |-> 0, rest |-> rest]

SomePaths ==
    { Path(<<>>), Path(<<"a">>), Path(<<"d">>), Path(<<"d", SLASH, "a">>),
      Path(<<"d", SLASH, SLASH, "a">>), Path(<<"d", SLASH, "e", SLASH, "b">>),
      Path(<<"d", SLASH, "b">>), Path(<<"a", SLASH, "b">>), Path(<<"a", SLASH, "a", SLASH, "a", SLASH, "a">>),
      [valid |-> FALSE, drive |-> 0, rest |-> <<"a">>],
      [valid |-> TRUE, drive |-> 1, rest |-> <<"a">>] }
===============================================================================
