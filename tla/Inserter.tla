------------------------------ MODULE Inserter ------------------------------
(***************************************************************************)
(* The inserter, external-inserter.c: a program of the host, linked with   *)
(* the driver of Fat32, that puts one file or folder into the image of the *)
(* disk. It reads the image into memory, where the driver's read_blocks()  *)
(* and write_blocks() work on it, makes one write(), and writes the image  *)
(* back: fopen() with "w" empties the file first.                          *)
(*                                                                         *)
(* The program may be killed at any point, MaxOutages times. Then memory   *)
(* goes; killed while it writes the image back, it leaves the first part   *)
(* of it only, and the next run finds zeros for the rest: fread() leaves   *)
(* the fresh pages of malloc() alone.                                      *)
(***************************************************************************)
EXTENDS Fat32

VARIABLES
    image,   \* the image file: its clusters, from the first on
    run,     \* "none", "insert" before the write() of a run, "called" after
    saved    \* history: what runs reported as inserted and wrote back

inserterVars == <<vars, image, run, saved>>

Nothing == [a \in {} |-> NoOp]

Prefix(clusters, n) == [c \in 0 .. n - 1 |-> clusters[c]]

\* image_storage after the fread() of the image.
Loaded == [c \in Clusters |-> IF c \in DOMAIN image THEN image[c] ELSE Zero]

\* The name is argv[1], the extension zeros; a file that cannot be opened has
\* size 0, and the request is for a folder.
InsertRequests == {r \in WriteRequests : r.ext = NoExt}

\* The Makefile starts with an image of zeros.
InserterInit ==
    /\ Init
    /\ image = [c \in Clusters |-> Zero]
    /\ run = "none"
    /\ saved = Nothing

Load ==
    /\ run = "none"
    /\ run' = "insert"
    /\ disk' = Loaded
    /\ committed' = saved
    /\ UNCHANGED <<fat, pc, op, reply, outages, image, saved>>

Initialize ==
    /\ run = "insert"
    /\ Mount \/ FormatBoot \/ FormatStep
    /\ UNCHANGED <<image, run, saved>>

Insert(r) ==
    /\ run = "insert"
    /\ StartWrite(r) \/ RejectWrite(r)
    /\ run' = "called"
    /\ UNCHANGED <<image, saved>>

Continue ==
    /\ run = "called"
    /\ WriteStep
    /\ UNCHANGED <<image, run, saved>>

\* The program ends: its memory goes.
Exit ==
    /\ run' = "none"
    /\ disk' = [c \in Clusters |-> Zero]
    /\ fat' = ZeroMap
    /\ pc' = "off"
    /\ op' = NoOp
    /\ reply' = NoReply
    /\ committed' = Nothing

\* Mutant: fwrite() of what the FAT can allocate, but for the last cluster.
Save_Short ==
    /\ run = "called" /\ pc = "idle"
    /\ image' = Prefix(disk, MapSize - 1)
    /\ saved' = committed
    /\ Exit
    /\ UNCHANGED outages

\* The image is written back whatever write() returned.
Save ==
    /\ run = "called" /\ pc = "idle"
    /\ image' = disk
    /\ saved' = committed
    /\ Exit
    /\ UNCHANGED outages

Killed ==
    /\ run # "none"
    /\ outages < MaxOutages
    /\ outages' = outages + 1
    /\ Exit

\* The image file is as before the run, and lacks what the run may already
\* have reported as inserted.
Kill == Killed /\ UNCHANGED <<image, saved>>

\* What lies in the first n clusters of the disk, its directory included.
WholeIn(n) ==
    {a \in DOMAIN committed :
        /\ a[1] < n
        /\ \A i \in DOMAIN committed[a].chain : committed[a].chain[i] < n}

\* What can still be reached there: the folder above it is there too.
StoredIn(n) ==
    UNION {S \in SUBSET WholeIn(n) :
        \A a \in S :
            \/ a[1] = RootCluster
            \/ \E b \in S : /\ committed[b].req.size = 0
                            /\ committed[b].chain[1] = a[1]}

\* fopen() has emptied the file and fwrite() is cut off: what this run and
\* earlier ones inserted beyond the part written is lost, and that only.
KillWhileSaving ==
    /\ run = "called" /\ pc = "idle"
    /\ \E n \in 0 .. DiskSize - 1 :
          /\ image' = Prefix(disk, n)
          /\ saved' = [a \in StoredIn(n) |-> committed[a]]
    /\ Killed

InserterNext ==
    \/ Load \/ Initialize \/ Continue \/ Save \/ Kill \/ KillWhileSaving
    \/ \E r \in InsertRequests : Insert(r)

InserterSpec == InserterInit /\ [][InserterNext]_inserterVars

-----------------------------------------------------------------------------
(* Properties.                                                             *)

Image == INSTANCE Fat32 WITH disk <- Loaded, committed <- saved

\* What runs reported as inserted and wrote back is in the image as it was
\* inserted, whatever later runs insert, fail to insert or are killed at. A
\* run killed while it writes the image back takes away what lies beyond the
\* part it wrote; what lies in that part stays readable, under what the next
\* runs put on top of it.
KeepsSaved == Image!CommittedIntact

=============================================================================
