------------------------------- MODULE Fat32 -------------------------------
(***************************************************************************)
(* The FAT32 driver of hexOS, src/filesystem/fat32.c: formatting and       *)
(* mounting, write(), read() and read_directory().                         *)
(*                                                                         *)
(* One action is one durable effect: everything a call does up to and      *)
(* including its next write_clusters(). Power may fail between any two     *)
(* actions (Crash): the disk keeps its content and the driver's RAM is     *)
(* lost. The calls of the driver do not interleave with each other: the    *)
(* kernel makes them from the boot code and from system calls that run     *)
(* with interrupts disabled.                                               *)
(*                                                                         *)
(* The data of a cluster is abstracted to what the driver does with it: a  *)
(* cluster holds zeros, the boot signature, a FAT, a directory table, or   *)
(* the n-th cluster-sized part of some file's data. The driver never       *)
(* checks what it reads, so each can be read as a FAT or as a table.       *)
(* The buffers dir_table_buf and cluster_buf are filled at the start of    *)
(* every use and so are not state; the cached FAT, fat_table, is.          *)
(***************************************************************************)
EXTENDS Integers, Sequences, FiniteSets

CONSTANTS
    MapSize,      \* CLUSTER_MAP_SIZE, the number of FAT entries
    DiskSize,     \* the number of clusters of the disk, more than MapSize
    TableSize,    \* the number of entries of a directory table
    ClusterSize,  \* CLUSTER_SIZE, in blocks
    Names,        \* the names a request can carry, one of them RootName
    RootName,     \* "root", the name the root directory is given
    Exts,         \* the extensions a request can carry, one of them NoExt
    NoName,       \* the name field of an empty entry: zeros
    NoExt,        \* the extension field of an empty entry or a folder: zeros
    Noise,        \* any field of an entry decoded from bytes of something else
    Payloads,     \* the contents a written file can have
    NoData,       \* the content that comes with a request for a folder
    Sizes,        \* the values of buffer_size, in blocks, 0 for a folder
    MaxOutages    \* how often the power can fail

BootSector == 0
FatCluster == 1
RootCluster == 2

EmptyEntry == 0         \* FAT32_FAT_EMPTY_ENTRY
EndOfFile == -1         \* FAT32_FAT_END_OF_FILE, and CLUSTER_1_VALUE
Cluster0Value == -2     \* CLUSTER_0_VALUE

HalfWord == 65536       \* cluster_low and cluster_high are 16 bits wide
Subdirectory == 16      \* ATTR_SUBDIRECTORY
NotEmpty == 170         \* UATTR_NOT_EMPTY

ASSUME GeometryAssumption ==
    /\ MapSize \in Nat /\ MapSize > RootCluster /\ MapSize < HalfWord
    /\ DiskSize \in Nat /\ DiskSize > MapSize
    /\ TableSize \in Nat /\ TableSize > 0
    /\ ClusterSize \in Nat /\ ClusterSize > 0

ASSUME RequestAssumption ==
    /\ RootName \in Names /\ NoName \notin Names /\ Noise \notin Names
    /\ NoExt \in Exts /\ Noise \notin Exts
    /\ NoData \notin Payloads
    /\ Sizes \subseteq Nat
    /\ MaxOutages \in Nat

VARIABLES
    disk,         \* the clusters of the disk
    fat,          \* fat_state.fat_table in RAM
    pc,           \* where the driver is: see Control
    op,           \* the local variables of the write() in progress
    reply,        \* the result of the last call
    committed,    \* history: what write() returned success for, see Commit
    outages       \* how often the power has failed

vars == <<disk, fat, pc, op, reply, committed, outages>>

-----------------------------------------------------------------------------
(* Clusters, and what they look like as a FAT and as a directory table.    *)

Clusters == 0 .. DiskSize - 1
MapEntries == 0 .. MapSize - 1
Slots == 0 .. TableSize - 1
DataClusters == RootCluster + 1 .. MapSize - 1
FatValues == MapEntries \cup {EndOfFile, Cluster0Value}

ZeroEntry == [name |-> NoName, ext |-> NoExt, attribute |-> 0,
              user_attribute |-> 0, low |-> 0, high |-> 0, filesize |-> 0]

\* An entry decoded from text: its user_attribute is not NotEmpty.
NoiseEntry == [name |-> Noise, ext |-> Noise, attribute |-> 32,
               user_attribute |-> 32, low |-> 0, high |-> 0, filesize |-> 1]

Entries == [name : Names \cup {NoName, Noise}, ext : Exts \cup {Noise},
            attribute : {0, 32, Subdirectory},
            user_attribute : {0, 32, NotEmpty},
            low : 0 .. HalfWord - 1, high : 0 .. HalfWord - 1,
            filesize : Sizes \cup {0, 1}]

Zero == [kind |-> "zero"]
Signature == [kind |-> "signature"]
FatImage(map) == [kind |-> "fat", map |-> map]
DirImage(table) == [kind |-> "dir", table |-> table]
Text(data, part) == [kind |-> "text", data |-> data, part |-> part]

ZeroMap == [c \in MapEntries |-> EmptyEntry]

\* read_clusters() into fat_table. Only FAT images and zeros are ever read
\* there: FatAlwaysOnDisk below.
AsFat(cluster) == IF cluster.kind = "fat" THEN cluster.map ELSE ZeroMap

\* read_clusters() into a directory table.
AsTable(cluster) ==
    CASE cluster.kind = "dir" -> cluster.table
      [] cluster.kind = "zero" -> [s \in Slots |-> ZeroEntry]
      [] OTHER -> [s \in Slots |-> NoiseEntry]

-----------------------------------------------------------------------------
(* Requests. buffer_size = 0 asks for a folder, whose ext is not used.     *)

Requests ==
    {r \in [parent : Clusters, name : Names, ext : Exts, size : Sizes,
            data : Payloads \cup {NoData}] :
        (r.size = 0) <=> (r.data = NoData)}

WriteRequests == {r \in Requests : r.size = 0 => r.ext = NoExt}

\* A read's buffer is filled, not read: its content is of no interest.
ReadRequests ==
    [parent : Clusters, name : Names, ext : Exts, size : Sizes]

NoRequest == [parent |-> 0, name |-> RootName, ext |-> NoExt, size |-> 0,
              data |-> NoData]

NoOp == [req |-> NoRequest, slot |-> 0, cluster |-> 0, remaining |-> 0,
         n |-> 0, chain |-> << >>]

Reply(call, ret) == [call |-> call, ret |-> ret, from |-> 0, blocks |-> 0]

NoReply == Reply("none", 0)

-----------------------------------------------------------------------------
(* The helping functions of the driver.                                    *)

\* The least element of S: the first hit of an ascending scan.
First(S) == CHOOSE i \in S : \A j \in S : i =< j

\* The first hit of a scan that returns 0 when nothing is hit.
FirstOr0(S) == IF S = {} THEN 0 ELSE First(S)

FindEmptyCluster(map) ==
    FirstOr0({c \in 2 .. MapSize - 1 : map[c] = EmptyEntry})

\* Mutant: the scan starts at i, which the FAT still has free.
FindNextEmptyCluster_FromItself(map, i) ==
    IF i >= MapSize \/ i < 2
    THEN 0
    ELSE FirstOr0({c \in i .. MapSize - 1 : map[c] = EmptyEntry})

FindNextEmptyCluster(map, i) ==
    IF i >= MapSize \/ i < 2
    THEN 0
    ELSE FirstOr0({c \in i + 1 .. MapSize - 1 : map[c] = EmptyEntry})

FindEmptyEntry(table) ==
    FirstOr0({s \in 1 .. TableSize - 1 : table[s].user_attribute # NotEmpty})

IsDirectory(table) ==
    table[0].user_attribute = NotEmpty /\ table[0].filesize = 0

NameMatches(r, e) == e.name = r.name

FileMatches(r, e) == e.name = r.name /\ e.ext = r.ext

\* The slot of the first entry that matches; 0 is also "none matches".
IsExist(r, table) ==
    FirstOr0({s \in Slots : IF r.size = 0 THEN NameMatches(r, table[s])
                                          ELSE FileMatches(r, table[s])})

\* Mutant: the entry in the first slot is taken for "none matches".
ValidateWrite_MissesFirst(r, table) ==
    CASE r.parent < 2 \/ r.parent > MapSize \/ ~IsDirectory(table) -> 2
      [] IsExist(r, table) > 1 -> 1
      [] OTHER -> 0

ValidateWrite(r, table) ==
    CASE r.parent < 2 \/ r.parent > MapSize \/ ~IsDirectory(table) -> 2
      [] IsExist(r, table) > 0 -> 1
      [] OTHER -> 0

LowWord(c) == c % HalfWord
HighWord(c) == (c \div HalfWord) % HalfWord

\* Mutant: the halves of the cluster number are swapped, as they are in
\* init_directory_table().
WriteEntry_SwappedHalves(r, table, c, slot) ==
    LET old == table[slot]
    IN  [table EXCEPT ![slot] =
            [name |-> r.name,
             ext |-> IF r.size = 0 THEN old.ext ELSE r.ext,
             attribute |-> IF r.size = 0 THEN Subdirectory ELSE 0,
             user_attribute |-> NotEmpty,
             low |-> HighWord(c), high |-> LowWord(c),
             filesize |-> r.size]]

\* Mutant: "attribute |= ATTR_SUBDIRECTORY".
WriteEntry_KeepsAttribute(r, table, c, slot) ==
    LET old == table[slot]
    IN  [table EXCEPT ![slot] =
            [name |-> r.name,
             ext |-> IF r.size = 0 THEN old.ext ELSE r.ext,
             attribute |-> IF r.size = 0 THEN old.attribute + Subdirectory
                                         ELSE 0,
             user_attribute |-> NotEmpty,
             low |-> LowWord(c), high |-> HighWord(c),
             filesize |-> r.size]]

WriteEntry(r, table, c, slot) ==
    LET old == table[slot]
    IN  [table EXCEPT ![slot] =
            [name |-> r.name,
             ext |-> IF r.size = 0 THEN old.ext ELSE r.ext,
             attribute |-> IF r.size = 0 THEN Subdirectory ELSE 0,
             user_attribute |-> NotEmpty,
             low |-> LowWord(c), high |-> HighWord(c),
             filesize |-> r.size]]

\* Only slot 0 is set, and its two halves of the parent are the other way
\* round than those of an entry; the other slots keep what they hold.
InitDirectoryTable(table, name, parent) ==
    [table EXCEPT ![0] =
        [name |-> name, ext |-> table[0].ext, attribute |-> Subdirectory,
         user_attribute |-> NotEmpty,
         low |-> HighWord(parent), high |-> LowWord(parent),
         filesize |-> 0]]

-----------------------------------------------------------------------------
(* Control.                                                                *)
(*   "off"          the machine is off                                     *)
(*   "formatFat"    create_fat32() has written the signature               *)
(*   "formatRoot"   create_fat32() has written the FAT                     *)
(*   "idle"         the driver is mounted and no call is in progress       *)
(*   "folderTable"  write() has written the entry of a folder              *)
(*   "folderFat"    write() has written the folder's own table             *)
(*   "fileData"     write() is about to write a cluster of a file          *)
(*   "fileFat"      write() has written a cluster of a file                *)

Writing == {"folderTable", "folderFat", "fileData", "fileFat"}
Control == {"off", "formatFat", "formatRoot", "idle"} \cup Writing

Init ==
    /\ disk = [c \in Clusters |-> Zero]
    /\ fat = ZeroMap
    /\ pc = "off"
    /\ op = NoOp
    /\ reply = NoReply
    /\ committed = [a \in {} |-> NoOp]
    /\ outages = 0

\* Power goes: static data of the driver is zero at the next boot.
Crash ==
    /\ pc # "off"
    /\ outages < MaxOutages
    /\ outages' = outages + 1
    /\ pc' = "off"
    /\ fat' = ZeroMap
    /\ op' = NoOp
    /\ reply' = NoReply
    /\ UNCHANGED <<disk, committed>>

-----------------------------------------------------------------------------
(* initialize_filesystem_fat32(): mount, or format an empty storage.       *)

\* Mutant: the cluster of the root directory is not marked as used.
FormattedMap_RootFree == [ZeroMap EXCEPT ![BootSector] = Cluster0Value,
                                         ![FatCluster] = EndOfFile]

\* The FAT that create_fat32() builds in RAM, which is zero at boot.
FormattedMap == [ZeroMap EXCEPT ![BootSector] = Cluster0Value,
                                ![FatCluster] = EndOfFile,
                                ![RootCluster] = EndOfFile]

RootTable ==
    InitDirectoryTable([s \in Slots |-> ZeroEntry], RootName, RootCluster)

IsEmptyStorage == disk[BootSector] # Signature

Mount ==
    /\ pc = "off"
    /\ ~IsEmptyStorage
    /\ fat' = AsFat(disk[FatCluster])
    /\ pc' = "idle"
    /\ reply' = Reply("mount", 0)
    /\ UNCHANGED <<disk, op, committed, outages>>

FormatBoot ==
    /\ pc = "off"
    /\ IsEmptyStorage
    /\ disk' = [disk EXCEPT ![BootSector] = Signature]
    /\ fat' = FormattedMap
    /\ pc' = "formatFat"
    /\ UNCHANGED <<op, reply, committed, outages>>

FormatFat ==
    /\ pc = "formatFat"
    /\ disk' = [disk EXCEPT ![FatCluster] = FatImage(fat)]
    /\ pc' = "formatRoot"
    /\ UNCHANGED <<fat, op, reply, committed, outages>>

FormatRoot ==
    /\ pc = "formatRoot"
    /\ disk' = [disk EXCEPT ![RootCluster] = DirImage(RootTable)]
    /\ pc' = "idle"
    /\ reply' = Reply("mount", 0)
    /\ UNCHANGED <<fat, op, committed, outages>>

-----------------------------------------------------------------------------
(* write().                                                                *)

\* The call returns to its caller.
Return(ret) ==
    /\ pc' = "idle"
    /\ op' = NoOp
    /\ reply' = Reply("write", ret)

\* The directories whose content counts: the root and every folder that
\* write() returned success for. A request may name any cluster as parent,
\* a leftover of an unfinished call for one, and what is put there is not
\* stored in the file system.
SoundDirs ==
    {RootCluster} \cup
    {committed[a].chain[1] : a \in {b \in DOMAIN committed :
                                        committed[b].req.size = 0}}

\* The call returns success: the entry at <<parent, slot>> and the clusters
\* of op.chain hold the request's file or folder.
Commit ==
    committed' =
        IF op.req.parent \in SoundDirs
        THEN [a \in DOMAIN committed \cup {<<op.req.parent, op.slot>>} |->
                IF a = <<op.req.parent, op.slot>>
                THEN [req |-> op.req, chain |-> op.chain]
                ELSE committed[a]]
        ELSE committed

\* validateWrite() fails, or the disk or the parent directory is full.
RejectWrite(r) ==
    LET table == AsTable(disk[r.parent])
        val == ValidateWrite(r, table)
    IN  /\ pc = "idle"
        /\ \/ /\ val # 0
              /\ Return(val)
           \/ /\ val = 0
              /\ FindEmptyCluster(fat) = 0 \/ FindEmptyEntry(table) = 0
              /\ Return(-1)
        /\ UNCHANGED <<disk, fat, committed, outages>>

\* The entry goes to the parent directory first.
StartWrite(r) ==
    LET table == AsTable(disk[r.parent])
        c == FindEmptyCluster(fat)
        slot == FindEmptyEntry(table)
    IN  /\ pc = "idle"
        /\ ValidateWrite(r, table) = 0
        /\ c # 0 /\ slot # 0
        /\ disk' = [disk EXCEPT ![r.parent] =
                                DirImage(WriteEntry(r, table, c, slot))]
        /\ op' = [req |-> r, slot |-> slot, cluster |-> c,
                  remaining |-> r.size, n |-> 0, chain |-> <<c>>]
        /\ pc' = IF r.size = 0 THEN "folderTable" ELSE "fileData"
        /\ reply' = NoReply
        /\ UNCHANGED <<fat, committed, outages>>

WriteFolderTable ==
    /\ pc = "folderTable"
    /\ disk' = [disk EXCEPT ![op.cluster] =
                    DirImage(InitDirectoryTable(AsTable(disk[op.cluster]),
                                                op.req.name, op.req.parent))]
    /\ pc' = "folderFat"
    /\ UNCHANGED <<fat, op, reply, committed, outages>>

\* Mutant: the FAT is not written back.
WriteFolderFat_InRamOnly ==
    LET map == [fat EXCEPT ![op.cluster] = EndOfFile]
    IN  /\ pc = "folderFat"
        /\ fat' = map
        /\ Commit
        /\ Return(0)
        /\ UNCHANGED <<disk, outages>>

\* The FAT is written from RAM.
WriteFolderFat ==
    LET map == [fat EXCEPT ![op.cluster] = EndOfFile]
    IN  /\ pc = "folderFat"
        /\ fat' = map
        /\ disk' = [disk EXCEPT ![FatCluster] = FatImage(map)]
        /\ Commit
        /\ Return(0)
        /\ UNCHANGED outages

WriteFileData ==
    /\ pc = "fileData"
    /\ disk' = [disk EXCEPT ![op.cluster] = Text(op.req.data, op.n)]
    /\ pc' = "fileFat"
    /\ UNCHANGED <<fat, op, reply, committed, outages>>

\* Mutant: a file that fills its last cluster gets one more.
IsLastCluster_Strict == op.remaining < ClusterSize

\* What is left of the file fits in the cluster just written.
IsLastCluster == op.remaining =< ClusterSize

\* Mutant: the last cluster is not marked as used.
WriteLastLink_Unmarked ==
    LET map == AsFat(disk[FatCluster])
    IN  /\ pc = "fileFat"
        /\ IsLastCluster
        /\ fat' = map
        /\ disk' = [disk EXCEPT ![FatCluster] = FatImage(map)]
        /\ Commit
        /\ Return(0)
        /\ UNCHANGED outages

\* The FAT is read back from the disk before it is changed.
WriteLastLink ==
    LET map == [AsFat(disk[FatCluster]) EXCEPT ![op.cluster] = EndOfFile]
    IN  /\ pc = "fileFat"
        /\ IsLastCluster
        /\ fat' = map
        /\ disk' = [disk EXCEPT ![FatCluster] = FatImage(map)]
        /\ Commit
        /\ Return(0)
        /\ UNCHANGED outages

WriteNextLink ==
    LET map == AsFat(disk[FatCluster])
        next == FindNextEmptyCluster(map, op.cluster)
        linked == [map EXCEPT ![op.cluster] = next]
    IN  /\ pc = "fileFat"
        /\ ~IsLastCluster
        /\ next # 0
        /\ fat' = linked
        /\ disk' = [disk EXCEPT ![FatCluster] = FatImage(linked)]
        /\ op' = [req |-> op.req, slot |-> op.slot, cluster |-> next,
                  remaining |-> op.remaining - ClusterSize, n |-> op.n + 1,
                  chain |-> Append(op.chain, next)]
        /\ pc' = "fileData"
        /\ UNCHANGED <<reply, committed, outages>>

\* Mutant: the call tries again instead of giving up.
WriteNoSpace_TriesAgain ==
    LET map == AsFat(disk[FatCluster])
    IN  /\ pc = "fileFat"
        /\ ~IsLastCluster
        /\ FindNextEmptyCluster(map, op.cluster) = 0
        /\ fat' = map
        /\ pc' = "fileData"
        /\ UNCHANGED <<disk, op, reply, committed, outages>>

\* The disk is full in the middle of a file: the call gives up and leaves
\* the entry, the data and the links it has written as they are.
WriteNoSpace ==
    LET map == AsFat(disk[FatCluster])
    IN  /\ pc = "fileFat"
        /\ ~IsLastCluster
        /\ FindNextEmptyCluster(map, op.cluster) = 0
        /\ fat' = map
        /\ Return(-1)
        /\ UNCHANGED <<disk, committed, outages>>

-----------------------------------------------------------------------------
(* read() and read_directory(). Both look an entry up, the second by name  *)
(* alone, and copy from the entry's first cluster: read() one block,       *)
(* read_directory() the entry's filesize. Neither looks at the attribute.  *)

Answer(call, r, hits) ==
    LET table == AsTable(disk[r.parent])
        e == table[First(hits)]
    IN  CASE r.parent < 2 \/ r.parent > MapSize \/ ~IsDirectory(table) ->
                Reply(call, -1)
          [] hits = {} -> Reply(call, 3)
          [] r.size < e.filesize -> Reply(call, 2)
          [] OTHER -> [call |-> call, ret |-> 0, from |-> e.low,
                       blocks |-> IF call = "read" THEN 1 ELSE e.filesize]

\* Mutant: the extension is not compared.
ReadReply_ByName(r) ==
    Answer("read", r,
           {s \in Slots : NameMatches(r, AsTable(disk[r.parent])[s])})

ReadReply(r) ==
    Answer("read", r,
           {s \in Slots : FileMatches(r, AsTable(disk[r.parent])[s])})

ReadDirectoryReply(r) ==
    Answer("read_directory", r,
           {s \in Slots : NameMatches(r, AsTable(disk[r.parent])[s])})

Read(r) ==
    /\ pc = "idle"
    /\ reply' = ReadReply(r)
    /\ UNCHANGED <<disk, fat, pc, op, committed, outages>>

ReadDirectory(r) ==
    /\ pc = "idle"
    /\ reply' = ReadDirectoryReply(r)
    /\ UNCHANGED <<disk, fat, pc, op, committed, outages>>

-----------------------------------------------------------------------------

\* The driver's own steps: what the processor does once a call is made.
WriteStep ==
    \/ WriteFolderTable
    \/ WriteFolderFat
    \/ WriteFileData
    \/ WriteLastLink
    \/ WriteNextLink
    \/ WriteNoSpace

FormatStep == FormatFat \/ FormatRoot

Next ==
    \/ Mount
    \/ FormatBoot
    \/ FormatStep
    \/ WriteStep
    \/ \E r \in WriteRequests : StartWrite(r) \/ RejectWrite(r)
    \/ \E r \in ReadRequests : Read(r) \/ ReadDirectory(r)
    \/ Crash

\* A call that has begun goes on: nothing preempts the driver. Calls need
\* not be made, and power need not fail or come back.
Spec == Init /\ [][Next]_vars /\ WF_vars(WriteStep) /\ WF_vars(FormatStep)


-----------------------------------------------------------------------------
(* Properties.                                                             *)

DiskMap == AsFat(disk[FatCluster])

ClusterContents ==
    {Zero, Signature}
    \cup [kind : {"fat"}, map : [MapEntries -> FatValues]]
    \cup [kind : {"dir"}, table : [Slots -> Entries]]
    \cup [kind : {"text"}, data : Payloads, part : Nat]

Ops == [req : WriteRequests, slot : Slots, cluster : MapEntries,
        remaining : Int, n : Nat, chain : Seq(DataClusters)]

Replies == [call : {"none", "mount", "write", "read", "read_directory",
                    "delete"},    \* in Fat32Delete
            ret : {-1, 0, 1, 2, 3}, from : 0 .. HalfWord - 1,
            blocks : Sizes \cup {0, 1}]

Addresses == Clusters \X Slots

\* Every variable has the shape its users rely on.
TypeOK ==
    /\ disk \in [Clusters -> ClusterContents]
    /\ fat \in [MapEntries -> FatValues]
    /\ pc \in Control
    /\ op = NoOp \/ op \in Ops
    /\ (pc \in Writing) <=> (op # NoOp)
    /\ reply \in Replies
    /\ DOMAIN committed \subseteq Addresses
    /\ outages \in 0 .. MaxOutages
    /\ \A a \in DOMAIN committed :
            committed[a] \in [req : WriteRequests, chain : Seq(DataClusters)]

\* Once the volume is mounted the FAT in RAM is the FAT on disk: write()
\* allocates its first cluster from RAM and the next ones from the disk,
\* and would give one cluster out twice if the two could differ.
CacheCoherent == pc \notin {"off", "formatFat"} => fat = DiskMap

\* Formatting comes first: nothing is in the root or the data clusters unless the boot
\* signature, the reserved FAT entries and the root directory are in place,
\* and no later call allocates or overwrites these, even on a volume whose
\* formatting a power failure has cut off and that is mounted all the same.
ReservedKept ==
    /\ disk[BootSector] \in {Zero, Signature}
    /\ disk[FatCluster].kind \in {"zero", "fat"}
    /\ \A c \in {BootSector, FatCluster, RootCluster} :
            disk[FatCluster] # Zero => DiskMap[c] = FormattedMap[c]
    /\ (\E c \in Clusters : c >= RootCluster /\ disk[c] # Zero) =>
            /\ disk[BootSector] = Signature
            /\ disk[FatCluster] # Zero
            /\ AsTable(disk[RootCluster])[0] = RootTable[0]

\* No cluster belongs to two files or folders, nor twice to one, and the
\* write() in progress uses none that belongs to one.
ChainsDisjoint ==
    /\ \A a, b \in DOMAIN committed :
          \A i \in 1 .. Len(committed[a].chain),
             j \in 1 .. Len(committed[b].chain) :
             committed[a].chain[i] = committed[b].chain[j] => a = b /\ i = j
    /\ \A a \in DOMAIN committed :
          \A i \in 1 .. Len(committed[a].chain), j \in 1 .. Len(op.chain) :
             committed[a].chain[i] # op.chain[j]

EntryAt(a) == AsTable(disk[a[1]])[a[2]]

\* What is stored at address a is on the disk as it was written: its entry,
\* the links of its clusters in the FAT, and every cluster of its data (of a
\* folder: its own entry).
Intact(a) ==
    LET r == committed[a].req
        chain == committed[a].chain
        e == EntryAt(a)
    IN  /\ e.user_attribute = NotEmpty
        /\ e.name = r.name /\ e.low = chain[1] /\ e.filesize = r.size
        /\ \A i \in 1 .. Len(chain) :
              DiskMap[chain[i]] = IF i = Len(chain) THEN EndOfFile
                                                    ELSE chain[i + 1]
        /\ r.size = 0 =>
              /\ e.attribute = Subdirectory
              /\ Len(chain) = 1
              /\ IsDirectory(AsTable(disk[chain[1]]))
              /\ AsTable(disk[chain[1]])[0].name = r.name
        /\ r.size # 0 =>
              /\ e.attribute = 0
              /\ e.ext = r.ext
              /\ (Len(chain) - 1) * ClusterSize < r.size
              /\ r.size =< Len(chain) * ClusterSize
              /\ \A i \in 1 .. Len(chain) :
                    disk[chain[i]] = Text(r.data, i - 1)

\* What write() has returned success for stays on the disk, whatever the
\* calls after it, failed ones included, and after power failures at any
\* point of them.
CommittedIntact == \A a \in DOMAIN committed : Intact(a)

\* The request is for what the directory itself is called in its slot 0,
\* which every lookup meets first.
NamesOwnDirectory(r) ==
    LET self == AsTable(disk[r.parent])[0]
    IN  IF r.size = 0 THEN NameMatches(r, self) ELSE FileMatches(r, self)

\* read() of a file that was written returns success and that file's data,
\* whatever else the directory holds: leftovers of failed calls, a folder of
\* that name, files of that name with another extension.
Readable ==
    \A a \in DOMAIN committed :
        LET r == committed[a].req
            answer == ReadReply([parent |-> r.parent, name |-> r.name,
                                 ext |-> r.ext, size |-> r.size])
        IN  r.size # 0 /\ ~NamesOwnDirectory(r) =>
                answer.ret = 0 /\ disk[answer.from] = Text(r.data, 0)

SameName(r, q) ==
    /\ r.parent = q.parent /\ r.name = q.name /\ r.ext = q.ext
    /\ r.size = 0 <=> q.size = 0

\* No directory holds two files of one name and extension or two folders
\* of one name, but for the name of the directory itself.
NamesUnique ==
    \A a, b \in DOMAIN committed :
        LET r == committed[a].req
            q == committed[b].req
        IN  SameName(r, q) /\ ~NamesOwnDirectory(r) => a = b

\* A step that is not part of formatting changes a cluster only if the FAT
\* has it free or it is a directory that gains one entry in a slot that was
\* empty, and changes a FAT entry only if it was free.
FreeSpaceStep ==
    pc \in {"idle"} \cup Writing =>
        /\ \A c \in Clusters : c > FatCluster /\ disk'[c] # disk[c] =>
              \/ c \in MapEntries /\ DiskMap[c] = EmptyEntry
              \/ \E s \in 1 .. TableSize - 1 :
                    LET old == AsTable(disk[c])
                    IN  /\ IsDirectory(old)
                        /\ old[s].user_attribute # NotEmpty
                        /\ AsTable(disk'[c]) =
                              [old EXCEPT ![s] = AsTable(disk'[c])[s]]
        /\ \A c \in MapEntries : DiskMap'[c] # DiskMap[c] =>
              DiskMap[c] = EmptyEntry

OnlyFreeSpaceChanges == [][FreeSpaceStep]_vars

\* A write() that has begun returns, unless power fails. In particular one
\* that finds the disk full gives up.
CallsReturn == pc \in Writing ~> pc \in {"idle", "off"}

-----------------------------------------------------------------------------
(* What the driver implements: FileStore, with the stored items read off   *)
(* the disk the way the layout says, from the entry along the FAT.         *)

\* The clusters from c along the links of map, to the end of the chain.
Chain(map, c) ==
    LET hop[i \in 0 .. MapSize] ==
            IF i = 0 THEN c
            ELSE IF hop[i - 1] \in MapEntries THEN map[hop[i - 1]]
                                              ELSE EndOfFile
        len == First({i \in 1 .. MapSize : hop[i] \notin MapEntries})
    IN  [i \in 1 .. len |-> hop[i - 1]]

Folder(name) == [kind |-> "folder", name |-> name]

RequestItem(r) ==
    [name |-> r.name, ext |-> r.ext, size |-> r.size,
     content |->
        IF r.size = 0
        THEN <<Folder(r.name)>>
        ELSE [i \in 1 .. (r.size + ClusterSize - 1) \div ClusterSize |->
                Text(r.data, i - 1)]]

StoredItem(a) ==
    LET e == EntryAt(a)
        chain == Chain(DiskMap, e.low)
        table == AsTable(disk[e.low])
    IN  [name |-> e.name,
         ext |-> IF e.attribute = Subdirectory THEN NoExt ELSE e.ext,
         size |-> e.filesize,
         content |->
            IF e.attribute = Subdirectory
            THEN <<IF IsDirectory(table) THEN Folder(table[0].name) ELSE Zero>>
            ELSE [i \in DOMAIN chain |-> disk[chain[i]]]]

\* Like an entry that is not in use; no request has this name.
NoItem == [name |-> NoName, ext |-> NoExt, size |-> 0, content |-> << >>]

StoredItems == [a \in DOMAIN committed |-> StoredItem(a)]

PendingItem == IF pc \in Writing /\ op.req.parent \in SoundDirs
               THEN RequestItem(op.req) ELSE NoItem

Store == INSTANCE FileStore WITH
    Handles <- Addresses,
    Items <- {RequestItem(r) : r \in WriteRequests},
    None <- NoItem,
    store <- StoredItems,
    pending <- PendingItem

\* The driver keeps the promise of FileStore: a write takes effect as a whole
\* at its last FAT update or not at all, and nothing stored ever changes.
ImplementsFileStore == Store!Spec

=============================================================================
