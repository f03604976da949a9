---------------------------- MODULE Fat32Proofs ----------------------------
(***************************************************************************)
(* Proofs about Fat32, for every geometry, every set of requests and any   *)
(* number of power failures.                                               *)
(***************************************************************************)
EXTENDS Fat32, WellFoundedInduction, TLAPS

-----------------------------------------------------------------------------
(* The scans of the driver.                                                *)

\* A scan that hits something finds the first hit.
LEMMA FirstHit ==
    ASSUME NEW S, S \subseteq Nat, S # {}
    PROVE  First(S) \in S /\ \A j \in S : First(S) =< j
<1>1. PICK m \in S : \A y \in S : ~ (<<y, m>> \in OpToRel(<, Nat))
  BY WFMin, NatLessThanWellFounded
<1>2. \A y \in S : ~ (y < m)
  BY <1>1, Zenon DEF OpToRel
<1>3. \A y \in S : m =< y
  BY <1>2
<1>4. QED
  BY <1>3 DEF First

\* findEmptyCluster() returns 0 or a cluster that the FAT has free.
LEMMA FindEmptyClusterResult ==
    ASSUME NEW map, FindEmptyCluster(map) # 0
    PROVE  /\ FindEmptyCluster(map) \in 2 .. MapSize - 1
           /\ map[FindEmptyCluster(map)] = EmptyEntry
<1> DEFINE S == {c \in 2 .. MapSize - 1 : map[c] = EmptyEntry}
<1>1. S \subseteq Nat
  BY GeometryAssumption
<1>2. FindEmptyCluster(map) = FirstOr0(S)
  BY DEF FindEmptyCluster
<1>3. S # {}
  BY <1>2 DEF FirstOr0
<1>4. First(S) \in S
  BY <1>1, <1>3, FirstHit
<1>5. QED
  BY <1>2, <1>3, <1>4 DEF FirstOr0

\* findNextEmptyCluster() returns 0 or a free cluster after the given one.
LEMMA FindNextEmptyClusterResult ==
    ASSUME NEW map, NEW i \in 2 .. MapSize - 1, FindNextEmptyCluster(map, i) # 0
    PROVE  /\ FindNextEmptyCluster(map, i) \in i + 1 .. MapSize - 1
           /\ map[FindNextEmptyCluster(map, i)] = EmptyEntry
<1> DEFINE S == {c \in i + 1 .. MapSize - 1 : map[c] = EmptyEntry}
<1>1. S \subseteq Nat
  BY GeometryAssumption
<1>2. FindNextEmptyCluster(map, i) = FirstOr0(S)
  BY GeometryAssumption DEF FindNextEmptyCluster
<1>3. S # {}
  BY <1>2 DEF FirstOr0
<1>4. First(S) \in S
  BY <1>1, <1>3, FirstHit
<1>5. QED
  BY <1>2, <1>3, <1>4 DEF FirstOr0

\* findEmptyEntry() returns 0 or a slot after slot 0 that is not in use.
LEMMA FindEmptyEntryResult ==
    ASSUME NEW table, FindEmptyEntry(table) # 0
    PROVE  /\ FindEmptyEntry(table) \in 1 .. TableSize - 1
           /\ table[FindEmptyEntry(table)].user_attribute # NotEmpty
<1> DEFINE S == {s \in 1 .. TableSize - 1 :
                    table[s].user_attribute # NotEmpty}
<1>1. S \subseteq Nat
  BY GeometryAssumption
<1>2. FindEmptyEntry(table) = FirstOr0(S)
  BY DEF FindEmptyEntry
<1>3. S # {}
  BY <1>2 DEF FirstOr0
<1>4. First(S) \in S
  BY <1>1, <1>3, FirstHit
<1>5. QED
  BY <1>2, <1>3, <1>4 DEF FirstOr0

-----------------------------------------------------------------------------
(* Clusters read as a FAT and as a directory table.                        *)

LEMMA ZeroSlot == 0 \in Slots /\ 1 .. TableSize - 1 \subseteq Slots
  BY GeometryAssumption DEF Slots

LEMMA AsFatType ==
    ASSUME NEW x \in ClusterContents
    PROVE  AsFat(x) \in [MapEntries -> FatValues]
<1>1. ZeroMap \in [MapEntries -> FatValues]
  BY GeometryAssumption DEF ZeroMap, FatValues, MapEntries, EmptyEntry
<1>2. CASE x.kind = "fat"
  <2>1. x \in [kind : {"fat"}, map : [MapEntries -> FatValues]]
    BY <1>2 DEF ClusterContents, Zero, Signature
  <2>2. QED
    BY <1>2, <2>1 DEF AsFat
<1>3. CASE x.kind # "fat"
  BY <1>1, <1>3 DEF AsFat
<1>4. QED
  BY <1>2, <1>3

LEMMA ZeroEntryType == ZeroEntry \in Entries
  BY RequestAssumption DEF ZeroEntry, Entries, HalfWord

LEMMA NoiseEntryType == NoiseEntry \in Entries
  BY RequestAssumption DEF NoiseEntry, Entries, HalfWord

LEMMA AsTableType ==
    ASSUME NEW x \in ClusterContents
    PROVE  AsTable(x) \in [Slots -> Entries]
<1>1. CASE x.kind = "dir"
  <2>1. x \in [kind : {"dir"}, table : [Slots -> Entries]]
    BY <1>1 DEF ClusterContents, Zero, Signature
  <2>2. QED
    BY <1>1, <2>1 DEF AsTable
<1>2. CASE x.kind # "dir"
  BY <1>2, ZeroEntryType, NoiseEntryType DEF AsTable
<1>3. QED
  BY <1>1, <1>2

\* Only a directory table looks like a directory.
LEMMA LooksLikeDirectory ==
    ASSUME NEW x, NEW s \in Slots,
           AsTable(x)[s].user_attribute = NotEmpty \/ IsDirectory(AsTable(x))
    PROVE  x.kind = "dir"
<1>1. CASE x.kind = "zero"
  BY <1>1, ZeroSlot DEF AsTable, IsDirectory, ZeroEntry, NotEmpty
<1>2. CASE x.kind \notin {"zero", "dir"}
  BY <1>2, ZeroSlot DEF AsTable, IsDirectory, NoiseEntry, NotEmpty
<1>3. QED
  BY <1>1, <1>2

LEMMA AsTableOfDir == \A t : AsTable(DirImage(t)) = t
  BY DEF AsTable, DirImage

LEMMA AsFatOfImage == \A m : AsFat(FatImage(m)) = m
  BY DEF AsFat, FatImage

-----------------------------------------------------------------------------
(* What write() puts into a directory table.                               *)

LEMMA Remainder ==
    ASSUME NEW c \in Int, NEW h \in Nat, h > 0
    PROVE  c % h \in 0 .. h - 1 /\ c \div h \in Int
  OBVIOUS

LEMMA SmallRemainder ==
    ASSUME NEW c \in Int, NEW h \in Nat, 0 =< c, c < h
    PROVE  c % h = c /\ c \div h = 0
  OBVIOUS

\* The two halves of a cluster number are 16 bits wide, and the number of a
\* cluster that the FAT covers is all in the low half.
LEMMA Halves ==
    ASSUME NEW c \in Clusters
    PROVE  /\ LowWord(c) \in 0 .. HalfWord - 1
           /\ HighWord(c) \in 0 .. HalfWord - 1
           /\ c \in MapEntries => LowWord(c) = c /\ HighWord(c) = 0
<1>1. c \in Int /\ HalfWord \in Nat /\ HalfWord > 0
  BY DEF Clusters, HalfWord
<1>2. LowWord(c) \in 0 .. HalfWord - 1
  BY <1>1, Remainder DEF LowWord
<1>3. HighWord(c) \in 0 .. HalfWord - 1
  BY <1>1, Remainder DEF HighWord
<1>4. ASSUME c \in MapEntries PROVE LowWord(c) = c /\ HighWord(c) = 0
  <2>1. 0 =< c /\ c < HalfWord
    BY <1>1, <1>4, GeometryAssumption DEF MapEntries
  <2>2. c % HalfWord = c /\ c \div HalfWord = 0
    BY <1>1, <2>1, SmallRemainder
  <2>3. 0 % HalfWord = 0
    BY <1>1, SmallRemainder
  <2>4. QED
    BY <2>2, <2>3 DEF LowWord, HighWord
<1>5. QED
  BY <1>2, <1>3, <1>4

LEMMA MapEntriesAreClusters == MapEntries \subseteq Clusters
  BY GeometryAssumption DEF MapEntries, Clusters

LEMMA DataClustersAreClusters ==
    \A c \in DataClusters :
        c \in MapEntries /\ c \in Clusters /\ c >= RootCluster
  BY GeometryAssumption DEF DataClusters, MapEntries, Clusters, RootCluster

\* table holds the entry of request r, which starts at cluster c.
EntryHolds(table, slot, r, c) ==
    /\ table[slot].user_attribute = NotEmpty
    /\ table[slot].name = r.name
    /\ table[slot].low = c /\ table[slot].high = 0
    /\ table[slot].filesize = r.size
    /\ r.size = 0 => table[slot].attribute = Subdirectory
    /\ r.size # 0 => table[slot].attribute = 0 /\ table[slot].ext = r.ext

IsFolderNamed(table, name) == IsDirectory(table) /\ table[0].name = name

LEMMA WriteRequestType ==
    ASSUME NEW r \in WriteRequests
    PROVE  /\ r.parent \in Clusters /\ r.name \in Names /\ r.ext \in Exts
           /\ r.size \in Sizes /\ r.size \in Nat
           /\ r.size # 0 => r.data \in Payloads
  BY RequestAssumption DEF WriteRequests, Requests

LEMMA WriteEntryResult ==
    ASSUME NEW t \in [Slots -> Entries], NEW r \in WriteRequests,
           NEW c \in MapEntries, NEW slot \in 1 .. TableSize - 1
    PROVE  /\ WriteEntry(r, t, c, slot) \in [Slots -> Entries]
           /\ WriteEntry(r, t, c, slot) =
                [t EXCEPT ![slot] = WriteEntry(r, t, c, slot)[slot]]
           /\ WriteEntry(r, t, c, slot)[0] = t[0]
           /\ EntryHolds(WriteEntry(r, t, c, slot), slot, r, c)
<1> DEFINE e == [name |-> r.name,
                 ext |-> IF r.size = 0 THEN t[slot].ext ELSE r.ext,
                 attribute |-> IF r.size = 0 THEN Subdirectory ELSE 0,
                 user_attribute |-> NotEmpty,
                 low |-> c, high |-> HighWord(c), filesize |-> r.size]
<1>1. WriteEntry(r, t, c, slot) = [t EXCEPT ![slot] = e]
  BY Halves, MapEntriesAreClusters DEF WriteEntry
<1>2. slot \in Slots /\ 0 \in Slots /\ slot # 0
  BY ZeroSlot
<1>4. t[slot].ext \in Exts \cup {Noise}
  BY <1>2 DEF Entries
<1>6. e \in Entries
  <2>1. c \in 0 .. HalfWord - 1 /\ HighWord(c) \in 0 .. HalfWord - 1
    BY Halves, MapEntriesAreClusters
  <2>2. QED
    BY <1>4, <2>1, WriteRequestType DEF Entries, NotEmpty, Subdirectory
<1> HIDE DEF e
<1>7. [t EXCEPT ![slot] = e][slot] = e
  BY <1>2
<1>8. [t EXCEPT ![slot] = e][0] = t[0]
  BY <1>2
<1>9. EntryHolds([t EXCEPT ![slot] = e], slot, r, c)
  BY <1>7, Halves, MapEntriesAreClusters DEF EntryHolds, e
<1>10. QED
  BY <1>1, <1>2, <1>6, <1>7, <1>8, <1>9

LEMMA InitDirectoryTableResult ==
    ASSUME NEW t \in [Slots -> Entries], NEW name \in Names,
           NEW parent \in Clusters
    PROVE  /\ InitDirectoryTable(t, name, parent) \in [Slots -> Entries]
           /\ IsFolderNamed(InitDirectoryTable(t, name, parent), name)
<1> DEFINE e == [name |-> name, ext |-> t[0].ext, attribute |-> Subdirectory,
                 user_attribute |-> NotEmpty,
                 low |-> HighWord(parent), high |-> LowWord(parent),
                 filesize |-> 0]
<1>1. InitDirectoryTable(t, name, parent) = [t EXCEPT ![0] = e]
  BY DEF InitDirectoryTable
<1>2. /\ LowWord(parent) \in 0 .. HalfWord - 1
      /\ HighWord(parent) \in 0 .. HalfWord - 1
  BY Halves
<1>3. t[0].ext \in Exts \cup {Noise}
  BY ZeroSlot DEF Entries
<1>4. e \in Entries
  BY <1>2, <1>3 DEF Entries, NotEmpty, Subdirectory
<1>5. IsFolderNamed([t EXCEPT ![0] = e], name)
  BY ZeroSlot DEF IsFolderNamed, IsDirectory
<1>6. QED
  BY <1>1, <1>4, <1>5

LEMMA ContentsTypes ==
    /\ Zero \in ClusterContents
    /\ Signature \in ClusterContents
    /\ \A m \in [MapEntries -> FatValues] : FatImage(m) \in ClusterContents
    /\ \A t \in [Slots -> Entries] : DirImage(t) \in ClusterContents
    /\ \A p \in Payloads, n \in Nat : Text(p, n) \in ClusterContents
<1>1. Zero \in ClusterContents /\ Signature \in ClusterContents
  BY DEF ClusterContents
<1>2. ASSUME NEW m \in [MapEntries -> FatValues]
      PROVE  FatImage(m) \in ClusterContents
  BY DEF ClusterContents, FatImage
<1>3. ASSUME NEW t \in [Slots -> Entries]
      PROVE  DirImage(t) \in ClusterContents
  BY DEF ClusterContents, DirImage
<1>4. ASSUME NEW p \in Payloads, NEW n \in Nat
      PROVE  Text(p, n) \in ClusterContents
  BY DEF ClusterContents, Text
<1>5. QED
  BY <1>1, <1>2, <1>3, <1>4

-----------------------------------------------------------------------------
(* The frame: what a step that respects used clusters leaves in place.     *)

Used(d, c) == c \in MapEntries /\ c >= RootCluster
              /\ AsFat(d[FatCluster])[c] # EmptyEntry

\* From x to y the cluster stays as it is, or it is a directory and gains an
\* entry in one slot that was not in use.
KeepsCluster(x, y) ==
    \/ x = y
    \/ /\ IsDirectory(AsTable(x))
       /\ \E s \in 1 .. TableSize - 1 :
            /\ AsTable(x)[s].user_attribute # NotEmpty
            /\ AsTable(y) = [AsTable(x) EXCEPT ![s] = AsTable(y)[s]]

\* From disk d to disk e only free space changes: see FreeSpaceStep.
KeepsUsed(d, e) ==
    /\ \A c \in Clusters : c > FatCluster =>
            \/ c \in MapEntries /\ AsFat(d[FatCluster])[c] = EmptyEntry
            \/ KeepsCluster(d[c], e[c])
    /\ \A c \in MapEntries : AsFat(d[FatCluster])[c] # EmptyEntry =>
            AsFat(e[FatCluster])[c] = AsFat(d[FatCluster])[c]

LEMMA UsedIsKept ==
    ASSUME NEW d, NEW e, KeepsUsed(d, e), NEW c, Used(d, c)
    PROVE  /\ AsFat(e[FatCluster])[c] = AsFat(d[FatCluster])[c]
           /\ KeepsCluster(d[c], e[c])
           /\ c \in MapEntries /\ c \in Clusters
<1>1. c \in MapEntries /\ c \in Clusters /\ c > FatCluster
  BY GeometryAssumption
  DEF Used, MapEntries, Clusters, RootCluster, FatCluster
<1>2. QED
  BY <1>1 DEF KeepsUsed, Used

LEMMA KeptCluster ==
    ASSUME NEW x \in ClusterContents, NEW y, KeepsCluster(x, y)
    PROVE  /\ x.kind = "text" => y = x
           /\ AsTable(y)[0] = AsTable(x)[0]
           /\ IsDirectory(AsTable(x)) => IsDirectory(AsTable(y))
           /\ \A s \in Slots : AsTable(x)[s].user_attribute = NotEmpty =>
                    AsTable(y)[s] = AsTable(x)[s]
<1>1. CASE x = y
  BY <1>1
<1>2. CASE x # y
  <2>1. PICK s \in 1 .. TableSize - 1 :
            /\ AsTable(x)[s].user_attribute # NotEmpty
            /\ AsTable(y) = [AsTable(x) EXCEPT ![s] = AsTable(y)[s]]
    BY <1>2 DEF KeepsCluster
  <2>2. IsDirectory(AsTable(x))
    BY <1>2 DEF KeepsCluster
  <2>3. x.kind = "dir"
    BY <2>2, ZeroSlot, LooksLikeDirectory
  <2>4. AsTable(x) \in [Slots -> Entries] /\ s # 0
    BY AsTableType
  <2>5. \A t \in Slots : t # s => AsTable(y)[t] = AsTable(x)[t]
    BY <2>1, <2>4
  <2>6. AsTable(y)[0] = AsTable(x)[0]
    BY <2>4, <2>5, ZeroSlot
  <2>7. QED
    BY <2>1, <2>2, <2>3, <2>5, <2>6 DEF IsDirectory
<1>3. QED
  BY <1>1, <1>2

\* Disk d holds at slot "slot" what request r wrote to the clusters of chain.
Linked(d, chain) ==
    \A i \in 1 .. Len(chain) :
        AsFat(d[FatCluster])[chain[i]] =
            IF i = Len(chain) THEN EndOfFile ELSE chain[i + 1]

Holds(d, slot, r, chain) ==
    /\ EntryHolds(AsTable(d[r.parent]), slot, r, chain[1])
    /\ Linked(d, chain)
    /\ r.size = 0 => IsFolderNamed(AsTable(d[chain[1]]), r.name)
    /\ r.size # 0 => \A i \in 1 .. Len(chain) :
                        d[chain[i]] = Text(r.data, i - 1)

LEMMA LinkedIsUsed ==
    ASSUME NEW d, NEW chain \in Seq(DataClusters), Linked(d, chain),
           NEW i \in 1 .. Len(chain)
    PROVE  Used(d, chain[i])
<1>1. chain[i] \in DataClusters /\ (i # Len(chain) => chain[i + 1] \in DataClusters)
  OBVIOUS
<1>2. AsFat(d[FatCluster])[chain[i]] # EmptyEntry
  BY <1>1 DEF Linked, DataClusters, EmptyEntry, EndOfFile, RootCluster
<1>3. QED
  BY <1>1, <1>2, GeometryAssumption
  DEF Used, DataClusters, MapEntries, RootCluster

LEMMA FrameHolds ==
    ASSUME NEW d \in [Clusters -> ClusterContents],
           NEW e \in [Clusters -> ClusterContents],
           NEW r \in WriteRequests, NEW slot \in 1 .. TableSize - 1,
           NEW chain \in Seq(DataClusters), Len(chain) >= 1,
           Used(d, r.parent),
           KeepsUsed(d, e), Holds(d, slot, r, chain)
    PROVE  Holds(e, slot, r, chain)
<1>1. \A i \in 1 .. Len(chain) : Used(d, chain[i]) /\ chain[i] \in MapEntries
  BY LinkedIsUsed DEF Holds, Used
<1>2. 1 \in 1 .. Len(chain) /\ slot \in Slots
  BY ZeroSlot
<1>3. EntryHolds(AsTable(e[r.parent]), slot, r, chain[1])
  <2>1. r.parent \in MapEntries /\ d[r.parent] \in ClusterContents
    BY WriteRequestType DEF Used
  <2>2. KeepsCluster(d[r.parent], e[r.parent])
    BY UsedIsKept
  <2>3. AsTable(d[r.parent])[slot].user_attribute = NotEmpty
    BY DEF Holds, EntryHolds
  <2>4. AsTable(e[r.parent])[slot] = AsTable(d[r.parent])[slot]
    BY <1>2, <2>1, <2>2, <2>3, KeptCluster
  <2>5. QED
    BY <2>4 DEF Holds, EntryHolds
<1>4. Linked(e, chain)
  BY <1>1, UsedIsKept DEF Holds, Linked
<1>5. ASSUME r.size = 0
      PROVE  IsFolderNamed(AsTable(e[chain[1]]), r.name)
  <2>1. d[chain[1]] \in ClusterContents /\ KeepsCluster(d[chain[1]], e[chain[1]])
    BY <1>1, <1>2, UsedIsKept
  <2>2. IsFolderNamed(AsTable(d[chain[1]]), r.name)
    BY <1>5 DEF Holds
  <2>3. QED
    BY <2>1, <2>2, KeptCluster DEF IsFolderNamed
<1>6. ASSUME r.size # 0, NEW i \in 1 .. Len(chain)
      PROVE  e[chain[i]] = Text(r.data, i - 1)
  <2>1. d[chain[i]] \in ClusterContents /\ KeepsCluster(d[chain[i]], e[chain[i]])
    BY <1>1, UsedIsKept
  <2>2. d[chain[i]] = Text(r.data, i - 1)
    BY <1>6 DEF Holds
  <2>3. d[chain[i]].kind = "text"
    BY <2>2 DEF Text
  <2>4. QED
    BY <2>1, <2>2, <2>3, KeptCluster
<1>7. QED
  BY <1>3, <1>4, <1>5, <1>6 DEF Holds

-----------------------------------------------------------------------------
(* The inductive invariant.                                                *)

\* ReservedKept, but for entry 0 of the FAT, which no step reads: a delete()
\* that takes an empty slot frees it.
LayoutKept ==
    /\ disk[BootSector] \in {Zero, Signature}
    /\ disk[FatCluster].kind \in {"zero", "fat"}
    /\ \A c \in {FatCluster, RootCluster} :
            disk[FatCluster] # Zero => DiskMap[c] = FormattedMap[c]
    /\ (\E c \in Clusters : c >= RootCluster /\ disk[c] # Zero) =>
            /\ disk[BootSector] = Signature
            /\ disk[FatCluster] # Zero
            /\ AsTable(disk[RootCluster])[0] = RootTable[0]

BootEntryKept == disk[FatCluster] # Zero => DiskMap[BootSector] = Cluster0Value

\* Formatting goes signature, FAT, root, and nothing is written beside it.
FormatInv ==
    /\ LayoutKept
    /\ disk[FatCluster] # Zero => disk[BootSector] = Signature
    /\ pc \in {"formatFat", "formatRoot"} =>
         /\ disk[BootSector] = Signature
         /\ fat = FormattedMap
         /\ \A c \in Clusters : c >= RootCluster => disk[c] = Zero
    /\ pc = "formatFat" => disk[FatCluster] = Zero
    /\ pc = "formatRoot" => disk[FatCluster] = FatImage(FormattedMap)
    /\ pc \in Writing => disk[RootCluster] # Zero

\* What is committed is on the disk, in a directory that is committed too.
CommittedInv ==
    \A a \in DOMAIN committed :
        LET r == committed[a].req
            chain == committed[a].chain
        IN  /\ r \in WriteRequests
            /\ chain \in Seq(DataClusters) /\ Len(chain) >= 1
            /\ a = <<r.parent, a[2]>> /\ a[2] \in 1 .. TableSize - 1
            /\ r.parent \in SoundDirs
            /\ r.size = 0 => Len(chain) = 1
            /\ r.size # 0 => /\ (Len(chain) - 1) * ClusterSize < r.size
                             /\ r.size =< Len(chain) * ClusterSize
            /\ Holds(disk, a[2], r, chain)

\* The chain that a write() in progress has built: linked up to its last
\* cluster, which the FAT still has free.
OpChain ==
    /\ op.slot \in 1 .. TableSize - 1
    /\ op.chain \in Seq(DataClusters) /\ Len(op.chain) >= 1
    /\ op.cluster \in DataClusters
    /\ op.cluster = op.chain[Len(op.chain)]
    /\ DiskMap[op.cluster] = EmptyEntry
    /\ \A i \in 1 .. Len(op.chain) - 1 :
            DiskMap[op.chain[i]] = op.chain[i + 1]
    /\ \A i, j \in 1 .. Len(op.chain) : op.chain[i] = op.chain[j] => i = j

\* What the call has written so far.
OpFolder ==
    op.req.size = 0 =>
        /\ pc \in {"folderTable", "folderFat"}
        /\ Len(op.chain) = 1
        /\ pc = "folderFat" =>
                IsFolderNamed(AsTable(disk[op.cluster]), op.req.name)

OpFile ==
    op.req.size # 0 =>
        /\ pc \in {"fileData", "fileFat"}
        /\ op.n = Len(op.chain) - 1
        /\ op.remaining = op.req.size - op.n * ClusterSize
        /\ op.remaining > 0
        /\ \A i \in 1 .. op.n : disk[op.chain[i]] = Text(op.req.data, i - 1)
        /\ pc = "fileFat" => disk[op.cluster] = Text(op.req.data, op.n)

OpEntry ==
    op.req.parent \in SoundDirs =>
        /\ EntryHolds(AsTable(disk[op.req.parent]), op.slot, op.req,
                      op.chain[1])
        /\ <<op.req.parent, op.slot>> \notin DOMAIN committed

OpInv == pc \in Writing => OpChain /\ OpFolder /\ OpFile /\ OpEntry

IInv ==
    /\ TypeOK
    /\ CacheCoherent
    /\ FormatInv
    /\ CommittedInv
    /\ OpInv
    /\ ChainsDisjoint

-----------------------------------------------------------------------------
(* Consequences of the invariant.                                          *)

\* Once something is written past the FAT, formatting is complete.
LEMMA FormattedFacts ==
    ASSUME FormatInv, NEW c \in Clusters, c >= RootCluster, disk[c] # Zero
    PROVE  /\ disk[BootSector] = Signature
           /\ disk[FatCluster] # Zero
           /\ DiskMap[FatCluster] = FormattedMap[FatCluster]
           /\ DiskMap[RootCluster] = FormattedMap[RootCluster]
           /\ AsTable(disk[RootCluster])[0] = RootTable[0]
  BY DEF FormatInv, LayoutKept

LEMMA FormattedMapValues ==
    /\ FormattedMap \in [MapEntries -> FatValues]
    /\ FormattedMap[RootCluster] = EndOfFile
    /\ FormattedMap[FatCluster] = EndOfFile
    /\ FormattedMap[BootSector] = Cluster0Value
  BY GeometryAssumption
  DEF FormattedMap, ZeroMap, MapEntries, FatValues, RootCluster, FatCluster,
      BootSector, EmptyEntry, EndOfFile, Cluster0Value

LEMMA NotZeroIfInUse ==
    ASSUME NEW x, NEW s \in Slots,
           AsTable(x)[s].user_attribute = NotEmpty \/ IsDirectory(AsTable(x))
    PROVE  x # Zero
<1>1. x.kind = "dir"
  BY LooksLikeDirectory
<1>2. QED
  BY <1>1 DEF Zero

\* A committed entry is in a directory the FAT has in use.
LEMMA ParentInUse ==
    ASSUME FormatInv, CommittedInv, NEW a \in DOMAIN committed
    PROVE  /\ Used(disk, committed[a].req.parent)
           /\ disk[committed[a].req.parent] # Zero
           /\ committed[a].req.parent \in MapEntries
           /\ committed[a].req.parent >= RootCluster
<1> DEFINE r == committed[a].req
           p == r.parent
<1>1. /\ p \in SoundDirs /\ a[2] \in Slots
      /\ AsTable(disk[p])[a[2]].user_attribute = NotEmpty
  BY ZeroSlot DEF CommittedInv, Holds, EntryHolds
<1>2. disk[p] # Zero
  BY <1>1, NotZeroIfInUse
<1>3. CASE p = RootCluster
  <2>1. p \in Clusters /\ p \in MapEntries /\ p >= RootCluster
    BY <1>3, GeometryAssumption DEF Clusters, MapEntries, RootCluster
  <2>2. DiskMap[p] = EndOfFile
    BY <1>2, <1>3, <2>1, FormattedFacts, FormattedMapValues
  <2>3. QED
    BY <1>2, <2>1, <2>2 DEF Used, DiskMap, EmptyEntry, EndOfFile
<1>4. CASE p # RootCluster
  <2>1. PICK b \in DOMAIN committed : /\ committed[b].req.size = 0
                                      /\ p = committed[b].chain[1]
    BY <1>1, <1>4 DEF SoundDirs
  <2>2. /\ committed[b].chain \in Seq(DataClusters)
        /\ 1 \in 1 .. Len(committed[b].chain)
        /\ Linked(disk, committed[b].chain)
    BY DEF CommittedInv, Holds
  <2>3. Used(disk, p)
    BY <2>1, <2>2, LinkedIsUsed
  <2>4. QED
    BY <1>2, <2>3 DEF Used
<1>5. QED
  BY <1>3, <1>4

\* As long as there is nothing past the FAT, nothing is committed.
LEMMA NothingCommitted ==
    ASSUME FormatInv, CommittedInv,
           \A c \in Clusters : c >= RootCluster => disk[c] = Zero
    PROVE  DOMAIN committed = {}
<1>1. ASSUME NEW a \in DOMAIN committed PROVE FALSE
  BY <1>1, ParentInUse, MapEntriesAreClusters
<1>2. QED
  BY <1>1

\* A directory whose content counts is in use.
LEMMA SoundDirInUse ==
    ASSUME FormatInv, CommittedInv, disk[RootCluster] # Zero,
           NEW p \in SoundDirs
    PROVE  Used(disk, p) /\ p \in MapEntries /\ p >= RootCluster
<1>1. CASE p = RootCluster
  <2>1. p \in Clusters /\ p \in MapEntries /\ p >= RootCluster
    BY <1>1, GeometryAssumption DEF Clusters, MapEntries, RootCluster
  <2>2. DiskMap[p] = EndOfFile
    BY <1>1, <2>1, FormattedFacts, FormattedMapValues
  <2>3. QED
    BY <2>1, <2>2 DEF Used, DiskMap, EmptyEntry, EndOfFile
<1>2. CASE p # RootCluster
  <2>1. PICK b \in DOMAIN committed : /\ committed[b].req.size = 0
                                      /\ p = committed[b].chain[1]
    BY <1>2 DEF SoundDirs
  <2>2. /\ committed[b].chain \in Seq(DataClusters)
        /\ 1 \in 1 .. Len(committed[b].chain)
        /\ Linked(disk, committed[b].chain)
    BY DEF CommittedInv, Holds
  <2>3. Used(disk, p)
    BY <2>1, <2>2, LinkedIsUsed
  <2>4. QED
    BY <2>3 DEF Used
<1>3. QED
  BY <1>1, <1>2

-----------------------------------------------------------------------------
(* The frame condition holds of every way the driver changes the disk.     *)

LEMMA SameDiskKeeps == \A d : KeepsUsed(d, d)
  BY DEF KeepsUsed, KeepsCluster

LEMMA FatClusterIsCluster ==
    FatCluster \in Clusters /\ BootSector \in Clusters /\ RootCluster \in Clusters
  BY GeometryAssumption DEF Clusters, BootSector, FatCluster, RootCluster

\* A cluster is written that the FAT has free.
LEMMA FreeClusterKeeps ==
    ASSUME NEW d \in [Clusters -> ClusterContents], NEW c \in MapEntries, NEW x,
           c > FatCluster, AsFat(d[FatCluster])[c] = EmptyEntry
    PROVE  KeepsUsed(d, [d EXCEPT ![c] = x])
<1> DEFINE e == [d EXCEPT ![c] = x]
<1>1. \A b \in Clusters : b # c => e[b] = d[b]
  OBVIOUS
<1>2. e[FatCluster] = d[FatCluster]
  BY <1>1, FatClusterIsCluster DEF FatCluster
<1> HIDE DEF e
<1>3. QED
  BY <1>1, <1>2 DEF KeepsUsed, KeepsCluster, e

\* An entry is written to an empty slot of a directory.
LEMMA NewEntryKeeps ==
    ASSUME NEW d \in [Clusters -> ClusterContents], NEW c \in Clusters,
           c # FatCluster, IsDirectory(AsTable(d[c])),
           NEW s \in 1 .. TableSize - 1, NEW t,
           AsTable(d[c])[s].user_attribute # NotEmpty,
           t = [AsTable(d[c]) EXCEPT ![s] = t[s]]
    PROVE  KeepsUsed(d, [d EXCEPT ![c] = DirImage(t)])
<1> DEFINE e == [d EXCEPT ![c] = DirImage(t)]
<1>1. \A b \in Clusters : b # c => e[b] = d[b]
  OBVIOUS
<1>2. e[FatCluster] = d[FatCluster]
  BY <1>1, FatClusterIsCluster
<1>3. AsTable(e[c]) = t
  BY AsTableOfDir
<1> HIDE DEF e
<1>4. KeepsCluster(d[c], e[c])
  BY <1>3 DEF KeepsCluster
<1>5. \A b \in Clusters : KeepsCluster(d[b], e[b])
  BY <1>1, <1>4 DEF KeepsCluster
<1>6. QED
  BY <1>2, <1>5 DEF KeepsUsed, e

\* The link of a free cluster is written.
LEMMA NewLinkKeeps ==
    ASSUME NEW d \in [Clusters -> ClusterContents], NEW c \in MapEntries, NEW v,
           AsFat(d[FatCluster])[c] = EmptyEntry
    PROVE  KeepsUsed(d, [d EXCEPT ![FatCluster] =
                            FatImage([AsFat(d[FatCluster]) EXCEPT ![c] = v])])
<1> DEFINE m == AsFat(d[FatCluster])
           e == [d EXCEPT ![FatCluster] = FatImage([m EXCEPT ![c] = v])]
<1>1. m \in [MapEntries -> FatValues]
  BY FatClusterIsCluster, AsFatType
<1>2. AsFat(e[FatCluster]) = [m EXCEPT ![c] = v]
  BY FatClusterIsCluster, AsFatOfImage
<1>3. \A b \in Clusters : b # FatCluster => e[b] = d[b]
  OBVIOUS
<1>4. \A b \in MapEntries : b # c => AsFat(e[FatCluster])[b] = m[b]
  BY <1>1, <1>2
<1> HIDE DEF e
<1>5. \A b \in Clusters : b > FatCluster => KeepsCluster(d[b], e[b])
  BY <1>3 DEF KeepsCluster, FatCluster
<1>6. \A b \in MapEntries : m[b] # EmptyEntry => AsFat(e[FatCluster])[b] = m[b]
  BY <1>4
<1>7. QED
  BY <1>5, <1>6 DEF KeepsUsed, e

-----------------------------------------------------------------------------
(* What the frame condition gives for a step.                              *)

LEMMA FrameItems ==
    ASSUME TypeOK, FormatInv, CommittedInv,
           disk' \in [Clusters -> ClusterContents],
           KeepsUsed(disk, disk'), NEW a \in DOMAIN committed
    PROVE  Holds(disk', a[2], committed[a].req, committed[a].chain)
<1>1. /\ committed[a].req \in WriteRequests
      /\ committed[a].chain \in Seq(DataClusters)
      /\ Len(committed[a].chain) >= 1
      /\ a[2] \in 1 .. TableSize - 1
      /\ Holds(disk, a[2], committed[a].req, committed[a].chain)
  BY DEF CommittedInv
<1>2. Used(disk, committed[a].req.parent)
  BY ParentInUse
<1>3. disk \in [Clusters -> ClusterContents]
  BY DEF TypeOK
<1>4. QED
  BY <1>1, <1>2, <1>3, FrameHolds

LEMMA FrameCommitted ==
    ASSUME TypeOK, FormatInv, CommittedInv,
           disk' \in [Clusters -> ClusterContents],
           KeepsUsed(disk, disk'), committed' = committed
    PROVE  CommittedInv'
<1>1. SoundDirs' = SoundDirs
  BY DEF SoundDirs
<1>2. \A a \in DOMAIN committed :
            Holds(disk', a[2], committed[a].req, committed[a].chain)
  BY FrameItems
<1>3. QED
  BY <1>1, <1>2 DEF CommittedInv

LEMMA FrameFreeSpace ==
    ASSUME TypeOK, KeepsUsed(disk, disk')
    PROVE  FreeSpaceStep
  BY DEF KeepsUsed, KeepsCluster, FreeSpaceStep, DiskMap

\* Formatting stays complete.
LEMMA FrameFormat ==
    ASSUME TypeOK, FormatInv, disk[RootCluster] # Zero,
           disk' \in [Clusters -> ClusterContents], KeepsUsed(disk, disk'),
           disk'[BootSector] = disk[BootSector],
           disk'[FatCluster].kind \in {"zero", "fat"},
           pc' \in {"off", "idle"} \cup Writing
    PROVE  FormatInv'
<1>1. RootCluster \in Clusters /\ FatCluster \in Clusters
  BY FatClusterIsCluster
<1>2. /\ disk[BootSector] = Signature
      /\ \A c \in {FatCluster, RootCluster} :
            c \in MapEntries /\ DiskMap[c] = FormattedMap[c]
      /\ AsTable(disk[RootCluster])[0] = RootTable[0]
  BY <1>1, FormattedFacts, GeometryAssumption
  DEF MapEntries, BootSector, FatCluster, RootCluster
<1>3. \A c \in {FatCluster, RootCluster} :
            FormattedMap[c] # EmptyEntry
  BY FormattedMapValues DEF EndOfFile, Cluster0Value, EmptyEntry
<1>4. \A c \in {FatCluster, RootCluster} :
            DiskMap'[c] = FormattedMap[c]
  BY <1>2, <1>3 DEF KeepsUsed, DiskMap
<1>5. KeepsCluster(disk[RootCluster], disk'[RootCluster])
  <2>1. Used(disk, RootCluster)
    BY <1>2, <1>3 DEF Used, DiskMap, RootCluster
  <2>2. QED
    BY <2>1, UsedIsKept
<1>6. AsTable(disk'[RootCluster])[0] = RootTable[0]
  <2>1. disk[RootCluster] \in ClusterContents
    BY <1>1 DEF TypeOK
  <2>2. QED
    BY <1>2, <1>5, <2>1, KeptCluster
<1>7. RootTable[0].user_attribute = NotEmpty
  BY ZeroSlot DEF RootTable, InitDirectoryTable
<1>8. disk'[RootCluster] # Zero
  BY <1>6, <1>7, ZeroSlot, NotZeroIfInUse
<1>9. disk'[FatCluster] # Zero
  <2>1. ASSUME disk'[FatCluster] = Zero PROVE DiskMap'[RootCluster] = EmptyEntry
    BY <1>2, <2>1 DEF DiskMap, AsFat, Zero, ZeroMap
  <2>2. QED
    BY <1>3, <1>4, <2>1
<1>10. QED
  BY <1>2, <1>4, <1>6, <1>8, <1>9
  DEF FormatInv, LayoutKept, Writing

-----------------------------------------------------------------------------
(* Types of what the actions assign.                                       *)

LEMMA ReplyType ==
    ASSUME NEW call \in {"none", "mount", "write", "read", "read_directory"},
           NEW ret \in {-1, 0, 1, 2, 3}
    PROVE  Reply(call, ret) \in Replies /\ NoReply \in Replies
<1>1. 0 \in 0 .. HalfWord - 1
  BY DEF HalfWord
<1>2. QED
  BY <1>1 DEF Reply, NoReply, Replies

LEMMA AnswerType ==
    ASSUME TypeOK, NEW r \in ReadRequests, NEW hits \in SUBSET Slots,
           NEW call \in {"read", "read_directory"}
    PROVE  Answer(call, r, hits) \in Replies
<1> DEFINE table == AsTable(disk[r.parent])
           e == table[First(hits)]
<1>1. \A ret \in {-1, 0, 1, 2, 3} : Reply(call, ret) \in Replies
  BY ReplyType
<1>2. CASE hits = {}
  BY <1>1, <1>2 DEF Answer
<1>3. CASE hits # {}
  <2>1. First(hits) \in Slots
    <3>1. hits \subseteq Nat
      BY GeometryAssumption DEF Slots
    <3>2. First(hits) \in hits
      BY <1>3, <3>1, FirstHit
    <3>3. QED
      BY <3>2
  <2>2. r.parent \in Clusters
    BY DEF ReadRequests
  <2>3. e \in Entries
    BY <2>1, <2>2, AsTableType DEF TypeOK
  <2>4. [call |-> call, ret |-> 0, from |-> e.low,
         blocks |-> IF call = "read" THEN 1 ELSE e.filesize] \in Replies
    BY <2>3 DEF Entries, Replies
  <2>5. QED
    BY <1>1, <2>4 DEF Answer
<1>4. QED
  BY <1>2, <1>3

LEMMA NoOpTypes ==
    /\ \A s \in {"off", "formatFat", "formatRoot", "idle"} :
            s \in Control /\ s \notin Writing
    /\ \A s \in Writing : s \in Control /\ s \notin {"off", "idle"}
    /\ NoOp.chain = << >>
    /\ Len(NoOp.chain) = 0
  BY DEF Control, Writing, NoOp

LEMMA ZeroMapType == ZeroMap \in [MapEntries -> FatValues]
  BY GeometryAssumption DEF ZeroMap, FatValues, MapEntries, EmptyEntry

-----------------------------------------------------------------------------
(* The steps that leave the disk alone.                                    *)

LEMMA QuietStep ==
    ASSUME IInv, UNCHANGED <<disk, committed>>, TypeOK',
           op' = NoOp, pc' = "off" \/ (pc' = "idle" /\ fat' = DiskMap)
    PROVE  IInv' /\ FreeSpaceStep
<1>1. CacheCoherent'
  BY DEF CacheCoherent, DiskMap
<1>2. FormatInv'
  BY NoOpTypes DEF IInv, FormatInv, LayoutKept, DiskMap
<1>3. CommittedInv'
  BY DEF IInv, CommittedInv, SoundDirs
<1>4. OpInv'
  BY NoOpTypes DEF OpInv
<1>5. ChainsDisjoint'
  BY NoOpTypes DEF IInv, ChainsDisjoint
<1>6. FreeSpaceStep
  BY SameDiskKeeps, FrameFreeSpace DEF IInv
<1>7. QED
  BY <1>1, <1>2, <1>3, <1>4, <1>5, <1>6 DEF IInv

LEMMA MountStep == ASSUME IInv, Mount PROVE IInv' /\ FreeSpaceStep
<1>1. fat' = DiskMap /\ op = NoOp
  BY NoOpTypes DEF Mount, DiskMap, IInv, TypeOK
<1>2. fat' \in [MapEntries -> FatValues]
  BY <1>1, FatClusterIsCluster, AsFatType DEF DiskMap, IInv, TypeOK
<1>3. TypeOK'
  BY <1>1, <1>2, ReplyType, NoOpTypes DEF Mount, IInv, TypeOK
<1>4. QED
  BY <1>1, <1>3, QuietStep DEF Mount

LEMMA CrashStep == ASSUME IInv, Crash PROVE IInv' /\ FreeSpaceStep
<1>1. TypeOK'
  BY ZeroMapType, ReplyType, NoOpTypes, RequestAssumption
  DEF Crash, IInv, TypeOK
<1>2. QED
  BY <1>1, QuietStep DEF Crash

LEMMA RejectWriteStep ==
    ASSUME IInv, NEW r \in WriteRequests, RejectWrite(r)
    PROVE  IInv' /\ FreeSpaceStep
<1>1. \E ret \in {-1, 1, 2} : Return(ret)
  BY DEF RejectWrite, ValidateWrite
<1>2. /\ pc = "idle" /\ pc' = "idle" /\ op' = NoOp
      /\ reply' \in Replies
      /\ UNCHANGED <<disk, fat, committed, outages>>
  BY <1>1, ReplyType DEF RejectWrite, Return
<1>3. TypeOK'
  BY <1>2, NoOpTypes DEF IInv, TypeOK
<1>4. fat' = DiskMap
  BY <1>2 DEF IInv, CacheCoherent
<1>5. QED
  BY <1>2, <1>3, <1>4, QuietStep

LEMMA WriteNoSpaceStep == ASSUME IInv, WriteNoSpace PROVE IInv' /\ FreeSpaceStep
<1>1. /\ pc' = "idle" /\ op' = NoOp /\ fat' = DiskMap
      /\ reply' \in Replies
      /\ UNCHANGED <<disk, committed, outages>>
  BY ReplyType DEF WriteNoSpace, Return, DiskMap
<1>2. fat' \in [MapEntries -> FatValues]
  BY <1>1, FatClusterIsCluster, AsFatType DEF DiskMap, IInv, TypeOK
<1>3. TypeOK'
  BY <1>1, <1>2, NoOpTypes DEF IInv, TypeOK
<1>4. QED
  BY <1>1, <1>3, QuietStep

LEMMA ReadStep ==
    ASSUME IInv, NEW r \in ReadRequests, Read(r) \/ ReadDirectory(r)
    PROVE  IInv' /\ FreeSpaceStep
<1>1. reply' \in Replies
  BY AnswerType DEF IInv, Read, ReadDirectory, ReadReply, ReadDirectoryReply
<1>2. /\ pc = "idle" /\ pc' = "idle"
      /\ UNCHANGED <<disk, fat, op, committed, outages>>
  BY DEF Read, ReadDirectory
<1>3. op' = NoOp /\ fat' = DiskMap
  BY <1>2, NoOpTypes DEF IInv, TypeOK, CacheCoherent
<1>4. TypeOK'
  BY <1>1, <1>2 DEF IInv, TypeOK
<1>5. QED
  BY <1>2, <1>3, <1>4, QuietStep

-----------------------------------------------------------------------------
(* Formatting.                                                             *)

LEMMA RootTableType ==
    /\ RootTable \in [Slots -> Entries]
    /\ RootTable[0].user_attribute = NotEmpty
<1>1. [s \in Slots |-> ZeroEntry] \in [Slots -> Entries]
  BY ZeroEntryType
<1>2. QED
  BY <1>1, InitDirectoryTableResult, FatClusterIsCluster, RequestAssumption
  DEF RootTable, IsFolderNamed, IsDirectory

LEMMA FormatBootStep == ASSUME IInv, FormatBoot PROVE IInv' /\ FreeSpaceStep
<1>1. /\ disk[FatCluster] = Zero
      /\ \A c \in Clusters : c >= RootCluster => disk[c] = Zero
  BY DEF IInv, FormatInv, LayoutKept, FormatBoot, IsEmptyStorage
<1>2. DOMAIN committed = {}
  BY <1>1, NothingCommitted DEF IInv
<1>3. /\ disk \in [Clusters -> ClusterContents]
      /\ disk' = [disk EXCEPT ![BootSector] = Signature]
      /\ fat' = FormattedMap /\ pc = "off" /\ pc' = "formatFat"
      /\ UNCHANGED <<op, reply, committed, outages>>
  BY DEF FormatBoot, IInv, TypeOK
<1>4. /\ disk'[BootSector] = Signature
      /\ \A c \in Clusters : c # BootSector => disk'[c] = disk[c]
  BY <1>3, FatClusterIsCluster
<1>5. /\ disk'[FatCluster] = Zero
      /\ \A c \in Clusters : c >= RootCluster => disk'[c] = Zero
  BY <1>1, <1>4, FatClusterIsCluster DEF BootSector, FatCluster, RootCluster
<1>6. TypeOK'
  BY <1>3, ContentsTypes, FormattedMapValues, NoOpTypes DEF IInv, TypeOK
<1>7. CacheCoherent'
  BY <1>3 DEF CacheCoherent
<1>8. FormatInv'
  BY <1>3, <1>4, <1>5, NoOpTypes DEF FormatInv, LayoutKept, Zero
<1>9. CommittedInv' /\ OpInv'
  BY <1>2, <1>3, NoOpTypes DEF CommittedInv, OpInv
<1>10. ChainsDisjoint' /\ FreeSpaceStep
  BY <1>3, NoOpTypes DEF IInv, ChainsDisjoint, FreeSpaceStep
<1>11. QED
  BY <1>6, <1>7, <1>8, <1>9, <1>10 DEF IInv

LEMMA FormatFatStep == ASSUME IInv, FormatFat PROVE IInv' /\ FreeSpaceStep
<1>1. /\ disk[BootSector] = Signature /\ fat = FormattedMap
      /\ \A c \in Clusters : c >= RootCluster => disk[c] = Zero
  BY DEF IInv, FormatInv, FormatFat
<1>2. DOMAIN committed = {}
  BY <1>1, NothingCommitted DEF IInv
<1>3. /\ disk \in [Clusters -> ClusterContents]
      /\ disk' = [disk EXCEPT ![FatCluster] = FatImage(FormattedMap)]
      /\ fat' = FormattedMap /\ pc = "formatFat" /\ pc' = "formatRoot"
      /\ UNCHANGED <<op, reply, committed, outages>>
  BY <1>1 DEF FormatFat, IInv, TypeOK
<1>4. /\ disk'[FatCluster] = FatImage(FormattedMap)
      /\ \A c \in Clusters : c # FatCluster => disk'[c] = disk[c]
  BY <1>3, FatClusterIsCluster
<1>5. /\ disk'[BootSector] = Signature
      /\ \A c \in Clusters : c >= RootCluster => disk'[c] = Zero
  BY <1>1, <1>4, FatClusterIsCluster DEF BootSector, FatCluster, RootCluster
<1>6. DiskMap' = FormattedMap /\ disk'[FatCluster].kind = "fat"
  BY <1>4, AsFatOfImage DEF DiskMap, FatImage
<1>7. TypeOK'
  BY <1>3, ContentsTypes, FormattedMapValues, NoOpTypes DEF IInv, TypeOK
<1>8. CacheCoherent'
  BY <1>3, <1>6 DEF CacheCoherent
<1>9. FormatInv'
  BY <1>3, <1>4, <1>5, <1>6, NoOpTypes DEF FormatInv, LayoutKept
<1>10. CommittedInv' /\ OpInv'
  BY <1>2, <1>3, NoOpTypes DEF CommittedInv, OpInv
<1>11. ChainsDisjoint' /\ FreeSpaceStep
  BY <1>3, NoOpTypes DEF IInv, ChainsDisjoint, FreeSpaceStep
<1>12. QED
  BY <1>7, <1>8, <1>9, <1>10, <1>11 DEF IInv

LEMMA FormatRootStep == ASSUME IInv, FormatRoot PROVE IInv' /\ FreeSpaceStep
<1>1. /\ disk[BootSector] = Signature /\ fat = FormattedMap
      /\ disk[FatCluster] = FatImage(FormattedMap)
      /\ \A c \in Clusters : c >= RootCluster => disk[c] = Zero
  BY DEF IInv, FormatInv, FormatRoot
<1>2. DOMAIN committed = {}
  BY <1>1, NothingCommitted DEF IInv
<1>3. /\ disk \in [Clusters -> ClusterContents]
      /\ disk' = [disk EXCEPT ![RootCluster] = DirImage(RootTable)]
      /\ fat' = FormattedMap /\ pc = "formatRoot" /\ pc' = "idle"
      /\ reply' \in Replies
      /\ UNCHANGED <<op, committed, outages>>
  BY <1>1, ReplyType DEF FormatRoot, IInv, TypeOK
<1>4. /\ disk'[RootCluster] = DirImage(RootTable)
      /\ disk'[FatCluster] = FatImage(FormattedMap)
      /\ disk'[BootSector] = Signature
  BY <1>1, <1>3, FatClusterIsCluster DEF BootSector, FatCluster, RootCluster
<1>5. /\ DiskMap' = FormattedMap /\ disk'[FatCluster].kind = "fat"
      /\ disk'[FatCluster] # Zero
      /\ AsTable(disk'[RootCluster]) = RootTable
  BY <1>4, AsFatOfImage, AsTableOfDir DEF DiskMap, FatImage, Zero
<1>6. TypeOK'
  BY <1>3, ContentsTypes, RootTableType, FormattedMapValues, NoOpTypes
  DEF IInv, TypeOK
<1>7. CacheCoherent'
  BY <1>3, <1>5 DEF CacheCoherent
<1>8. FormatInv'
  BY <1>3, <1>4, <1>5, NoOpTypes DEF FormatInv, LayoutKept
<1>9. CommittedInv' /\ OpInv'
  BY <1>2, <1>3, NoOpTypes DEF CommittedInv, OpInv
<1>10. ChainsDisjoint' /\ FreeSpaceStep
  BY <1>3, NoOpTypes DEF IInv, ChainsDisjoint, FreeSpaceStep, Writing
<1>11. QED
  BY <1>6, <1>7, <1>8, <1>9, <1>10 DEF IInv

-----------------------------------------------------------------------------
(* write().                                                                *)

LEMMA CommittedChainInUse ==
    ASSUME CommittedInv, NEW a \in DOMAIN committed,
           NEW i \in 1 .. Len(committed[a].chain)
    PROVE  DiskMap[committed[a].chain[i]] # EmptyEntry
<1>1. /\ committed[a].chain \in Seq(DataClusters)
      /\ Linked(disk, committed[a].chain)
  BY DEF CommittedInv, Holds
<1>2. Used(disk, committed[a].chain[i])
  BY <1>1, LinkedIsUsed
<1>3. QED
  BY <1>2 DEF Used, DiskMap

LEMMA RootWritten ==
    ASSUME FormatInv, NEW c \in Clusters, c >= RootCluster, disk[c] # Zero
    PROVE  disk[RootCluster] # Zero /\ DiskMap[RootCluster] = EndOfFile
<1>1. /\ AsTable(disk[RootCluster])[0] = RootTable[0]
      /\ DiskMap[RootCluster] = FormattedMap[RootCluster]
  BY FormattedFacts
<1>2. QED
  BY <1>1, RootTableType, ZeroSlot, NotZeroIfInUse, FormattedMapValues

LEMMA StartWriteStep ==
    ASSUME IInv, NEW r \in WriteRequests, StartWrite(r)
    PROVE  IInv' /\ FreeSpaceStep
<1> DEFINE p == r.parent
           t == AsTable(disk[p])
           c == FindEmptyCluster(fat)
           s == FindEmptyEntry(t)
           w == WriteEntry(r, t, c, s)
<1>1. /\ TypeOK /\ CacheCoherent /\ FormatInv /\ CommittedInv
      /\ ChainsDisjoint /\ disk \in [Clusters -> ClusterContents]
  BY DEF IInv, TypeOK
<1>2. /\ pc = "idle" /\ c # 0 /\ s # 0
      /\ disk' = [disk EXCEPT ![p] = DirImage(w)]
      /\ op' = [req |-> r, slot |-> s, cluster |-> c,
                remaining |-> r.size, n |-> 0, chain |-> <<c>>]
      /\ pc' = IF r.size = 0 THEN "folderTable" ELSE "fileData"
      /\ reply' = NoReply
      /\ UNCHANGED <<fat, committed, outages>>
  BY DEF StartWrite
<1>3. /\ p \in Clusters /\ p >= RootCluster /\ p # FatCluster
      /\ p # BootSector /\ IsDirectory(t)
  BY <1>2, WriteRequestType
  DEF StartWrite, ValidateWrite, Clusters, RootCluster, FatCluster, BootSector
<1>4. /\ s \in 1 .. TableSize - 1 /\ s \in Slots
      /\ t[s].user_attribute # NotEmpty
  BY <1>2, FindEmptyEntryResult, ZeroSlot
<1>5. disk[p] # Zero
  BY <1>3, ZeroSlot, NotZeroIfInUse
<1>6. disk[RootCluster] # Zero /\ DiskMap[RootCluster] = EndOfFile
  BY <1>1, <1>3, <1>5, RootWritten
<1>7. c \in 2 .. MapSize - 1 /\ DiskMap[c] = EmptyEntry
  BY <1>1, <1>2, FindEmptyClusterResult DEF CacheCoherent
<1>8. c \in DataClusters /\ c \in MapEntries
  BY <1>6, <1>7, GeometryAssumption
  DEF DataClusters, MapEntries, RootCluster, EndOfFile, EmptyEntry
<1>9. t \in [Slots -> Entries]
  BY <1>1, <1>3, AsTableType
<1> HIDE DEF c, s
<1>10. /\ w \in [Slots -> Entries] /\ w = [t EXCEPT ![s] = w[s]]
       /\ EntryHolds(w, s, r, c)
  BY <1>4, <1>8, <1>9, WriteEntryResult
<1> HIDE DEF w
<1>11. disk' \in [Clusters -> ClusterContents]
  BY <1>1, <1>2, <1>10, ContentsTypes
<1>12. KeepsUsed(disk, disk')
  BY <1>1, <1>2, <1>3, <1>4, <1>10, NewEntryKeeps
<1>13. /\ disk'[BootSector] = disk[BootSector]
       /\ disk'[FatCluster] = disk[FatCluster]
       /\ AsTable(disk'[p]) = w
  BY <1>1, <1>2, <1>3, FatClusterIsCluster, AsTableOfDir
<1>14. DiskMap' = DiskMap
  BY <1>13 DEF DiskMap
<1>15. pc' \in Writing /\ op' # NoOp
  BY <1>2, <1>8, NoOpTypes DEF Writing, NoOp
<1>16. op' \in Ops
  <2>1. <<c>> \in Seq(DataClusters) /\ r.size \in Int
    BY <1>8, WriteRequestType
  <2>2. QED
    BY <1>2, <1>4, <1>8, <2>1 DEF Ops
<1>17. TypeOK'
  BY <1>1, <1>2, <1>11, <1>15, <1>16, NoOpTypes, ReplyType DEF TypeOK
<1>18. CacheCoherent'
  BY <1>1, <1>2, <1>14 DEF CacheCoherent
<1>19. FormatInv'
  BY <1>1, <1>6, <1>11, <1>12, <1>13, <1>15, FrameFormat
  DEF FormatInv, LayoutKept
<1>20. CommittedInv'
  BY <1>1, <1>2, <1>11, <1>12, FrameCommitted
<1>21. OpInv'
  <2>1. /\ op'.req = r /\ op'.slot = s /\ op'.cluster = c
        /\ op'.remaining = r.size /\ op'.n = 0 /\ op'.chain = <<c>>
    BY <1>2
  <2>2. OpChain'
    <3>1. /\ op'.chain \in Seq(DataClusters) /\ Len(op'.chain) = 1
          /\ op'.chain[1] = c
      BY <1>8, <2>1
    <3>2. \A i \in 1 .. Len(op'.chain) : i = 1
      BY <3>1
    <3>3. \A i \in 1 .. Len(op'.chain) - 1 : FALSE
      BY <3>1
    <3>4. DiskMap'[op'.cluster] = EmptyEntry
      BY <1>7, <1>14, <2>1
    <3>5. QED
      BY <1>4, <1>8, <2>1, <3>1, <3>2, <3>3, <3>4 DEF OpChain
  <2>3. Len(op'.chain) = 1 /\ r.size \in Nat /\ 0 * ClusterSize = 0
    BY <2>1, WriteRequestType, GeometryAssumption
  <2>4. OpFolder'
    BY <1>2, <2>1, <2>3 DEF OpFolder
  <2>5. OpFile'
    <3>1. \A i \in 1 .. op'.n : FALSE
      BY <2>1
    <3>2. op'.remaining = op'.req.size - op'.n * ClusterSize
      BY <2>1, <2>3
    <3>3. /\ op'.req.size # 0 => op'.remaining > 0 /\ pc' = "fileData"
          /\ op'.n = Len(op'.chain) - 1
      BY <1>2, <2>1, <2>3
    <3>4. \A i \in 1 .. op'.n :
                disk'[op'.chain[i]] = Text(op'.req.data, i - 1)
      BY <3>1
    <3>5. QED
      BY <3>2, <3>3, <3>4, Zenon DEF OpFile
  <2>6. OpEntry'
    <3>1. ASSUME <<p, s>> \in DOMAIN committed PROVE FALSE
      <4>1. EntryHolds(AsTable(disk[committed[<<p, s>>].req.parent]), s,
                       committed[<<p, s>>].req, committed[<<p, s>>].chain[1])
        BY <1>1, <3>1 DEF CommittedInv, Holds
      <4>2. committed[<<p, s>>].req.parent = p
        BY <1>1, <3>1 DEF CommittedInv
      <4>3. QED
        BY <1>4, <4>1, <4>2 DEF EntryHolds
    <3>2. QED
      BY <1>2, <1>10, <1>13, <2>1, <3>1 DEF OpEntry
  <2>7. QED
    BY <2>2, <2>4, <2>5, <2>6 DEF OpInv
<1>22. ChainsDisjoint'
  <2>1. ASSUME NEW a \in DOMAIN committed,
               NEW i \in 1 .. Len(committed[a].chain)
        PROVE  committed[a].chain[i] # c
    BY <1>1, <1>7, <2>1, CommittedChainInUse
  <2>2. op'.chain = <<c>>
    BY <1>2
  <2>3. QED
    BY <1>1, <1>2, <2>1, <2>2 DEF ChainsDisjoint
<1>23. FreeSpaceStep
  BY <1>1, <1>12, FrameFreeSpace
<1>24. QED
  BY <1>17, <1>18, <1>19, <1>20, <1>21, <1>22, <1>23 DEF IInv

\* What write() does to the disk before its FAT update: it fills the
\* cluster it is going to use, which the FAT still has free.
LEMMA FreeClusterWrite ==
    ASSUME IInv, pc \in Writing, pc' \in Writing,
           NEW x \in ClusterContents,
           disk' = [disk EXCEPT ![op.cluster] = x],
           UNCHANGED <<fat, op, reply, committed, outages>>
    PROVE  /\ TypeOK' /\ CacheCoherent' /\ FormatInv' /\ CommittedInv'
           /\ OpChain' /\ OpEntry' /\ ChainsDisjoint' /\ FreeSpaceStep
           /\ disk'[op.cluster] = x
           /\ \A c \in Clusters : c # op.cluster => disk'[c] = disk[c]
<1>1. /\ TypeOK /\ CacheCoherent /\ FormatInv /\ CommittedInv
      /\ ChainsDisjoint /\ OpChain /\ OpEntry
      /\ disk \in [Clusters -> ClusterContents]
  BY DEF IInv, OpInv, TypeOK
<1>2. disk[RootCluster] # Zero
  BY <1>1 DEF FormatInv
<1>3. /\ op.cluster \in MapEntries /\ op.cluster \in Clusters
      /\ op.cluster > RootCluster /\ op.cluster > FatCluster
      /\ DiskMap[op.cluster] = EmptyEntry
  BY <1>1, GeometryAssumption
  DEF OpChain, DataClusters, MapEntries, Clusters, RootCluster, FatCluster
<1>4. /\ disk'[op.cluster] = x
      /\ \A c \in Clusters : c # op.cluster => disk'[c] = disk[c]
      /\ disk' \in [Clusters -> ClusterContents]
  BY <1>1, <1>3
<1>5. /\ disk'[FatCluster] = disk[FatCluster]
      /\ disk'[BootSector] = disk[BootSector]
  BY <1>3, <1>4, FatClusterIsCluster DEF BootSector, FatCluster, RootCluster
<1>6. DiskMap' = DiskMap
  BY <1>5 DEF DiskMap
<1>7. KeepsUsed(disk, disk')
  BY <1>1, <1>3, FreeClusterKeeps DEF DiskMap
<1>8. TypeOK'
  BY <1>1, <1>4, NoOpTypes DEF TypeOK
<1>9. CacheCoherent'
  BY <1>1, <1>6, NoOpTypes DEF CacheCoherent, Writing
<1>10. FormatInv'
  BY <1>1, <1>2, <1>4, <1>5, <1>7, FrameFormat DEF FormatInv, LayoutKept
<1>11. CommittedInv'
  BY <1>1, <1>4, <1>7, FrameCommitted
<1>12. OpChain'
  BY <1>1, <1>6 DEF OpChain
<1>13. OpEntry'
  <2>1. SoundDirs' = SoundDirs
    BY DEF SoundDirs
  <2>2. ASSUME op.req.parent \in SoundDirs
        PROVE  disk'[op.req.parent] = disk[op.req.parent]
    <3>1. Used(disk, op.req.parent) /\ op.req.parent \in Clusters
      BY <1>1, <1>2, <2>2, SoundDirInUse, MapEntriesAreClusters
    <3>2. QED
      BY <1>3, <1>4, <3>1 DEF Used, DiskMap
  <2>3. QED
    BY <1>1, <2>1, <2>2 DEF OpEntry
<1>14. ChainsDisjoint'
  BY <1>1 DEF ChainsDisjoint
<1>15. FreeSpaceStep
  BY <1>1, <1>7, FrameFreeSpace
<1>16. QED
  BY <1>4, <1>8, <1>9, <1>10, <1>11, <1>12, <1>13, <1>14, <1>15

LEMMA WriteFolderTableStep ==
    ASSUME IInv, WriteFolderTable PROVE IInv' /\ FreeSpaceStep
<1> DEFINE t == InitDirectoryTable(AsTable(disk[op.cluster]),
                                   op.req.name, op.req.parent)
<1>1. /\ pc = "folderTable" /\ pc' = "folderFat"
      /\ disk' = [disk EXCEPT ![op.cluster] = DirImage(t)]
      /\ UNCHANGED <<fat, op, reply, committed, outages>>
  BY DEF WriteFolderTable
<1>2. pc \in Writing /\ pc' \in Writing
  BY <1>1 DEF Writing
<1>3. /\ op \in Ops /\ op.req \in WriteRequests /\ op.cluster \in Clusters
      /\ disk[op.cluster] \in ClusterContents
  BY <1>2, MapEntriesAreClusters DEF IInv, TypeOK, Ops
<1>4. t \in [Slots -> Entries] /\ IsFolderNamed(t, op.req.name)
  BY <1>3, AsTableType, WriteRequestType, InitDirectoryTableResult
<1> HIDE DEF t
<1>5. DirImage(t) \in ClusterContents /\ AsTable(DirImage(t)) = t
  BY <1>4, ContentsTypes, AsTableOfDir
<1>6. /\ TypeOK' /\ CacheCoherent' /\ FormatInv' /\ CommittedInv'
      /\ OpChain' /\ OpEntry' /\ ChainsDisjoint' /\ FreeSpaceStep
      /\ disk'[op.cluster] = DirImage(t)
  BY <1>1, <1>2, <1>5, FreeClusterWrite
<1>7. op.req.size = 0 /\ Len(op.chain) = 1
  BY <1>1, <1>2 DEF IInv, OpInv, OpFolder, OpFile
<1>8. OpFolder' /\ OpFile'
  BY <1>1, <1>4, <1>5, <1>6, <1>7 DEF OpFolder, OpFile
<1>9. QED
  BY <1>6, <1>8 DEF IInv, OpInv

LEMMA WriteFileDataStep ==
    ASSUME IInv, WriteFileData PROVE IInv' /\ FreeSpaceStep
<1> DEFINE x == Text(op.req.data, op.n)
<1>1. /\ pc = "fileData" /\ pc' = "fileFat"
      /\ disk' = [disk EXCEPT ![op.cluster] = x]
      /\ UNCHANGED <<fat, op, reply, committed, outages>>
  BY DEF WriteFileData
<1>2. pc \in Writing /\ pc' \in Writing
  BY <1>1 DEF Writing
<1>3. OpChain /\ OpFile /\ OpFolder
  BY <1>2 DEF IInv, OpInv
<1>4. op.req.size # 0
  BY <1>1, <1>3 DEF OpFolder
<1>5. op.req \in WriteRequests /\ op.n \in Nat
  BY <1>2 DEF IInv, TypeOK, Ops
<1>6. x \in ClusterContents
  BY <1>4, <1>5, WriteRequestType, ContentsTypes
<1> HIDE DEF x
<1>7. /\ TypeOK' /\ CacheCoherent' /\ FormatInv' /\ CommittedInv'
      /\ OpChain' /\ OpEntry' /\ ChainsDisjoint' /\ FreeSpaceStep
      /\ disk'[op.cluster] = x
      /\ \A c \in Clusters : c # op.cluster => disk'[c] = disk[c]
  BY <1>1, <1>2, <1>6, FreeClusterWrite
<1>8. ASSUME NEW i \in 1 .. op.n
      PROVE  disk'[op.chain[i]] = Text(op.req.data, i - 1)
  <2>1. /\ i \in 1 .. Len(op.chain) /\ Len(op.chain) \in 1 .. Len(op.chain)
        /\ i # Len(op.chain)
    BY <1>3, <1>4, <1>5 DEF OpChain, OpFile
  <2>2. op.chain[i] # op.cluster
    BY <1>3, <2>1 DEF OpChain
  <2>3. op.chain[i] \in Clusters
    BY <1>3, <2>1, GeometryAssumption
    DEF OpChain, DataClusters, Clusters, RootCluster
  <2>4. disk[op.chain[i]] = Text(op.req.data, i - 1)
    BY <1>3, <1>4 DEF OpFile
  <2>5. QED
    BY <1>7, <2>2, <2>3, <2>4
<1>9. disk'[op.cluster] = Text(op.req.data, op.n)
  BY <1>7 DEF x
<1>10. OpFile' /\ OpFolder'
  <2>1. OpFolder'
    BY <1>1, <1>4 DEF OpFolder
  <2>2. /\ op.n = Len(op.chain) - 1 /\ op.remaining > 0
        /\ op.remaining = op.req.size - op.n * ClusterSize
    BY <1>3, <1>4 DEF OpFile
  <2>3. OpFile'
    BY <1>1, <1>8, <1>9, <2>2, Zenon DEF OpFile
  <2>4. QED
    BY <2>1, <2>3
<1>11. QED
  BY <1>7, <1>10 DEF IInv, OpInv

\* The FAT update of write(): the link of its last cluster, which was free.
LEMMA LinkWrite ==
    ASSUME IInv, pc \in Writing, pc' \in {"idle"} \cup Writing,
           NEW v \in FatValues,
           fat' = [DiskMap EXCEPT ![op.cluster] = v],
           disk' = [disk EXCEPT ![FatCluster] =
                        FatImage([DiskMap EXCEPT ![op.cluster] = v])]
    PROVE  /\ disk' \in [Clusters -> ClusterContents]
           /\ fat' \in [MapEntries -> FatValues]
           /\ CacheCoherent' /\ FormatInv' /\ FreeSpaceStep
           /\ KeepsUsed(disk, disk')
           /\ DiskMap'[op.cluster] = v
           /\ \A c \in MapEntries : c # op.cluster => DiskMap'[c] = DiskMap[c]
           /\ \A c \in Clusters : c >= RootCluster => disk'[c] = disk[c]
<1> DEFINE m == [DiskMap EXCEPT ![op.cluster] = v]
<1>1. /\ TypeOK /\ FormatInv /\ OpChain
      /\ disk \in [Clusters -> ClusterContents]
      /\ disk[RootCluster] # Zero
  BY DEF IInv, OpInv, TypeOK, FormatInv
<1>2. op.cluster \in MapEntries /\ DiskMap[op.cluster] = EmptyEntry
  BY <1>1, GeometryAssumption
  DEF OpChain, DataClusters, MapEntries, RootCluster
<1>3. DiskMap \in [MapEntries -> FatValues]
  BY <1>1, FatClusterIsCluster, AsFatType DEF DiskMap
<1>4. m \in [MapEntries -> FatValues]
  BY <1>2, <1>3
<1>5. /\ m[op.cluster] = v
      /\ \A c \in MapEntries : c # op.cluster => m[c] = DiskMap[c]
  BY <1>2, <1>3
<1>6. KeepsUsed(disk, disk')
  BY <1>1, <1>2, NewLinkKeeps DEF DiskMap
<1> HIDE DEF m
<1>7. fat' = m /\ disk' = [disk EXCEPT ![FatCluster] = FatImage(m)]
  BY DEF m
<1>8. /\ disk' \in [Clusters -> ClusterContents]
      /\ disk'[FatCluster] = FatImage(m)
      /\ \A c \in Clusters : c # FatCluster => disk'[c] = disk[c]
  BY <1>1, <1>4, <1>7, FatClusterIsCluster, ContentsTypes
<1>9. DiskMap' = m /\ disk'[FatCluster].kind = "fat"
  BY <1>8, AsFatOfImage DEF DiskMap, FatImage
<1>10. CacheCoherent'
  BY <1>7, <1>9 DEF CacheCoherent
<1>11. disk'[BootSector] = disk[BootSector]
  BY <1>8, FatClusterIsCluster DEF BootSector, FatCluster
<1>12. FormatInv'
  BY <1>1, <1>6, <1>8, <1>9, <1>11, FrameFormat
<1>13. FreeSpaceStep
  BY <1>1, <1>6, FrameFreeSpace
<1>14. \A c \in Clusters : c >= RootCluster => disk'[c] = disk[c]
  BY <1>8 DEF RootCluster, FatCluster, Clusters
<1>15. QED
  BY <1>4, <1>5, <1>6, <1>7, <1>8, <1>9, <1>10, <1>12, <1>13, <1>14

LEMMA NextMultiple ==
    ASSUME NEW n \in Nat, NEW k \in Nat
    PROVE  (n + 1) * k = n * k + k /\ n * k \in Nat
  OBVIOUS

\* What is on the disk once write() has marked its last cluster.
LEMMA WrittenHolds ==
    ASSUME IInv, pc \in {"folderFat", "fileFat"}, op.req.parent \in SoundDirs,
           DiskMap'[op.cluster] = EndOfFile,
           \A c \in MapEntries : c # op.cluster => DiskMap'[c] = DiskMap[c],
           \A c \in Clusters : c >= RootCluster => disk'[c] = disk[c]
    PROVE  Holds(disk', op.slot, op.req, op.chain)
<1>1. pc \in Writing
  BY DEF Writing
<1>2. /\ OpChain /\ OpFolder /\ OpFile /\ OpEntry /\ FormatInv /\ CommittedInv
      /\ disk[RootCluster] # Zero /\ op.req \in WriteRequests /\ op.n \in Nat
  BY <1>1 DEF IInv, OpInv, FormatInv, TypeOK, Ops
<1>3. \A i \in 1 .. Len(op.chain) :
            /\ op.chain[i] \in MapEntries /\ op.chain[i] \in Clusters
            /\ op.chain[i] >= RootCluster
  <2>1. /\ op.chain \in Seq(DataClusters)
        /\ \A c \in DataClusters : /\ c \in MapEntries /\ c \in Clusters
                                  /\ c >= RootCluster
    BY <1>2, DataClustersAreClusters DEF OpChain
  <2>2. QED
    BY <2>1
<1>4. EntryHolds(AsTable(disk'[op.req.parent]), op.slot, op.req, op.chain[1])
  <2>1. op.req.parent \in Clusters /\ op.req.parent >= RootCluster
    BY <1>2, SoundDirInUse, MapEntriesAreClusters
  <2>2. QED
    BY <1>2, <2>1 DEF OpEntry
<1>5. Linked(disk', op.chain)
  <2>1. ASSUME NEW i \in 1 .. Len(op.chain)
        PROVE  DiskMap'[op.chain[i]] =
                    IF i = Len(op.chain) THEN EndOfFile ELSE op.chain[i + 1]
    <3>1. CASE i = Len(op.chain)
      BY <1>2, <3>1 DEF OpChain
    <3>2. CASE i # Len(op.chain)
      <4>1. /\ i \in 1 .. Len(op.chain) - 1
            /\ Len(op.chain) \in 1 .. Len(op.chain)
        BY <1>2, <3>2 DEF OpChain
      <4>2. op.chain[i] # op.cluster
        BY <1>2, <3>2, <4>1 DEF OpChain
      <4>3. DiskMap[op.chain[i]] = op.chain[i + 1]
        BY <1>2, <4>1 DEF OpChain
      <4>4. QED
        BY <1>3, <3>2, <4>2, <4>3
    <3>3. QED
      BY <3>1, <3>2
  <2>2. QED
    BY <2>1 DEF Linked, DiskMap
<1>6. ASSUME op.req.size = 0
      PROVE  IsFolderNamed(AsTable(disk'[op.chain[1]]), op.req.name)
  <2>1. op.chain[1] = op.cluster /\ 1 \in 1 .. Len(op.chain)
    BY <1>2, <1>6 DEF OpFolder, OpChain
  <2>2. IsFolderNamed(AsTable(disk[op.cluster]), op.req.name)
    BY <1>2, <1>6 DEF OpFolder
  <2>3. QED
    BY <1>3, <2>1, <2>2
<1>7. ASSUME op.req.size # 0, NEW i \in 1 .. Len(op.chain)
      PROVE  disk'[op.chain[i]] = Text(op.req.data, i - 1)
  <2>1. disk'[op.chain[i]] = disk[op.chain[i]]
    BY <1>3
  <2>2. op.n = Len(op.chain) - 1 /\ pc = "fileFat"
    BY <1>2, <1>7 DEF OpFile
  <2>3. CASE i = Len(op.chain)
    <3>1. disk[op.cluster] = Text(op.req.data, op.n)
      BY <1>2, <1>7, <2>2 DEF OpFile
    <3>2. op.chain[i] = op.cluster /\ op.n = i - 1
      BY <1>2, <2>2, <2>3 DEF OpChain
    <3>3. QED
      BY <2>1, <3>1, <3>2
  <2>4. CASE i # Len(op.chain)
    <3>1. i \in 1 .. op.n
      BY <1>2, <2>2, <2>4 DEF OpChain
    <3>2. QED
      BY <1>2, <1>7, <2>1, <3>1 DEF OpFile
  <2>5. QED
    BY <2>3, <2>4
<1>8. QED
  BY <1>4, <1>5, <1>6, <1>7 DEF Holds

\* The last step of write(): the FAT update, and success.
LEMMA CommitStep ==
    ASSUME IInv, pc \in {"folderFat", "fileFat"},
           op.req.size # 0 => op.remaining =< ClusterSize,
           fat' = [DiskMap EXCEPT ![op.cluster] = EndOfFile],
           disk' = [disk EXCEPT ![FatCluster] =
                        FatImage([DiskMap EXCEPT ![op.cluster] = EndOfFile])],
           Commit, Return(0), UNCHANGED outages
    PROVE  IInv' /\ FreeSpaceStep
<1> DEFINE new == <<op.req.parent, op.slot>>
<1>1. pc \in Writing /\ pc' = "idle" /\ op' = NoOp /\ reply' \in Replies
  BY ReplyType DEF Writing, Return
<1>2. /\ TypeOK /\ FormatInv /\ CommittedInv /\ ChainsDisjoint
      /\ OpChain /\ OpFolder /\ OpFile /\ OpEntry
      /\ op.req \in WriteRequests /\ op.n \in Nat
  BY <1>1 DEF IInv, OpInv, TypeOK, Ops
<1>3. EndOfFile \in FatValues
  BY DEF FatValues
<1>4. /\ disk' \in [Clusters -> ClusterContents]
      /\ fat' \in [MapEntries -> FatValues]
      /\ CacheCoherent' /\ FormatInv' /\ FreeSpaceStep
      /\ KeepsUsed(disk, disk')
      /\ DiskMap'[op.cluster] = EndOfFile
      /\ \A c \in MapEntries : c # op.cluster => DiskMap'[c] = DiskMap[c]
      /\ \A c \in Clusters : c >= RootCluster => disk'[c] = disk[c]
  BY <1>1, <1>3, LinkWrite
<1>5. OpInv'
  BY <1>1, NoOpTypes DEF OpInv
<1>6. CASE op.req.parent \notin SoundDirs
  <2>1. committed' = committed
    BY <1>6 DEF Commit
  <2>2. TypeOK'
    BY <1>1, <1>2, <1>4, <2>1, NoOpTypes DEF TypeOK
  <2>3. CommittedInv'
    BY <1>2, <1>4, <2>1, FrameCommitted
  <2>4. ChainsDisjoint'
    BY <1>1, <1>2, <2>1, NoOpTypes DEF ChainsDisjoint
  <2>5. QED
    BY <1>4, <1>5, <2>2, <2>3, <2>4 DEF IInv
<1>7. CASE op.req.parent \in SoundDirs
  <2>1. new \notin DOMAIN committed
    BY <1>2, <1>7 DEF OpEntry
  <2>2. committed' = [a \in DOMAIN committed \cup {new} |->
                        IF a = new THEN [req |-> op.req, chain |-> op.chain]
                                   ELSE committed[a]]
    BY <1>7 DEF Commit
  <2>3. /\ new = <<op.req.parent, op.slot>> /\ new[2] = op.slot
        /\ op.req.parent \in Clusters /\ op.slot \in 1 .. TableSize - 1
        /\ op.chain \in Seq(DataClusters) /\ Len(op.chain) >= 1
    BY <1>2, WriteRequestType DEF OpChain
  <2> HIDE DEF new
  <2>4. /\ DOMAIN committed' = DOMAIN committed \cup {new}
        /\ committed'[new] = [req |-> op.req, chain |-> op.chain]
        /\ \A a \in DOMAIN committed : committed'[a] = committed[a] /\ a # new
    BY <2>1, <2>2
  <2>5. committed'[new].req = op.req /\ committed'[new].chain = op.chain
    BY <2>4
  <2>6. TypeOK'
    <3>1. new \in Addresses
      BY <2>3, ZeroSlot DEF Addresses
    <3>2. committed'[new] \in [req : WriteRequests, chain : Seq(DataClusters)]
      BY <1>2, <2>3, <2>4
    <3>3. \A a \in DOMAIN committed' :
                committed'[a] \in [req : WriteRequests,
                                   chain : Seq(DataClusters)]
      BY <1>2, <2>4, <3>2 DEF TypeOK
    <3>4. DOMAIN committed' \subseteq Addresses
      BY <1>2, <2>4, <3>1 DEF TypeOK
    <3>5. QED
      BY <1>1, <1>2, <1>4, <3>3, <3>4, NoOpTypes DEF TypeOK
  <2>7. SoundDirs \subseteq SoundDirs'
    <3>1. ASSUME NEW p \in SoundDirs, p # RootCluster PROVE p \in SoundDirs'
      <4>1. PICK b \in DOMAIN committed : /\ committed[b].req.size = 0
                                          /\ p = committed[b].chain[1]
        BY <3>1 DEF SoundDirs
      <4>2. b \in DOMAIN committed' /\ committed'[b] = committed[b]
        BY <2>4
      <4>3. QED
        BY <4>1, <4>2 DEF SoundDirs
    <3>2. RootCluster \in SoundDirs'
      BY DEF SoundDirs
    <3>3. QED
      BY <3>1, <3>2
  <2>8. CommittedInv'
    <3>1. ASSUME NEW a \in DOMAIN committed
          PROVE  Holds(disk', a[2], committed[a].req, committed[a].chain)
      BY <1>2, <1>4, FrameItems
    <3>2. Holds(disk', op.slot, op.req, op.chain)
      BY <1>4, <1>7, WrittenHolds
    <3>3. ASSUME op.req.size # 0
          PROVE  /\ (Len(op.chain) - 1) * ClusterSize < op.req.size
                 /\ op.req.size =< Len(op.chain) * ClusterSize
      <4>1. /\ op.n = Len(op.chain) - 1 /\ Len(op.chain) = op.n + 1
            /\ op.remaining = op.req.size - op.n * ClusterSize
            /\ op.remaining > 0 /\ op.remaining =< ClusterSize
            /\ op.req.size \in Nat /\ ClusterSize \in Nat
        BY <1>2, <2>3, <3>3, WriteRequestType, GeometryAssumption DEF OpFile
      <4>2. /\ (op.n + 1) * ClusterSize = op.n * ClusterSize + ClusterSize
            /\ op.n * ClusterSize \in Nat
        BY <1>2, <4>1, NextMultiple
      <4>3. op.n * ClusterSize < op.req.size
        BY <4>1, <4>2
      <4>4. op.req.size =< (op.n + 1) * ClusterSize
        BY <4>1, <4>2
      <4>5. QED
        BY <4>1, <4>3, <4>4
    <3>4. op.req.size = 0 => Len(op.chain) = 1
      BY <1>2 DEF OpFolder
    <3>5. ASSUME NEW a \in DOMAIN committed
          PROVE  /\ committed[a].req \in WriteRequests
                 /\ committed[a].chain \in Seq(DataClusters)
                 /\ Len(committed[a].chain) >= 1
                 /\ a = <<committed[a].req.parent, a[2]>>
                 /\ a[2] \in 1 .. TableSize - 1
                 /\ committed[a].req.parent \in SoundDirs'
                 /\ committed[a].req.size = 0 => Len(committed[a].chain) = 1
                 /\ committed[a].req.size # 0 =>
                      /\ (Len(committed[a].chain) - 1) * ClusterSize
                            < committed[a].req.size
                      /\ committed[a].req.size
                            =< Len(committed[a].chain) * ClusterSize
      BY <1>2, <2>7 DEF CommittedInv
    <3>6. new = <<op.req.parent, new[2]>> /\ op.req.parent \in SoundDirs'
      BY <1>7, <2>3, <2>7
    <3>7. QED
      BY <1>2, <2>3, <2>4, <2>5, <3>1, <3>2, <3>3, <3>4, <3>5, <3>6
      DEF CommittedInv
  <2>9. ChainsDisjoint'
    <3>1. ASSUME NEW a \in DOMAIN committed',
                 NEW i \in 1 .. Len(committed'[a].chain),
                 NEW j \in 1 .. Len(op.chain),
                 committed'[a].chain[i] = op.chain[j]
          PROVE  a = new /\ i = j
      <4>1. a = new
        BY <1>2, <2>4, <3>1 DEF ChainsDisjoint
      <4>2. i \in 1 .. Len(op.chain) /\ op.chain[i] = op.chain[j]
        BY <2>5, <3>1, <4>1
      <4>3. QED
        BY <1>2, <4>1, <4>2 DEF OpChain
    <3>2. ASSUME NEW a \in DOMAIN committed', NEW b \in DOMAIN committed',
                 NEW i \in 1 .. Len(committed'[a].chain),
                 NEW j \in 1 .. Len(committed'[b].chain),
                 committed'[a].chain[i] = committed'[b].chain[j]
          PROVE  a = b /\ i = j
      <4>1. CASE b = new
        BY <2>5, <3>1, <3>2, <4>1
      <4>2. CASE a = new
        BY <2>5, <3>1, <3>2, <4>2
      <4>3. CASE a # new /\ b # new
        <5>1. /\ a \in DOMAIN committed /\ committed'[a] = committed[a]
              /\ b \in DOMAIN committed /\ committed'[b] = committed[b]
          BY <2>4, <4>3
        <5>2. QED
          BY <1>2, <3>2, <5>1 DEF ChainsDisjoint
      <4>4. QED
        BY <4>1, <4>2, <4>3
    <3>3. Len(op'.chain) = 0
      BY <1>1, NoOpTypes
    <3>4. \A a \in DOMAIN committed' :
             \A i \in 1 .. Len(committed'[a].chain), j \in 1 .. Len(op'.chain) :
                committed'[a].chain[i] # op'.chain[j]
      BY <3>3
    <3>5. QED
      BY <3>2, <3>4 DEF ChainsDisjoint
  <2>10. QED
    BY <1>4, <1>5, <2>6, <2>8, <2>9 DEF IInv
<1>8. QED
  BY <1>6, <1>7

LEMMA WriteFolderFatStep ==
    ASSUME IInv, WriteFolderFat PROVE IInv' /\ FreeSpaceStep
<1>1. pc = "folderFat" /\ fat = DiskMap
  BY DEF WriteFolderFat, IInv, CacheCoherent
<1>2. op.req.size = 0
  BY <1>1 DEF IInv, OpInv, OpFile, Writing
<1>3. QED
  BY <1>1, <1>2, CommitStep DEF WriteFolderFat

LEMMA WriteLastLinkStep ==
    ASSUME IInv, WriteLastLink PROVE IInv' /\ FreeSpaceStep
  BY CommitStep DEF WriteLastLink, IsLastCluster, DiskMap

LEMMA NextOpType ==
    ASSUME op \in Ops, NEW next \in MapEntries,
           op'.chain \in Seq(DataClusters),
           op' = [req |-> op.req, slot |-> op.slot, cluster |-> next,
                  remaining |-> op.remaining - ClusterSize, n |-> op.n + 1,
                  chain |-> Append(op.chain, next)]
    PROVE  op' \in Ops
<1>1. /\ op.req \in WriteRequests /\ op.slot \in Slots
      /\ op.remaining - ClusterSize \in Int /\ op.n + 1 \in Nat
  BY GeometryAssumption DEF Ops
<1>2. QED
  BY <1>1 DEF Ops

LEMMA WriteNextLinkStep ==
    ASSUME IInv, WriteNextLink PROVE IInv' /\ FreeSpaceStep
<1> DEFINE next == FindNextEmptyCluster(DiskMap, op.cluster)
           len == Len(op.chain)
<1>1. /\ pc = "fileFat" /\ next # 0 /\ pc' = "fileData"
      /\ fat' = [DiskMap EXCEPT ![op.cluster] = next]
      /\ disk' = [disk EXCEPT ![FatCluster] =
                    FatImage([DiskMap EXCEPT ![op.cluster] = next])]
      /\ op' = [req |-> op.req, slot |-> op.slot, cluster |-> next,
                remaining |-> op.remaining - ClusterSize, n |-> op.n + 1,
                chain |-> Append(op.chain, next)]
      /\ UNCHANGED <<reply, committed, outages>>
  BY DEF WriteNextLink, DiskMap
<1>2. pc \in Writing /\ pc' \in Writing
  BY <1>1 DEF Writing
<1>3. /\ TypeOK /\ FormatInv /\ CommittedInv /\ ChainsDisjoint
      /\ OpChain /\ OpFile /\ OpFolder /\ OpEntry
      /\ op.req \in WriteRequests /\ op.n \in Nat /\ op.remaining \in Int
      /\ op.chain \in Seq(DataClusters) /\ len \in Nat /\ len >= 1
      /\ disk[RootCluster] # Zero
  BY <1>2 DEF IInv, OpInv, TypeOK, Ops, OpChain, FormatInv
<1>4. /\ op.cluster \in RootCluster + 1 .. MapSize - 1
      /\ op.cluster \in 2 .. MapSize - 1
  BY <1>3 DEF OpChain, DataClusters, RootCluster
<1>5. next \in op.cluster + 1 .. MapSize - 1 /\ DiskMap[next] = EmptyEntry
  BY <1>1, <1>4, FindNextEmptyClusterResult
<1> HIDE DEF next
<1>6. /\ next \in DataClusters /\ next \in MapEntries /\ next # op.cluster
      /\ next \in FatValues
  BY <1>4, <1>5, GeometryAssumption
  DEF DataClusters, MapEntries, RootCluster, FatValues
<1>7. /\ disk' \in [Clusters -> ClusterContents]
      /\ fat' \in [MapEntries -> FatValues]
      /\ CacheCoherent' /\ FormatInv' /\ FreeSpaceStep
      /\ KeepsUsed(disk, disk')
      /\ DiskMap'[op.cluster] = next
      /\ \A c \in MapEntries : c # op.cluster => DiskMap'[c] = DiskMap[c]
      /\ \A c \in Clusters : c >= RootCluster => disk'[c] = disk[c]
  BY <1>1, <1>2, <1>6, LinkWrite
<1>8. /\ op'.req = op.req /\ op'.slot = op.slot /\ op'.cluster = next
      /\ op'.remaining = op.remaining - ClusterSize /\ op'.n = op.n + 1
      /\ op'.chain = Append(op.chain, next)
  BY <1>1
<1>9. /\ op'.chain \in Seq(DataClusters) /\ Len(op'.chain) = len + 1
      /\ op'.chain[len + 1] = next
      /\ \A i \in 1 .. len : op'.chain[i] = op.chain[i]
  BY <1>3, <1>6, <1>8
<1>10. /\ \A i \in 1 .. len - 1 : op.chain[i] # op.cluster
       /\ op.chain[len] = op.cluster
  <2>1. op.chain[len] = op.cluster
    BY <1>3 DEF OpChain
  <2>2. \A i, j \in 1 .. len : op.chain[i] = op.chain[j] => i = j
    BY <1>3 DEF OpChain
  <2>3. ASSUME NEW i \in 1 .. len - 1 PROVE op.chain[i] # op.cluster
    <3>1. i \in 1 .. len /\ len \in 1 .. len /\ i # len
      BY <1>3
    <3>2. QED
      BY <2>1, <2>2, <3>1
  <2>4. QED
    BY <2>1, <2>3
<1>11. \A i \in 1 .. len : op.chain[i] # next
  <2>1. ASSUME NEW i \in 1 .. len - 1 PROVE op.chain[i] # next
    <3>1. DiskMap[op.chain[i]] = op.chain[i + 1] /\ op.chain[i + 1] \in DataClusters
      BY <1>3 DEF OpChain
    <3>2. op.chain[i + 1] # EmptyEntry
      BY <3>1 DEF DataClusters, RootCluster, EmptyEntry
    <3>3. QED
      BY <1>5, <3>1, <3>2
  <2>2. QED
    BY <1>3, <1>6, <1>10, <2>1
<1>12. \A i \in 1 .. len : op.chain[i] \in MapEntries /\ op.chain[i] \in Clusters
                           /\ op.chain[i] >= RootCluster
  BY <1>3, DataClustersAreClusters
<1>13. committed' = committed /\ SoundDirs' = SoundDirs
  BY <1>1 DEF SoundDirs
<1>14. op' \in Ops
  BY <1>1, <1>2, <1>3, <1>6, <1>9, NextOpType DEF TypeOK
<1>15. TypeOK'
  <2>1. op' # NoOp
    BY <1>6, <1>8 DEF NoOp, DataClusters, RootCluster
  <2>2. QED
    BY <1>1, <1>2, <1>3, <1>7, <1>14, <2>1, NoOpTypes DEF TypeOK
<1>16. CommittedInv'
  BY <1>1, <1>3, <1>7, FrameCommitted
<1>17. OpChain'
  <2>1. DiskMap'[next] = EmptyEntry
    BY <1>5, <1>6, <1>7
  <2>2. ASSUME NEW i \in 1 .. len PROVE DiskMap'[op'.chain[i]] = op'.chain[i + 1]
    <3>1. CASE i = len
      BY <1>7, <1>9, <1>10, <3>1
    <3>2. CASE i # len
      <4>1. i \in 1 .. len - 1 /\ i + 1 \in 1 .. len
        BY <1>3, <3>2
      <4>2. DiskMap[op.chain[i]] = op.chain[i + 1]
        BY <1>3, <4>1 DEF OpChain
      <4>3. QED
        BY <1>7, <1>9, <1>10, <1>12, <4>1, <4>2
    <3>3. QED
      BY <3>1, <3>2
  <2>3. ASSUME NEW i \in 1 .. len + 1, NEW j \in 1 .. len + 1,
               op'.chain[i] = op'.chain[j]
        PROVE  i = j
    <3>1. CASE i \in 1 .. len /\ j \in 1 .. len
      BY <1>3, <1>9, <2>3, <3>1 DEF OpChain
    <3>2. CASE i = len + 1 /\ j \in 1 .. len
      BY <1>9, <1>11, <2>3, <3>2
    <3>3. CASE j = len + 1 /\ i \in 1 .. len
      BY <1>9, <1>11, <2>3, <3>3
    <3>4. CASE i = len + 1 /\ j = len + 1
      BY <3>4
    <3>5. (i = len + 1 \/ i \in 1 .. len) /\ (j = len + 1 \/ j \in 1 .. len)
      BY <1>3
    <3>6. QED
      BY <3>1, <3>2, <3>3, <3>4, <3>5
  <2>4. op'.slot \in 1 .. TableSize - 1 /\ op'.cluster \in DataClusters
    BY <1>3, <1>6, <1>8 DEF OpChain
  <2>5. /\ Len(op'.chain) >= 1 /\ Len(op'.chain) - 1 = len
        /\ op'.cluster = op'.chain[Len(op'.chain)]
    BY <1>3, <1>8, <1>9
  <2>6. QED
    BY <1>8, <1>9, <2>1, <2>2, <2>3, <2>4, <2>5 DEF OpChain
<1>18. op.req.size # 0
  BY <1>1, <1>3 DEF OpFolder
<1>19. OpFolder'
  BY <1>8, <1>18 DEF OpFolder
<1>20. OpFile'
  <2>1. /\ op.n = len - 1
        /\ op.remaining = op.req.size - op.n * ClusterSize
        /\ disk[op.cluster] = Text(op.req.data, op.n)
        /\ \A i \in 1 .. op.n : disk[op.chain[i]] = Text(op.req.data, i - 1)
    BY <1>1, <1>3, <1>18 DEF OpFile
  <2>2. ~(op.remaining =< ClusterSize)
    BY DEF WriteNextLink, IsLastCluster
  <2>3. /\ (op.n + 1) * ClusterSize = op.n * ClusterSize + ClusterSize
        /\ op.n * ClusterSize \in Nat
    BY <1>3, GeometryAssumption, NextMultiple
  <2>4. op'.remaining > 0 /\ op'.remaining = op'.req.size - op'.n * ClusterSize
    <3>1. op.req.size \in Nat /\ ClusterSize \in Nat
      BY <1>3, WriteRequestType, GeometryAssumption
    <3>2. op.remaining - ClusterSize > 0
      BY <1>3, <2>2, <3>1
    <3>3. op.remaining - ClusterSize
            = op.req.size - (op.n + 1) * ClusterSize
      BY <2>1, <2>3, <3>1
    <3>4. QED
      BY <1>8, <3>2, <3>3
  <2>5. op'.n = Len(op'.chain) - 1
    BY <1>3, <1>8, <1>9, <2>1
  <2>6. ASSUME NEW i \in 1 .. op'.n
        PROVE  disk'[op'.chain[i]] = Text(op'.req.data, i - 1)
    <3>1. i \in 1 .. len
      BY <1>3, <1>8, <2>1
    <3>2. disk'[op'.chain[i]] = disk[op.chain[i]]
      BY <1>7, <1>9, <1>12, <3>1
    <3>3. CASE i = len
      <4>1. disk'[op'.chain[i]] = Text(op.req.data, op.n)
        BY <1>10, <2>1, <3>2, <3>3
      <4>2. op.n = i - 1
        BY <2>1, <3>3
      <4>3. QED
        BY <1>8, <4>1, <4>2
    <3>4. CASE i # len
      <4>1. i \in 1 .. op.n
        BY <1>3, <2>1, <3>1, <3>4
      <4>2. QED
        BY <1>8, <2>1, <3>2, <4>1
    <3>5. QED
      BY <3>3, <3>4
  <2>7. QED
    BY <1>1, <2>4, <2>5, <2>6, Zenon DEF OpFile
<1>21. OpEntry'
  <2>1. ASSUME op.req.parent \in SoundDirs
        PROVE  disk'[op.req.parent] = disk[op.req.parent]
    BY <1>3, <1>7, <2>1, SoundDirInUse, MapEntriesAreClusters
  <2>2. op'.chain[1] = op.chain[1]
    BY <1>3, <1>9
  <2>3. QED
    BY <1>3, <1>8, <1>13, <2>1, <2>2 DEF OpEntry
<1>22. ChainsDisjoint'
  <2>1. ASSUME NEW a \in DOMAIN committed,
               NEW i \in 1 .. Len(committed[a].chain), NEW j \in 1 .. len + 1
        PROVE  committed[a].chain[i] # op'.chain[j]
    <3>1. CASE j \in 1 .. len
      BY <1>3, <1>9, <3>1 DEF ChainsDisjoint
    <3>2. CASE j = len + 1
      BY <1>3, <1>5, <1>9, <3>2, CommittedChainInUse
    <3>3. QED
      BY <1>3, <3>1, <3>2
  <2>2. QED
    <3>1. \A a \in DOMAIN committed' :
             \A i \in 1 .. Len(committed'[a].chain),
                j \in 1 .. Len(op'.chain) :
                   committed'[a].chain[i] # op'.chain[j]
      BY <1>9, <1>13, <2>1
    <3>2. \A a, b \in DOMAIN committed' :
             \A i \in 1 .. Len(committed'[a].chain),
                j \in 1 .. Len(committed'[b].chain) :
                   committed'[a].chain[i] = committed'[b].chain[j]
                      => a = b /\ i = j
      BY <1>3, <1>13 DEF ChainsDisjoint
    <3>3. QED
      BY <3>1, <3>2 DEF ChainsDisjoint
<1>23. QED
  BY <1>7, <1>15, <1>16, <1>17, <1>19, <1>20, <1>21, <1>22 DEF IInv, OpInv

-----------------------------------------------------------------------------
(* The invariant is inductive.                                             *)

LEMMA InitIInv == Init => IInv
<1> SUFFICES ASSUME Init PROVE IInv
  OBVIOUS
<1>1. /\ disk = [c \in Clusters |-> Zero] /\ fat = ZeroMap /\ pc = "off"
      /\ op = NoOp /\ reply = NoReply /\ outages = 0
      /\ DOMAIN committed = {}
  BY DEF Init
<1>2. /\ disk \in [Clusters -> ClusterContents]
      /\ \A c \in Clusters : disk[c] = Zero
  BY <1>1, ContentsTypes
<1>3. TypeOK
  BY <1>1, <1>2, ZeroMapType, NoOpTypes, ReplyType, RequestAssumption
  DEF TypeOK
<1>4. CacheCoherent /\ CommittedInv /\ ChainsDisjoint /\ OpInv
  BY <1>1, NoOpTypes DEF CacheCoherent, CommittedInv, ChainsDisjoint, OpInv
<1>5. FormatInv
  BY <1>1, <1>2, FatClusterIsCluster, NoOpTypes
  DEF FormatInv, LayoutKept, Zero
<1>6. QED
  BY <1>3, <1>4, <1>5 DEF IInv

LEMMA StutterStep ==
    ASSUME IInv, UNCHANGED vars PROVE IInv' /\ FreeSpaceStep
<1>1. UNCHANGED <<disk, fat, pc, op, reply, committed, outages>>
  BY DEF vars
<1>2. TypeOK' /\ CacheCoherent' /\ ChainsDisjoint'
  BY <1>1 DEF IInv, TypeOK, CacheCoherent, DiskMap, ChainsDisjoint
<1>3. FormatInv'
  BY <1>1 DEF IInv, FormatInv, LayoutKept, DiskMap
<1>4. CommittedInv'
  BY <1>1 DEF IInv, CommittedInv, SoundDirs
<1>5. OpInv'
  BY <1>1
  DEF IInv, OpInv, OpChain, OpFolder, OpFile, OpEntry, DiskMap, SoundDirs
<1>6. FreeSpaceStep
  BY <1>1, SameDiskKeeps, FrameFreeSpace DEF IInv
<1>7. QED
  BY <1>2, <1>3, <1>4, <1>5, <1>6 DEF IInv

LEMMA NextStep == ASSUME IInv, [Next]_vars PROVE IInv' /\ FreeSpaceStep
<1>1. CASE Mount
  BY <1>1, MountStep
<1>2. CASE FormatBoot
  BY <1>2, FormatBootStep
<1>3. CASE FormatStep
  BY <1>3, FormatFatStep, FormatRootStep DEF FormatStep
<1>4. CASE WriteStep
  BY <1>4, WriteFolderTableStep, WriteFolderFatStep, WriteFileDataStep,
     WriteLastLinkStep, WriteNextLinkStep, WriteNoSpaceStep DEF WriteStep
<1>5. CASE \E r \in WriteRequests : StartWrite(r) \/ RejectWrite(r)
  BY <1>5, StartWriteStep, RejectWriteStep
<1>6. CASE \E r \in ReadRequests : Read(r) \/ ReadDirectory(r)
  BY <1>6, ReadStep
<1>7. CASE Crash
  BY <1>7, CrashStep
<1>8. CASE UNCHANGED vars
  BY <1>8, StutterStep
<1>9. QED
  BY <1>1, <1>2, <1>3, <1>4, <1>5, <1>6, <1>7, <1>8 DEF Next

\* The inductive invariant holds in every reachable state.
THEOREM InductiveInvariant == Spec => []IInv
<1>1. IInv /\ [Next]_vars => IInv'
  BY NextStep
<1>2. QED
  BY InitIInv, <1>1, PTL DEF Spec

-----------------------------------------------------------------------------
(* What is durable: the part of the invariant that is about the disk. It   *)
(* is what the next start, or the next call, finds.                        *)

\* SoundDirs, of what com says is stored.
Sound(com) ==
    {RootCluster} \cup
    {com[a].chain[1] : a \in {b \in DOMAIN com : com[b].req.size = 0}}

\* Formatting has put its pieces on disk d in their order, or not at all.
FormattedInOrder(d) ==
    /\ d[BootSector] \in {Zero, Signature}
    /\ d[FatCluster].kind \in {"zero", "fat"}
    /\ d[FatCluster] # Zero =>
          /\ d[BootSector] = Signature
          /\ \A c \in {FatCluster, RootCluster} :
                AsFat(d[FatCluster])[c] = FormattedMap[c]
    /\ (\E c \in Clusters : c >= RootCluster /\ d[c] # Zero) =>
          /\ d[BootSector] = Signature
          /\ d[FatCluster] # Zero
          /\ AsTable(d[RootCluster])[0] = RootTable[0]

\* Disk d holds what com says is stored.
StoredOn(d, com) ==
    \A a \in DOMAIN com :
        LET r == com[a].req
            chain == com[a].chain
        IN  /\ r \in WriteRequests
            /\ chain \in Seq(DataClusters) /\ Len(chain) >= 1
            /\ a = <<r.parent, a[2]>> /\ a[2] \in 1 .. TableSize - 1
            /\ r.parent \in Sound(com)
            /\ r.size = 0 => Len(chain) = 1
            /\ r.size # 0 => /\ (Len(chain) - 1) * ClusterSize < r.size
                             /\ r.size =< Len(chain) * ClusterSize
            /\ Holds(d, a[2], r, chain)

Disjoint(com) ==
    \A a, b \in DOMAIN com :
        \A i \in 1 .. Len(com[a].chain), j \in 1 .. Len(com[b].chain) :
            com[a].chain[i] = com[b].chain[j] => a = b /\ i = j

Durable(d, com) ==
    /\ d \in [Clusters -> ClusterContents]
    /\ DOMAIN com \subseteq Addresses
    /\ \A a \in DOMAIN com :
            com[a] \in [req : WriteRequests, chain : Seq(DataClusters)]
    /\ FormattedInOrder(d)
    /\ StoredOn(d, com)
    /\ Disjoint(com)

LEMMA DiskIsDurable == ASSUME IInv PROVE Durable(disk, committed)
<1>1. FormattedInOrder(disk)
  BY DEF IInv, FormatInv, LayoutKept, FormattedInOrder, DiskMap
<1>2. StoredOn(disk, committed)
  BY DEF IInv, CommittedInv, StoredOn, Sound, SoundDirs
<1>3. Disjoint(committed)
  BY DEF IInv, ChainsDisjoint, Disjoint
<1>4. QED
  BY <1>1, <1>2, <1>3 DEF IInv, TypeOK, Durable

\* The driver can start and go on from whatever is durable.
LEMMA DriverStarts ==
    ASSUME Durable(disk', committed'), op' = NoOp,
           pc' = "off" \/ (pc' = "idle" /\ fat' = AsFat(disk'[FatCluster])),
           fat' \in [MapEntries -> FatValues], reply' \in Replies,
           outages' \in 0 .. MaxOutages
    PROVE  IInv'
<1>1. TypeOK'
  BY NoOpTypes DEF Durable, TypeOK
<1>2. CacheCoherent' /\ OpInv'
  BY NoOpTypes DEF CacheCoherent, OpInv, DiskMap
<1>3. FormatInv'
  BY NoOpTypes
  DEF Durable, FormattedInOrder, FormatInv, LayoutKept, DiskMap
<1>4. CommittedInv'
  BY DEF Durable, StoredOn, Sound, CommittedInv, SoundDirs
<1>5. ChainsDisjoint'
  BY NoOpTypes DEF Durable, Disjoint, ChainsDisjoint
<1>6. QED
  BY <1>1, <1>2, <1>3, <1>4, <1>5 DEF IInv

-----------------------------------------------------------------------------
(* What the runs check, for every value of the constants.                  *)

\* Every variable keeps its shape: no step takes a cluster number past the
\* FAT, a slot past its table or a reply outside the documented codes.
THEOREM TypeCorrect == Spec => []TypeOK
<1>1. IInv => TypeOK
  BY DEF IInv
<1>2. QED
  BY InductiveInvariant, <1>1, PTL

\* Whenever the volume is mounted, the FAT in RAM that the first cluster of
\* a write() is taken from is the FAT on disk that the others are taken from.
THEOREM CacheIsCoherent == Spec => []CacheCoherent
<1>1. IInv => CacheCoherent
  BY DEF IInv
<1>2. QED
  BY InductiveInvariant, <1>1, PTL

LEMMA LayoutIsReserved ==
    ASSUME LayoutKept, BootEntryKept PROVE ReservedKept
<1>1. disk[FatCluster] # Zero =>
         DiskMap[BootSector] = FormattedMap[BootSector]
  BY FormattedMapValues DEF BootEntryKept
<1>2. QED
  BY <1>1 DEF LayoutKept, ReservedKept

LEMMA BootEntryStep ==
    ASSUME IInv, BootEntryKept, [Next]_vars, FreeSpaceStep
    PROVE  BootEntryKept'
<1>1. FatCluster \in Clusters /\ RootCluster \in Clusters
      /\ FatCluster # BootSector /\ FatCluster # RootCluster
      /\ disk \in [Clusters -> ClusterContents]
  BY FatClusterIsCluster
  DEF FatCluster, BootSector, RootCluster, IInv, TypeOK
<1>2. CASE disk'[FatCluster] = disk[FatCluster]
  BY <1>2 DEF BootEntryKept, DiskMap
<1>3. CASE pc \in Writing
  <2>1. BootSector \in MapEntries
    BY GeometryAssumption DEF BootSector, MapEntries, RootCluster
  <2>2. DiskMap'[BootSector] # DiskMap[BootSector] =>
            DiskMap[BootSector] = EmptyEntry
    BY <1>3, <2>1 DEF FreeSpaceStep
  <2>3. disk[FatCluster] # Zero
    BY <1>1, <1>3, FormattedFacts DEF IInv, FormatInv, RootCluster
  <2>4. QED
    BY <2>2, <2>3 DEF BootEntryKept, EmptyEntry, Cluster0Value
<1>4. CASE FormatFat
  <2>1. disk'[FatCluster] = FatImage(FormattedMap)
    BY <1>1, <1>4 DEF IInv, FormatInv, FormatFat
  <2>2. QED
    BY <2>1, AsFatOfImage, FormattedMapValues DEF BootEntryKept, DiskMap
<1>5. CASE FormatBoot \/ FormatRoot
  BY <1>1, <1>2, <1>5 DEF FormatBoot, FormatRoot
<1>6. ASSUME NEW r \in WriteRequests, StartWrite(r) PROVE BootEntryKept'
  <2>1. r.parent # FatCluster
    BY <1>6 DEF StartWrite, ValidateWrite, FatCluster
  <2>2. QED
    BY <1>1, <1>2, <1>6, <2>1 DEF StartWrite
<1>7. CASE UNCHANGED disk
  BY <1>2, <1>7
<1>8. QED
  BY <1>3, <1>4, <1>5, <1>6, <1>7
  DEF Next, FormatStep, WriteStep, Mount, Crash, RejectWrite, WriteFolderTable,
      WriteFolderFat, WriteFileData, WriteLastLink, WriteNextLink,
      WriteNoSpace, Read, ReadDirectory, vars, Writing

\* The signature, the reserved FAT entries and the root directory are
\* written before anything else and never lost, whenever the power fails.
THEOREM ReservedIsKept == Spec => []ReservedKept
<1>1. Init => BootEntryKept
  BY FatClusterIsCluster DEF Init, BootEntryKept
<1>2. IInv /\ BootEntryKept /\ [Next]_vars => BootEntryKept'
  BY NextStep, BootEntryStep
<1>3. IInv /\ BootEntryKept => ReservedKept
  BY LayoutIsReserved DEF IInv, FormatInv
<1>4. QED
  BY InductiveInvariant, <1>1, <1>2, <1>3, PTL DEF Spec

\* No cluster is ever given to two files or folders, or twice to one.
THEOREM ChainsAreDisjoint == Spec => []ChainsDisjoint
<1>1. IInv => ChainsDisjoint
  BY DEF IInv
<1>2. QED
  BY InductiveInvariant, <1>1, PTL

LEMMA StoredIsIntact ==
    ASSUME NEW com, StoredOn(disk, com),
           NEW a \in DOMAIN com, com[a] = committed[a]
    PROVE  Intact(a)
<1> DEFINE r == committed[a].req
           chain == committed[a].chain
<1>1. /\ a[1] = r.parent
      /\ r.size = 0 => Len(chain) = 1
      /\ r.size # 0 => /\ (Len(chain) - 1) * ClusterSize < r.size
                       /\ r.size =< Len(chain) * ClusterSize
      /\ Holds(disk, a[2], r, chain)
  BY DEF StoredOn
<1>2. QED
  BY <1>1 DEF Holds, EntryHolds, IsFolderNamed, Linked, DiskMap, EntryAt, Intact

LEMMA CommittedIsIntact == ASSUME IInv PROVE CommittedIntact
  BY DiskIsDurable, StoredIsIntact DEF Durable, CommittedIntact

\* What write() has returned success for stays on the disk as it was
\* written, whatever calls and power failures come later.
THEOREM CommittedStaysIntact == Spec => []CommittedIntact
<1>1. IInv => CommittedIntact
  BY CommittedIsIntact
<1>2. QED
  BY InductiveInvariant, <1>1, PTL

\* Once formatting is over, no step changes a cluster or a FAT entry that is
\* in use, but to add an entry to an empty slot of a directory.
THEOREM FreeSpaceOnly == Spec => OnlyFreeSpaceChanges
<1>1. IInv /\ [Next]_vars => FreeSpaceStep
  BY NextStep
<1>2. QED
  BY InductiveInvariant, <1>1, PTL DEF Spec, OnlyFreeSpaceChanges

=============================================================================
