------------------------- MODULE Fat32NamesProofs -------------------------
(***************************************************************************)
(* Proofs that names find what was written under them: Fat32.NamesUnique   *)
(* and Fat32.Readable, for every geometry, every set of requests and any   *)
(* number of power failures.                                               *)
(*                                                                         *)
(* validateWrite() keeps names unique by a lookup whose result 0 means     *)
(* both "no entry matches" and "slot 0 matches", and the extension of a    *)
(* folder's entry is whatever the slot held before. What makes it work all *)
(* the same: a slot that was never used holds the extension of slot 0, so  *)
(* an entry that a lookup misses because slot 0 comes first has a name     *)
(* that is the directory's own.                                            *)
(***************************************************************************)
EXTENDS Fat32Proofs

-----------------------------------------------------------------------------
(* The invariant.                                                          *)

\* An entry that a request for the same file or folder would have written.
EntryMatches(r, e) ==
    IF r.size = 0 THEN NameMatches(r, e) /\ e.attribute = Subdirectory
                  ELSE FileMatches(r, e)

\* Slots not in use have the extension of slot 0: nothing but write_entry()
\* changes an extension.
UniformTable(t) ==
    \A s \in Slots : t[s].user_attribute # NotEmpty => t[s].ext = t[0].ext

UniformInv == \A c \in Clusters : UniformTable(AsTable(disk[c]))

\* The only slot of table t that matches r is the given one.
OnlyMatch(t, r, slot) == \A s \in Slots : EntryMatches(r, t[s]) => s = slot

UniqueInv ==
    \A a \in DOMAIN committed :
        LET r == committed[a].req
        IN  ~NamesOwnDirectory(r) =>
                OnlyMatch(AsTable(disk[r.parent]), r, a[2])

OpUnique ==
    pc \in Writing /\ op.req.parent \in SoundDirs
        /\ ~NamesOwnDirectory(op.req) =>
            OnlyMatch(AsTable(disk[op.req.parent]), op.req, op.slot)

NInv == UniformInv /\ UniqueInv /\ OpUnique


-----------------------------------------------------------------------------
(* Tables.                                                                 *)

\* What validateWrite() takes for the requested file or folder.
TakenFor(r, e) == IF r.size = 0 THEN NameMatches(r, e) ELSE FileMatches(r, e)

\* What is read as something else than a table has one entry in every slot.
LEMMA UniformIfNoTable ==
    ASSUME NEW x, x.kind # "dir"
    PROVE  UniformTable(AsTable(x))
  BY ZeroSlot DEF AsTable, UniformTable

LEMMA UniformAfterInit ==
    ASSUME NEW t \in [Slots -> Entries], UniformTable(t),
           NEW name \in Names, NEW parent \in Clusters
    PROVE  UniformTable(InitDirectoryTable(t, name, parent))
<1> DEFINE i == InitDirectoryTable(t, name, parent)
<1>1. /\ i[0].ext = t[0].ext /\ i[0].user_attribute = NotEmpty
      /\ \A s \in Slots : s # 0 => i[s] = t[s]
  BY ZeroSlot DEF InitDirectoryTable
<1> HIDE DEF i
<1>2. QED
  BY <1>1 DEF UniformTable, i

LEMMA UniformRoot == UniformTable(RootTable)
<1> DEFINE z == [s \in Slots |-> ZeroEntry]
<1>1. z \in [Slots -> Entries] /\ UniformTable(z)
  BY ZeroEntryType, ZeroSlot DEF UniformTable
<1>2. QED
  BY <1>1, UniformAfterInit, FatClusterIsCluster, RequestAssumption
  DEF RootTable

\* What write_entry() puts in the slot, and that it leaves the others alone.
LEMMA WrittenEntry ==
    ASSUME NEW t \in [Slots -> Entries], NEW r \in WriteRequests,
           NEW c \in MapEntries, NEW slot \in 1 .. TableSize - 1
    PROVE  LET w == WriteEntry(r, t, c, slot)
           IN  /\ w[slot].name = r.name
               /\ w[slot].ext = IF r.size = 0 THEN t[slot].ext ELSE r.ext
               /\ w[slot].attribute = IF r.size = 0 THEN Subdirectory ELSE 0
               /\ w[slot].user_attribute = NotEmpty
               /\ \A s \in Slots : s # slot => w[s] = t[s]
  BY ZeroSlot DEF WriteEntry

LEMMA UniformAfterWrite ==
    ASSUME NEW t \in [Slots -> Entries], UniformTable(t),
           NEW r \in WriteRequests, NEW c \in MapEntries,
           NEW slot \in 1 .. TableSize - 1
    PROVE  UniformTable(WriteEntry(r, t, c, slot))
<1> DEFINE w == WriteEntry(r, t, c, slot)
<1>1. /\ w[slot].user_attribute = NotEmpty
      /\ \A s \in Slots : s # slot => w[s] = t[s]
  BY WrittenEntry
<1>2. w[0] = t[0]
  BY WriteEntryResult
<1> HIDE DEF w
<1>3. QED
  BY <1>1, <1>2 DEF UniformTable, w

\* A lookup that returns 0 has hit slot 0 or nothing.
LEMMA MissedByLookup ==
    ASSUME NEW t, NEW r, ~(IsExist(r, t) > 0),
           NEW s \in Slots, TakenFor(r, t[s])
    PROVE  TakenFor(r, t[0])
<1> DEFINE S == {i \in Slots : TakenFor(r, t[i])}
<1>1. S \subseteq Nat /\ S # {}
  BY GeometryAssumption DEF Slots
<1>2. First(S) \in S
  BY <1>1, FirstHit
<1>3. S = {i \in Slots : IF r.size = 0 THEN NameMatches(r, t[i])
                                       ELSE FileMatches(r, t[i])}
  BY DEF TakenFor
<1>4. IsExist(r, t) = First(S)
  BY <1>1, <1>3 DEF IsExist, FirstOr0
<1>5. First(S) \in Nat
  BY <1>1, <1>2
<1>6. First(S) = 0
  BY <1>4, <1>5
<1>7. QED
  BY <1>2, <1>6

\* The entry that StartWrite adds is not one for a name already written.
LEMMA NameStaysUnique ==
    ASSUME NEW t \in [Slots -> Entries], UniformTable(t),
           NEW r \in WriteRequests, ~(IsExist(r, t) > 0),
           NEW c \in MapEntries, NEW slot \in 1 .. TableSize - 1,
           t[slot].user_attribute # NotEmpty,
           NEW q \in WriteRequests, NEW other \in 1 .. TableSize - 1,
           NEW d, EntryHolds(t, other, q, d),
           ~TakenFor(q, t[0]), OnlyMatch(t, q, other)
    PROVE  OnlyMatch(WriteEntry(r, t, c, slot), q, other)
<1> DEFINE w == WriteEntry(r, t, c, slot)
<1>1. /\ w[slot].name = r.name
      /\ w[slot].ext = IF r.size = 0 THEN t[slot].ext ELSE r.ext
      /\ w[slot].attribute = IF r.size = 0 THEN Subdirectory ELSE 0
      /\ \A s \in Slots : s # slot => w[s] = t[s]
  BY WrittenEntry
<1>2. slot \in Slots /\ other \in Slots /\ t[slot].ext = t[0].ext
  BY ZeroSlot DEF UniformTable
<1>3. /\ t[other].name = q.name
      /\ q.size = 0 => t[other].attribute = Subdirectory
      /\ q.size # 0 => t[other].ext = q.ext
  BY DEF EntryHolds
<1> HIDE DEF w
<1>4. ASSUME EntryMatches(q, w[slot]) PROVE FALSE
  <2>1. r.name = q.name
    BY <1>1, <1>4 DEF EntryMatches, NameMatches, FileMatches
  <2>2. CASE q.size = 0
    <3>1. r.size = 0
      BY <1>1, <1>4, <2>2 DEF EntryMatches, Subdirectory
    <3>2. TakenFor(r, t[other])
      BY <1>3, <2>1, <3>1 DEF TakenFor, NameMatches
    <3>3. TakenFor(r, t[0])
      BY <1>2, <3>2, MissedByLookup
    <3>4. QED
      BY <2>1, <2>2, <3>1, <3>3 DEF TakenFor, NameMatches
  <2>3. CASE q.size # 0
    <3>1. w[slot].ext = q.ext
      BY <1>4, <2>3 DEF EntryMatches, FileMatches
    <3>2. TakenFor(r, t[other])
      BY <1>1, <1>3, <2>1, <2>3, <3>1
      DEF TakenFor, NameMatches, FileMatches
    <3>3. TakenFor(r, t[0])
      BY <1>2, <3>2, MissedByLookup
    <3>4. t[0].name = q.name /\ t[0].ext = q.ext
      BY <1>1, <1>2, <2>1, <3>1, <3>3
      DEF TakenFor, NameMatches, FileMatches
    <3>5. QED
      BY <2>3, <3>4 DEF TakenFor, FileMatches
  <2>4. QED
    BY <2>2, <2>3
<1>5. QED
  BY <1>1, <1>4 DEF OnlyMatch, w

\* Nor is there another entry for the name it is written under.
LEMMA NewNameIsUnique ==
    ASSUME NEW t \in [Slots -> Entries],
           NEW r \in WriteRequests, ~(IsExist(r, t) > 0),
           NEW c \in MapEntries, NEW slot \in 1 .. TableSize - 1,
           ~TakenFor(r, t[0])
    PROVE  OnlyMatch(WriteEntry(r, t, c, slot), r, slot)
<1>1. \A s \in Slots : s # slot => WriteEntry(r, t, c, slot)[s] = t[s]
  BY WrittenEntry
<1>2. \A s \in Slots : ~TakenFor(r, t[s])
  BY MissedByLookup
<1>3. QED
  BY <1>1, <1>2 DEF OnlyMatch, EntryMatches, TakenFor

-----------------------------------------------------------------------------
(* The steps.                                                              *)

\* Whether a request is for the directory's own name depends on slot 0.
LEMMA OwnNameInSlot0 ==
    \A r : NamesOwnDirectory(r) <=> TakenFor(r, AsTable(disk[r.parent])[0])
  BY DEF NamesOwnDirectory, TakenFor

LEMMA UniformStep ==
    ASSUME TypeOK, UniformInv, NEW c \in Clusters, NEW x,
           UniformTable(AsTable(x)), disk' = [disk EXCEPT ![c] = x]
    PROVE  UniformInv'
<1>1. disk'[c] = x /\ \A b \in Clusters : b # c => disk'[b] = disk[b]
  BY DEF TypeOK
<1>2. QED
  BY <1>1 DEF UniformInv

\* Outside a write() there is nothing to show but for what is committed.
LEMMA UniqueFrame ==
    ASSUME UniqueInv, committed' = committed,
           \A a \in DOMAIN committed : disk'[committed[a].req.parent] =
                                            disk[committed[a].req.parent]
    PROVE  UniqueInv'
  BY DEF UniqueInv, NamesOwnDirectory

LEMMA QuietNames ==
    ASSUME NInv, UNCHANGED <<disk, committed>>, pc' \notin Writing
    PROVE  NInv'
<1>1. UniformInv'
  BY DEF NInv, UniformInv
<1>2. UniqueInv'
  BY UniqueFrame DEF NInv
<1>3. OpUnique'
  BY DEF OpUnique
<1>4. QED
  BY <1>1, <1>2, <1>3 DEF NInv

\* Formatting: nothing is committed yet.
LEMMA FormatNames ==
    ASSUME TypeOK, NInv, DOMAIN committed = {}, committed' = committed,
           pc' \notin Writing,
           NEW c \in Clusters, NEW x, UniformTable(AsTable(x)),
           disk' = [disk EXCEPT ![c] = x]
    PROVE  NInv'
<1>1. UniformInv'
  BY UniformStep DEF NInv
<1>2. UniqueInv' /\ OpUnique'
  BY DEF UniqueInv, OpUnique
<1>3. QED
  BY <1>1, <1>2 DEF NInv

LEMMA FormatStepNames ==
    ASSUME IInv, NInv, FormatBoot \/ FormatFat \/ FormatRoot PROVE NInv'
<1>1. ASSUME \A c \in Clusters : c >= RootCluster => disk[c] = Zero
      PROVE  DOMAIN committed = {}
  BY <1>1, NothingCommitted DEF IInv
<1>2. DOMAIN committed = {}
  BY <1>1 DEF IInv, FormatInv, LayoutKept, FormatBoot, FormatFat,
              FormatRoot, IsEmptyStorage
<1>3. TypeOK /\ BootSector \in Clusters /\ FatCluster \in Clusters
      /\ RootCluster \in Clusters
  BY FatClusterIsCluster DEF IInv
<1>4. CASE FormatBoot
  <2>1. UniformTable(AsTable(Signature))
    BY UniformIfNoTable DEF Signature
  <2>2. QED
    BY <1>2, <1>3, <1>4, <2>1, FormatNames DEF FormatBoot, Writing
<1>5. CASE FormatFat
  <2>1. UniformTable(AsTable(FatImage(fat)))
    BY UniformIfNoTable DEF FatImage
  <2>2. QED
    BY <1>2, <1>3, <1>5, <2>1, FormatNames DEF FormatFat, Writing
<1>6. CASE FormatRoot
  <2>1. UniformTable(AsTable(DirImage(RootTable)))
    BY UniformRoot, AsTableOfDir
  <2>2. QED
    BY <1>2, <1>3, <1>6, <2>1, FormatNames DEF FormatRoot, Writing
<1>7. QED
  BY <1>4, <1>5, <1>6

\* A write() in progress writes the FAT and its own cluster, which are no
\* directories that anything is committed in.
LEMMA SoundDirsElsewhere ==
    ASSUME IInv, pc \in Writing, NEW p \in SoundDirs
    PROVE  p \in Clusters /\ p # FatCluster /\ p # op.cluster
<1>1. disk[RootCluster] # Zero /\ DiskMap[op.cluster] = EmptyEntry
  BY DEF IInv, FormatInv, OpInv, OpChain
<1>2. Used(disk, p) /\ p \in MapEntries /\ p >= RootCluster
  BY <1>1, SoundDirInUse DEF IInv
<1>3. QED
  BY <1>1, <1>2, MapEntriesAreClusters
  DEF Used, DiskMap, FatCluster, RootCluster

LEMMA WritingFrame ==
    ASSUME IInv, NInv, pc \in Writing, NEW c \in {FatCluster, op.cluster},
           NEW x, UniformTable(AsTable(x)), disk' = [disk EXCEPT ![c] = x]
    PROVE  UniformInv' /\ \A p \in SoundDirs : disk'[p] = disk[p]
<1>1. TypeOK /\ c \in Clusters
  BY FatClusterIsCluster, DataClustersAreClusters DEF IInv, OpInv, OpChain
<1>2. UniformInv'
  BY <1>1, UniformStep DEF NInv
<1>3. \A p \in SoundDirs : disk'[p] = disk[p]
  BY <1>1, SoundDirsElsewhere DEF TypeOK
<1>4. QED
  BY <1>2, <1>3

LEMMA CommittedInSoundDirs ==
    ASSUME IInv, NEW a \in DOMAIN committed
    PROVE  committed[a].req.parent \in SoundDirs
  BY DEF IInv, CommittedInv

\* The call goes on.
LEMMA WritingNames ==
    ASSUME IInv, NInv, pc \in Writing, committed' = committed,
           UniformInv', \A p \in SoundDirs : disk'[p] = disk[p],
           op'.req = op.req, op'.slot = op.slot
    PROVE  NInv'
<1>1. SoundDirs' = SoundDirs
  BY DEF SoundDirs
<1>2. UniqueInv'
  BY CommittedInSoundDirs, UniqueFrame DEF NInv
<1>3. OpUnique'
  BY <1>1 DEF NInv, OpUnique, NamesOwnDirectory
<1>4. QED
  BY <1>2, <1>3 DEF NInv

LEMMA WriteFolderTableNames ==
    ASSUME IInv, NInv, WriteFolderTable PROVE NInv'
<1> DEFINE t == InitDirectoryTable(AsTable(disk[op.cluster]),
                                   op.req.name, op.req.parent)
<1>1. /\ pc = "folderTable" /\ pc' = "folderFat"
      /\ disk' = [disk EXCEPT ![op.cluster] = DirImage(t)]
      /\ UNCHANGED <<op, committed>>
  BY DEF WriteFolderTable
<1>2. pc \in Writing
  BY <1>1 DEF Writing
<1>3. /\ op.req \in WriteRequests /\ op.cluster \in Clusters
      /\ disk[op.cluster] \in ClusterContents
  BY <1>2, MapEntriesAreClusters DEF IInv, TypeOK, Ops
<1>4. UniformTable(AsTable(disk[op.cluster]))
  BY <1>3 DEF NInv, UniformInv
<1>5. UniformTable(AsTable(DirImage(t)))
  BY <1>3, <1>4, AsTableType, WriteRequestType, UniformAfterInit,
     AsTableOfDir
<1> HIDE DEF t
<1>6. UniformInv' /\ \A p \in SoundDirs : disk'[p] = disk[p]
  BY <1>1, <1>2, <1>5, WritingFrame
<1>7. QED
  BY <1>1, <1>2, <1>6, WritingNames

LEMMA WriteFileDataNames ==
    ASSUME IInv, NInv, WriteFileData PROVE NInv'
<1>1. pc \in Writing
  BY DEF WriteFileData, Writing
<1>2. UniformTable(AsTable(Text(op.req.data, op.n)))
  BY UniformIfNoTable DEF Text
<1>3. UniformInv' /\ \A p \in SoundDirs : disk'[p] = disk[p]
  BY <1>1, <1>2, WritingFrame DEF WriteFileData
<1>4. QED
  BY <1>1, <1>3, WritingNames DEF WriteFileData

\* The FAT is written.
LEMMA FatWriteNames ==
    ASSUME IInv, NInv, pc \in Writing, NEW m,
           disk' = [disk EXCEPT ![FatCluster] = FatImage(m)]
    PROVE  UniformInv' /\ \A p \in SoundDirs : disk'[p] = disk[p]
<1>1. UniformTable(AsTable(FatImage(m)))
  BY UniformIfNoTable DEF FatImage
<1>2. QED
  BY <1>1, WritingFrame

LEMMA WriteNextLinkNames ==
    ASSUME IInv, NInv, WriteNextLink PROVE NInv'
<1>1. pc \in Writing
  BY DEF WriteNextLink, Writing
<1>2. UniformInv' /\ \A p \in SoundDirs : disk'[p] = disk[p]
  BY <1>1, FatWriteNames DEF WriteNextLink
<1>3. /\ committed' = committed
      /\ op'.req = op.req /\ op'.slot = op.slot
  BY DEF WriteNextLink
<1>4. QED
  BY <1>1, <1>2, <1>3, WritingNames

LEMMA CommitNames ==
    ASSUME IInv, NInv, WriteFolderFat \/ WriteLastLink PROVE NInv'
<1> DEFINE new == <<op.req.parent, op.slot>>
<1>1. pc \in Writing /\ pc' \notin Writing /\ Commit
  BY DEF WriteFolderFat, WriteLastLink, Return, Writing
<1>2. UniformInv' /\ \A p \in SoundDirs : disk'[p] = disk[p]
  BY <1>1, FatWriteNames DEF WriteFolderFat, WriteLastLink
<1>3. OpUnique'
  BY <1>1 DEF OpUnique
<1>4. CASE op.req.parent \notin SoundDirs
  <2>1. UniqueInv'
    BY <1>1, <1>2, <1>4, CommittedInSoundDirs, UniqueFrame DEF Commit, NInv
  <2>2. QED
    BY <1>2, <1>3, <2>1 DEF NInv
<1>5. CASE op.req.parent \in SoundDirs
  <2>1. new[2] = op.slot
    OBVIOUS
  <2> HIDE DEF new
  <2>2. committed' = [a \in DOMAIN committed \cup {new} |->
                        IF a = new THEN [req |-> op.req, chain |-> op.chain]
                                   ELSE committed[a]]
    BY <1>1, <1>5 DEF Commit, new
  <2>3. ASSUME NEW a \in DOMAIN committed',
               ~TakenFor(committed'[a].req,
                         AsTable(disk'[committed'[a].req.parent])[0])
        PROVE  OnlyMatch(AsTable(disk'[committed'[a].req.parent]),
                         committed'[a].req, a[2])
    <3>1. CASE a = new
      <4>1. committed'[a].req = op.req
        BY <2>2, <3>1
      <4>2. ~NamesOwnDirectory(op.req)
        BY <1>2, <1>5, <2>3, <4>1, OwnNameInSlot0
      <4>3. QED
        BY <1>1, <1>2, <1>5, <2>1, <3>1, <4>1, <4>2 DEF NInv, OpUnique
    <3>2. CASE a # new
      <4>1. a \in DOMAIN committed /\ committed'[a] = committed[a]
        BY <2>2, <2>3, <3>2
      <4>2. committed[a].req.parent \in SoundDirs
        BY <4>1, CommittedInSoundDirs
      <4>3. QED
        BY <1>2, <2>3, <4>1, <4>2, OwnNameInSlot0 DEF NInv, UniqueInv
    <3>3. QED
      BY <3>1, <3>2
  <2>4. UniqueInv'
    BY <2>3 DEF UniqueInv, NamesOwnDirectory, TakenFor
  <2>5. QED
    BY <1>2, <1>3, <2>4 DEF NInv
<1>6. QED
  BY <1>4, <1>5

LEMMA StartWriteNames ==
    ASSUME IInv, NInv, NEW r \in WriteRequests, StartWrite(r) PROVE NInv'
<1> DEFINE p == r.parent
           t == AsTable(disk[p])
           c == FindEmptyCluster(fat)
           s == FindEmptyEntry(t)
           w == WriteEntry(r, t, c, s)
<1>1. /\ TypeOK /\ CommittedInv /\ UniformInv /\ UniqueInv
      /\ disk \in [Clusters -> ClusterContents]
      /\ p \in Clusters
  BY WriteRequestType DEF IInv, NInv, TypeOK
<1>2. /\ ValidateWrite(r, t) = 0 /\ c # 0 /\ s # 0
      /\ disk' = [disk EXCEPT ![p] = DirImage(w)]
      /\ op'.req = r /\ op'.slot = s
      /\ committed' = committed
  BY DEF StartWrite
<1>3. ~(IsExist(r, t) > 0)
  BY <1>2 DEF ValidateWrite
<1>4. /\ s \in 1 .. TableSize - 1 /\ t[s].user_attribute # NotEmpty
      /\ c \in MapEntries
  BY <1>2, FindEmptyEntryResult, FindEmptyClusterResult DEF MapEntries
<1>5. t \in [Slots -> Entries] /\ UniformTable(t)
  BY <1>1, AsTableType DEF UniformInv
<1> HIDE DEF c, s
<1>6. w[0] = t[0] /\ UniformTable(w)
  BY <1>4, <1>5, WriteEntryResult, UniformAfterWrite
<1>7. /\ AsTable(disk'[p]) = w
      /\ \A b \in Clusters : b # p => disk'[b] = disk[b]
  BY <1>1, <1>2, AsTableOfDir
<1>8. UniformInv'
  <2>1. UniformTable(AsTable(DirImage(w)))
    BY <1>6, AsTableOfDir
  <2> HIDE DEF w
  <2>2. QED
    BY <1>1, <1>2, <2>1, UniformStep
<1>9. ASSUME NEW q \in WriteRequests
      PROVE  AsTable(disk'[q.parent])[0] = AsTable(disk[q.parent])[0]
  BY <1>6, <1>7, WriteRequestType
<1>10. UniqueInv'
  <2>1. ASSUME NEW a \in DOMAIN committed,
               ~TakenFor(committed[a].req,
                         AsTable(disk'[committed[a].req.parent])[0])
        PROVE  OnlyMatch(AsTable(disk'[committed[a].req.parent]),
                         committed[a].req, a[2])
    <3> DEFINE q == committed[a].req
    <3>1. /\ q \in WriteRequests /\ a[2] \in 1 .. TableSize - 1
          /\ EntryHolds(AsTable(disk[q.parent]), a[2], q,
                        committed[a].chain[1])
      BY <1>1 DEF CommittedInv, Holds
    <3>2. ~TakenFor(q, AsTable(disk[q.parent])[0])
      BY <1>9, <2>1, <3>1
    <3>3. OnlyMatch(AsTable(disk[q.parent]), q, a[2])
      BY <1>1, <3>2, OwnNameInSlot0 DEF UniqueInv
    <3> HIDE DEF q, w
    <3>4. CASE q.parent = p
      <4>1. OnlyMatch(w, q, a[2])
        BY <1>3, <1>4, <1>5, <3>1, <3>2, <3>3, <3>4, NameStaysUnique DEF w
      <4>2. QED
        BY <1>7, <3>4, <4>1 DEF q
    <3>5. CASE q.parent # p
      BY <1>7, <3>1, <3>3, <3>5, WriteRequestType DEF q
    <3>6. QED
      BY <3>4, <3>5
  <2>2. QED
    BY <1>2, <2>1 DEF UniqueInv, NamesOwnDirectory, TakenFor
<1>11. OpUnique'
  <2>1. ASSUME ~TakenFor(r, AsTable(disk'[p])[0]) PROVE OnlyMatch(w, r, s)
    BY <1>3, <1>4, <1>5, <1>9, <2>1, NewNameIsUnique
  <2>2. QED
    BY <1>2, <1>7, <2>1 DEF OpUnique, NamesOwnDirectory, TakenFor
<1>12. QED
  BY <1>8, <1>10, <1>11 DEF NInv

-----------------------------------------------------------------------------
(* The invariant is inductive, and what follows from it.                   *)

LEMMA InitNInv == Init => NInv
<1> SUFFICES ASSUME Init PROVE NInv
  OBVIOUS
<1>1. /\ \A c \in Clusters : disk[c] = Zero
      /\ pc \notin Writing /\ DOMAIN committed = {}
  BY NoOpTypes DEF Init
<1>2. UniformInv
  BY <1>1, UniformIfNoTable DEF UniformInv, Zero
<1>3. QED
  BY <1>1, <1>2 DEF NInv, UniqueInv, OpUnique

LEMMA NextNInv == ASSUME IInv, NInv, [Next]_vars PROVE NInv'
<1>1. CASE Mount
  BY <1>1, QuietNames DEF Mount, Writing
<1>2. CASE FormatBoot \/ FormatStep
  BY <1>2, FormatStepNames DEF FormatStep
<1>3. CASE WriteStep
  <2>1. CASE WriteNoSpace
    BY <2>1, QuietNames DEF WriteNoSpace, Return, Writing
  <2>2. QED
    BY <1>3, <2>1, WriteFolderTableNames, WriteFileDataNames, CommitNames,
       WriteNextLinkNames DEF WriteStep
<1>4. CASE \E r \in WriteRequests : StartWrite(r)
  BY <1>4, StartWriteNames
<1>5. CASE \E r \in WriteRequests : RejectWrite(r)
  BY <1>5, QuietNames DEF RejectWrite, Return, Writing
<1>6. CASE \E r \in ReadRequests : Read(r) \/ ReadDirectory(r)
  BY <1>6, QuietNames DEF Read, ReadDirectory, Writing
<1>7. CASE Crash
  BY <1>7, QuietNames DEF Crash, Writing
<1>8. CASE UNCHANGED vars
  <2>1. UNCHANGED <<disk, pc, op, committed>>
    BY <1>8 DEF vars
  <2>2. QED
    BY <2>1 DEF NInv, UniformInv, UniqueInv, OpUnique, NamesOwnDirectory,
                SoundDirs
<1>9. QED
  BY <1>1, <1>2, <1>3, <1>4, <1>5, <1>6, <1>7, <1>8 DEF Next

\* Along with Fat32Proofs' invariant: the name of a committed entry is that
\* of no other entry in its directory, or of the directory itself.
THEOREM NamesInvariant == Spec => [](IInv /\ NInv)
<1>1. IInv /\ NInv /\ [Next]_vars => IInv' /\ NInv'
  BY NextStep, NextNInv
<1>2. QED
  BY InitIInv, InitNInv, <1>1, PTL DEF Spec

\* What is committed is found by its own name.
LEMMA CommittedEntryMatches ==
    ASSUME IInv, NEW a \in DOMAIN committed
    PROVE  LET r == committed[a].req
           IN  /\ r \in WriteRequests /\ a[2] \in Slots
               /\ a = <<r.parent, a[2]>>
               /\ EntryMatches(r, AsTable(disk[r.parent])[a[2]])
<1>1. /\ committed[a].req \in WriteRequests /\ a[2] \in 1 .. TableSize - 1
      /\ a = <<committed[a].req.parent, a[2]>>
      /\ EntryHolds(AsTable(disk[committed[a].req.parent]), a[2],
                    committed[a].req, committed[a].chain[1])
  BY DEF IInv, CommittedInv, Holds
<1>2. QED
  BY <1>1, ZeroSlot DEF EntryHolds, EntryMatches, NameMatches, FileMatches

\* write() never makes two files of one name and extension, or two folders
\* of one name, in one directory.
THEOREM NamesStayUnique == Spec => []NamesUnique
<1>1. ASSUME IInv, NInv PROVE NamesUnique
  <2>1. ASSUME NEW a \in DOMAIN committed, NEW b \in DOMAIN committed,
               SameName(committed[a].req, committed[b].req),
               ~NamesOwnDirectory(committed[a].req)
        PROVE  a = b
    <3> DEFINE r == committed[a].req
               q == committed[b].req
               e == AsTable(disk[q.parent])[b[2]]
    <3>1. /\ r.parent = q.parent /\ r.name = q.name /\ r.ext = q.ext
          /\ r.size = 0 <=> q.size = 0
      BY <2>1 DEF SameName
    <3>2. /\ a = <<r.parent, a[2]>> /\ b = <<q.parent, b[2]>>
          /\ b[2] \in Slots /\ EntryMatches(q, e)
      BY <1>1, CommittedEntryMatches
    <3>3. OnlyMatch(AsTable(disk[q.parent]), r, a[2])
      BY <1>1, <2>1, <3>1 DEF NInv, UniqueInv
    <3> HIDE DEF r, q
    <3>4. EntryMatches(r, e)
      BY <3>1, <3>2 DEF EntryMatches, NameMatches, FileMatches
    <3>5. a[2] = b[2]
      BY <3>2, <3>3, <3>4 DEF OnlyMatch
    <3>6. QED
      BY <3>1, <3>2, <3>5
  <2>2. QED
    BY <2>1 DEF NamesUnique
<1>2. IInv /\ NInv => NamesUnique
  BY <1>1
<1>3. QED
  BY NamesInvariant, <1>2, PTL

\* A committed file's directory is one, whatever else happened to it.
LEMMA SoundDirIsDirectory ==
    ASSUME IInv, NEW a \in DOMAIN committed
    PROVE  IsDirectory(AsTable(disk[committed[a].req.parent]))
<1> DEFINE p == committed[a].req.parent
<1>1. /\ p \in SoundDirs /\ disk[p] # Zero
      /\ p \in Clusters /\ p >= RootCluster
  BY CommittedInSoundDirs, ParentInUse, MapEntriesAreClusters DEF IInv
<1>2. CASE p = RootCluster
  <2>1. AsTable(disk[p])[0] = RootTable[0]
    BY <1>1, <1>2, FormattedFacts DEF IInv
  <2>2. IsDirectory(RootTable)
    BY ZeroSlot DEF RootTable, InitDirectoryTable, IsDirectory
  <2>3. QED
    BY <2>1, <2>2 DEF IsDirectory
<1>3. CASE p # RootCluster
  <2>1. PICK b \in DOMAIN committed : /\ committed[b].req.size = 0
                                      /\ p = committed[b].chain[1]
    BY <1>1, <1>3 DEF SoundDirs
  <2>2. QED
    BY <2>1 DEF IInv, CommittedInv, Holds, IsFolderNamed
<1>4. QED
  BY <1>2, <1>3

\* read() finds every file that write() returned success for, under its name
\* and extension, and copies from where that file's data begins.
THEOREM FilesAreReadable == Spec => []Readable
<1>1. ASSUME IInv, NInv PROVE Readable
  <2>1. ASSUME NEW a \in DOMAIN committed, committed[a].req.size # 0,
               ~NamesOwnDirectory(committed[a].req)
        PROVE  LET r == committed[a].req
                   answer == ReadReply([parent |-> r.parent, name |-> r.name,
                                        ext |-> r.ext, size |-> r.size])
               IN  answer.ret = 0 /\ disk[answer.from] = Text(r.data, 0)
    <3> DEFINE r == committed[a].req
               q == [parent |-> r.parent, name |-> r.name,
                     ext |-> r.ext, size |-> r.size]
               t == AsTable(disk[r.parent])
               chain == committed[a].chain
               hits == {s \in Slots : FileMatches(q, t[s])}
    <3>1. /\ r \in WriteRequests /\ r.size \in Nat /\ a[2] \in Slots
          /\ EntryMatches(r, t[a[2]])
      BY <1>1, CommittedEntryMatches, WriteRequestType
    <3>2. OnlyMatch(t, r, a[2])
      BY <1>1, <2>1 DEF NInv, UniqueInv
    <3>3. \A s \in Slots : FileMatches(q, t[s]) <=> EntryMatches(r, t[s])
      BY <2>1 DEF EntryMatches, FileMatches
    <3>4. hits = {a[2]}
      BY <3>1, <3>2, <3>3 DEF OnlyMatch
    <3>5. First(hits) = a[2]
      <4>1. a[2] \in Nat
        BY <3>1, GeometryAssumption DEF Slots
      <4>2. {a[2]} \subseteq Nat /\ {a[2]} # {}
        BY <4>1
      <4>3. First({a[2]}) \in {a[2]}
        BY <4>2, FirstHit
      <4>4. QED
        BY <3>4, <4>3
    <3>6. /\ r.parent \in MapEntries /\ r.parent >= RootCluster
          /\ IsDirectory(t)
      BY <1>1, ParentInUse, SoundDirIsDirectory DEF IInv
    <3>7. ~(r.parent < 2 \/ r.parent > MapSize \/ ~IsDirectory(t))
      BY <3>6, GeometryAssumption DEF MapEntries, RootCluster
    <3>8. /\ t[a[2]].filesize = r.size /\ t[a[2]].low = chain[1]
          /\ disk[chain[1]] = Text(r.data, 0)
      <4>1. /\ EntryHolds(t, a[2], r, chain[1])
            /\ chain \in Seq(DataClusters) /\ Len(chain) >= 1
            /\ \A i \in 1 .. Len(chain) : disk[chain[i]] = Text(r.data, i - 1)
        BY <1>1, <2>1 DEF IInv, CommittedInv, Holds
      <4>2. 1 \in 1 .. Len(chain) /\ 1 - 1 = 0
        BY <4>1
      <4>3. disk[chain[1]] = Text(r.data, 0)
        BY <4>1, <4>2
      <4>4. QED
        BY <4>1, <4>3 DEF EntryHolds
    <3>9. ReadReply(q) = Answer("read", q, hits)
      BY DEF ReadReply
    <3> HIDE DEF hits, t
    <3>10. /\ q.parent = r.parent /\ q.size = r.size
           /\ ~(q.size < t[First(hits)].filesize)
      BY <3>1, <3>5, <3>8
    <3> HIDE DEF q
    <3>11. Answer("read", q, hits) =
             [call |-> "read", ret |-> 0, from |-> t[First(hits)].low,
              blocks |-> 1]
      BY <3>4, <3>7, <3>10 DEF Answer, t
    <3>12. ReadReply(q).ret = 0 /\ ReadReply(q).from = chain[1]
      BY <3>5, <3>8, <3>9, <3>11
    <3>13. QED
      BY <3>8, <3>12 DEF q
  <2>2. QED
    BY <2>1 DEF Readable
<1>2. IInv /\ NInv => Readable
  BY <1>1
<1>3. QED
  BY NamesInvariant, <1>2, PTL

=============================================================================
