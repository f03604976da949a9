--------------------------- MODULE InserterProofs ---------------------------
(***************************************************************************)
(* Proofs about Inserter, for every disk, every request and any number of  *)
(* killed runs. A run is a run of the driver, so the invariant of          *)
(* Fat32Proofs holds of the memory as it does of a disk. What is new is    *)
(* the image between the runs: what the driver leaves, or the first part   *)
(* of it with what lies in that part, has to be a disk that the driver can *)
(* start from.                                                             *)
(***************************************************************************)
EXTENDS Inserter, Fat32Proofs

-----------------------------------------------------------------------------
(* The invariant.                                                          *)

\* No driver is running between two runs.
OffBetweenRuns == run = "none" => pc = "off"

InserterInv ==
    /\ IInv
    /\ Durable(Loaded, saved)
    /\ OffBetweenRuns

-----------------------------------------------------------------------------
(* What the image holds.                                                   *)

\* What com says of the places in S is stored in the first n clusters, with
\* the folders above.
ClosedBelow(com, S, n) ==
    /\ S \subseteq DOMAIN com
    /\ \A a \in S :
          /\ a[1] < n
          /\ \A i \in DOMAIN com[a].chain : com[a].chain[i] < n
          /\ \/ a[1] = RootCluster
             \/ \E b \in S : com[b].req.size = 0 /\ com[b].chain[1] = a[1]

\* A directory that something stored is in is a cluster past the FAT.
LEMMA ParentIsPastFat ==
    ASSUME NEW d, NEW com, Durable(d, com), NEW a \in DOMAIN com
    PROVE  /\ a[1] = com[a].req.parent
           /\ a[1] \in Clusters /\ a[1] >= RootCluster
           /\ com[a].chain \in Seq(DataClusters) /\ Len(com[a].chain) >= 1
<1>1. /\ a[1] = com[a].req.parent /\ com[a].req.parent \in Sound(com)
      /\ com[a].chain \in Seq(DataClusters) /\ Len(com[a].chain) >= 1
  BY DEF Durable, StoredOn
<1>2. \A b \in DOMAIN com : com[b].chain[1] \in DataClusters
  BY DEF Durable, StoredOn
<1>3. a[1] \in {RootCluster} \cup DataClusters
  BY <1>1, <1>2 DEF Sound
<1>4. QED
  BY <1>1, <1>3, FatClusterIsCluster, GeometryAssumption
  DEF DataClusters, Clusters, RootCluster

\* What lies in the first part of a disk is held by that part.
LEMMA PrefixHolds ==
    ASSUME NEW d, NEW com, Durable(d, com), NEW n \in Nat,
           NEW S, ClosedBelow(com, S, n), NEW a \in S,
           NEW e, \A c \in Clusters : c < n => e[c] = d[c]
    PROVE  Holds(e, a[2], com[a].req, com[a].chain)
<1> DEFINE r == com[a].req
           chain == com[a].chain
<1>1. /\ a \in DOMAIN com /\ a[1] < n
      /\ \A i \in DOMAIN chain : chain[i] < n
  BY DEF ClosedBelow
<1>2. /\ a[1] = r.parent /\ a[1] \in Clusters /\ a[1] >= RootCluster
      /\ chain \in Seq(DataClusters) /\ Len(chain) >= 1
  BY <1>1, ParentIsPastFat
<1>3. Holds(d, a[2], r, chain)
  BY <1>1 DEF Durable, StoredOn
<1>4. e[r.parent] = d[r.parent]
  BY <1>1, <1>2
<1>5. e[FatCluster] = d[FatCluster]
  BY <1>1, <1>2, FatClusterIsCluster DEF FatCluster, RootCluster, Clusters
<1>6. \A i \in 1 .. Len(chain) : e[chain[i]] = d[chain[i]]
  <2>1. TAKE i \in 1 .. Len(chain)
  <2>2. chain[i] \in DataClusters /\ chain[i] < n
    BY <1>1, <1>2
  <2>3. chain[i] \in Clusters
    BY <2>2, GeometryAssumption DEF DataClusters, Clusters, RootCluster
  <2>4. QED
    BY <2>2, <2>3
<1>7. e[chain[1]] = d[chain[1]]
  BY <1>2, <1>6
<1> HIDE DEF r, chain
<1>8. QED
  BY <1>3, <1>4, <1>5, <1>6, <1>7 DEF Holds, Linked, r, chain

\* Any first part of a durable disk is durable, with what lies in it: the
\* signature, the FAT and the root come first.
LEMMA PrefixIsDurable ==
    ASSUME NEW d, NEW com, Durable(d, com), NEW n \in Nat,
           NEW S, ClosedBelow(com, S, n),
           NEW e, e = [c \in Clusters |-> IF c < n THEN d[c] ELSE Zero]
    PROVE  Durable(e, [a \in S |-> com[a]])
<1>1. /\ d \in [Clusters -> ClusterContents] /\ FormattedInOrder(d)
      /\ BootSector \in Clusters /\ FatCluster \in Clusters
      /\ RootCluster \in Clusters
  BY FatClusterIsCluster DEF Durable
<1>2. e \in [Clusters -> ClusterContents]
  BY <1>1, ContentsTypes
<1>3. /\ \A c \in Clusters : c < n => e[c] = d[c]
      /\ \A c \in Clusters : c >= n => e[c] = Zero
  BY DEF Clusters
<1>4. e[BootSector] \in {d[BootSector], Zero}
      /\ e[FatCluster] \in {d[FatCluster], Zero}
  BY <1>1
<1>5. e[FatCluster] # Zero => /\ e[FatCluster] = d[FatCluster]
                              /\ e[BootSector] = d[BootSector]
  BY <1>1, <1>3 DEF BootSector, FatCluster, Clusters
<1>6. ASSUME NEW c \in Clusters, c >= RootCluster, e[c] # Zero
      PROVE  /\ d[c] # Zero
             /\ e[BootSector] = d[BootSector]
             /\ e[FatCluster] = d[FatCluster]
             /\ e[RootCluster] = d[RootCluster]
  <2>1. c < n /\ c \in Nat /\ e[c] = d[c]
    BY <1>3, <1>6 DEF Clusters
  <2>2. BootSector < n /\ FatCluster < n /\ RootCluster < n
    BY <1>6, <2>1 DEF BootSector, FatCluster, RootCluster
  <2>3. QED
    BY <1>1, <1>3, <1>6, <2>1, <2>2
<1>7. FormattedInOrder(e)
  <2>1. /\ e[BootSector] \in {Zero, Signature}
        /\ e[FatCluster].kind \in {"zero", "fat"}
    BY <1>1, <1>4 DEF FormattedInOrder, Zero
  <2>2. e[FatCluster] # Zero =>
          /\ e[BootSector] = Signature
          /\ \A c \in {FatCluster, RootCluster} :
                AsFat(e[FatCluster])[c] = FormattedMap[c]
    BY <1>1, <1>5 DEF FormattedInOrder
  <2>3. (\E c \in Clusters : c >= RootCluster /\ e[c] # Zero) =>
          /\ e[BootSector] = Signature
          /\ e[FatCluster] # Zero
          /\ AsTable(e[RootCluster])[0] = RootTable[0]
    BY <1>1, <1>6 DEF FormattedInOrder
  <2>4. QED
    BY <2>1, <2>2, <2>3 DEF FormattedInOrder
<1> DEFINE part == [a \in S |-> com[a]]
<1>8. S \subseteq DOMAIN com /\ DOMAIN part = S
      /\ \A a \in S : part[a] = com[a]
  BY DEF ClosedBelow
<1>9. \A a \in S : com[a].req.parent \in Sound(part)
  <2>1. TAKE a \in S
  <2>2. a[1] = com[a].req.parent
    BY <1>8, ParentIsPastFat
  <2>3. \/ a[1] = RootCluster
        \/ \E b \in S : com[b].req.size = 0 /\ com[b].chain[1] = a[1]
    BY DEF ClosedBelow
  <2>4. QED
    BY <1>8, <2>2, <2>3 DEF Sound
<1>10. \A a \in S : Holds(e, a[2], com[a].req, com[a].chain)
  BY <1>3, PrefixHolds
<1> HIDE DEF part
<1>11. StoredOn(e, part)
  BY <1>8, <1>9, <1>10 DEF Durable, StoredOn
<1>12. Disjoint(part)
  BY <1>8 DEF Durable, Disjoint
<1>13. QED
  BY <1>2, <1>7, <1>8, <1>11, <1>12 DEF Durable, part

LEMMA ZerosAreDurable ==
    ASSUME NEW d, NEW com, Durable(d, com)
    PROVE  Durable([c \in Clusters |-> Zero], Nothing)
<1> DEFINE e == [c \in Clusters |-> IF c < 0 THEN d[c] ELSE Zero]
<1>1. ClosedBelow(com, {}, 0)
  BY DEF ClosedBelow
<1>2. Durable(e, [a \in {} |-> com[a]])
  BY <1>1, PrefixIsDurable
<1>3. e = [c \in Clusters |-> Zero]
  BY DEF Clusters
<1>4. [a \in {} |-> com[a]] = Nothing
  BY DEF Nothing
<1>5. QED
  BY <1>2, <1>3, <1>4

-----------------------------------------------------------------------------
(* The steps.                                                              *)

LEMMA ExitStarts ==
    ASSUME IInv, Exit, outages' \in 0 .. MaxOutages
    PROVE  IInv' /\ OffBetweenRuns'
<1>1. Durable(disk', committed')
  BY DiskIsDurable, ZerosAreDurable DEF Exit
<1>2. pc' = "off" /\ op' = NoOp /\ fat' = ZeroMap /\ reply' \in Replies
  BY ReplyType DEF Exit
<1>3. QED
  BY <1>1, <1>2, ZeroMapType, DriverStarts DEF OffBetweenRuns

LEMMA LoadStep == ASSUME InserterInv, Load PROVE InserterInv'
<1>1. /\ disk' = Loaded /\ committed' = saved /\ run' = "insert"
      /\ pc' = "off" /\ op' = NoOp
      /\ UNCHANGED <<fat, reply, outages, image, saved>>
  BY NoOpTypes DEF Load, InserterInv, OffBetweenRuns, IInv, TypeOK
<1>2. Loaded' = Loaded
  BY <1>1 DEF Loaded
<1>3. IInv'
  BY <1>1, DriverStarts DEF InserterInv, IInv, TypeOK
<1>4. QED
  BY <1>1, <1>2, <1>3 DEF InserterInv, OffBetweenRuns

\* The run's calls of the driver.
LEMMA DriverStep ==
    ASSUME InserterInv, Next, UNCHANGED <<image, saved>>, run' # "none"
    PROVE  InserterInv'
<1>1. IInv'
  BY NextStep DEF InserterInv
<1>2. Loaded' = Loaded
  BY DEF Loaded
<1>3. QED
  BY <1>1, <1>2 DEF InserterInv, OffBetweenRuns

LEMMA SaveStep == ASSUME InserterInv, Save PROVE InserterInv'
<1>1. image' = disk /\ saved' = committed /\ Exit /\ outages' = outages
  BY DEF Save
<1>2. disk \in [Clusters -> ClusterContents] /\ outages \in 0 .. MaxOutages
  BY DEF InserterInv, IInv, TypeOK
<1>3. Loaded' = disk
  <2>1. Loaded' = [c \in Clusters |-> disk[c]]
    BY <1>1, <1>2 DEF Loaded
  <2>2. QED
    BY <1>2, <2>1
<1>4. Durable(Loaded', saved')
  BY <1>1, <1>3, DiskIsDurable DEF InserterInv
<1>5. QED
  BY <1>1, <1>2, <1>4, ExitStarts DEF InserterInv

LEMMA KilledCounts ==
    ASSUME IInv, Killed PROVE Exit /\ outages' \in 0 .. MaxOutages
<1>1. MaxOutages \in Nat /\ outages \in 0 .. MaxOutages
  BY RequestAssumption DEF IInv, TypeOK
<1>2. QED
  BY <1>1 DEF Killed

LEMMA KillStep == ASSUME InserterInv, Kill PROVE InserterInv'
<1>1. Exit /\ outages' \in 0 .. MaxOutages
  BY KilledCounts DEF InserterInv, Kill
<1>2. Loaded' = Loaded /\ saved' = saved
  BY DEF Kill, Loaded
<1>3. QED
  BY <1>1, <1>2, ExitStarts DEF InserterInv

\* What can be reached in the first n clusters is closed as it should be.
LEMMA StoredInIsClosed ==
    ASSUME NEW n PROVE ClosedBelow(committed, StoredIn(n), n)
<1>1. ASSUME NEW a \in StoredIn(n)
      PROVE  /\ a \in WholeIn(n)
             /\ \/ a[1] = RootCluster
                \/ \E b \in StoredIn(n) :
                        committed[b].req.size = 0 /\ committed[b].chain[1] = a[1]
  <2>1. PICK S \in SUBSET WholeIn(n) :
            /\ a \in S
            /\ \A c \in S :
                  \/ c[1] = RootCluster
                  \/ \E b \in S : /\ committed[b].req.size = 0
                                  /\ committed[b].chain[1] = c[1]
    BY DEF StoredIn
  <2>2. S \subseteq StoredIn(n)
    BY <2>1 DEF StoredIn
  <2>3. QED
    BY <2>1, <2>2
<1>2. QED
  BY <1>1 DEF ClosedBelow, WholeIn

LEMMA KillWhileSavingStep ==
    ASSUME InserterInv, KillWhileSaving PROVE InserterInv'
<1>1. Exit /\ outages' \in 0 .. MaxOutages
  BY KilledCounts DEF InserterInv, KillWhileSaving
<1>2. PICK n \in 0 .. DiskSize - 1 :
          /\ image' = Prefix(disk, n)
          /\ saved' = [a \in StoredIn(n) |-> committed[a]]
  BY DEF KillWhileSaving
<1>3. n \in Nat /\ DOMAIN image' = 0 .. n - 1
      /\ \A c \in 0 .. n - 1 : image'[c] = disk[c]
  BY <1>2 DEF Prefix
<1>4. Loaded' = [c \in Clusters |-> IF c < n THEN disk[c] ELSE Zero]
  <2>1. \A c \in Clusters : c \in 0 .. n - 1 <=> c < n
    BY <1>3 DEF Clusters
  <2>2. QED
    BY <1>3, <2>1 DEF Loaded
<1>5. Durable(Loaded', saved')
  BY <1>2, <1>3, <1>4, DiskIsDurable, StoredInIsClosed, PrefixIsDurable
  DEF InserterInv
<1>6. QED
  BY <1>1, <1>5, ExitStarts DEF InserterInv

LEMMA NextInserterInv ==
    ASSUME InserterInv, [InserterNext]_inserterVars PROVE InserterInv'
<1>1. CASE Load
  BY <1>1, LoadStep
<1>2. CASE Initialize
  BY <1>2, DriverStep DEF Initialize, Next
<1>3. CASE Continue
  BY <1>3, DriverStep DEF Continue, Next
<1>4. CASE Save
  BY <1>4, SaveStep
<1>5. CASE Kill
  BY <1>5, KillStep
<1>6. CASE KillWhileSaving
  BY <1>6, KillWhileSavingStep
<1>7. ASSUME NEW r \in InsertRequests, Insert(r) PROVE InserterInv'
  <2>1. r \in WriteRequests
    BY DEF InsertRequests
  <2>2. QED
    BY <1>7, <2>1, DriverStep DEF Insert, Next
<1>8. CASE UNCHANGED inserterVars
  <2>1. UNCHANGED <<vars, image, run, saved>>
    BY <1>8 DEF inserterVars
  <2>2. IInv'
    BY <2>1, NextStep DEF InserterInv
  <2>3. QED
    BY <2>1, <2>2 DEF InserterInv, Loaded, OffBetweenRuns, vars
<1>9. QED
  BY <1>1, <1>2, <1>3, <1>4, <1>5, <1>6, <1>7, <1>8 DEF InserterNext

LEMMA InitInserterInv == InserterInit => InserterInv
<1> SUFFICES ASSUME InserterInit PROVE InserterInv
  OBVIOUS
<1>1. IInv
  BY InitIInv DEF InserterInit
<1>2. Loaded = disk /\ saved = committed
  BY DEF InserterInit, Init, Loaded, Nothing
<1>3. QED
  BY <1>1, <1>2, DiskIsDurable DEF InserterInv, OffBetweenRuns, InserterInit, Init

\* The invariant holds of the driver's memory and of the image file, in every
\* state of every sequence of runs.
THEOREM InserterInvariant == InserterSpec => []InserterInv
<1>1. InserterInv /\ [InserterNext]_inserterVars => InserterInv'
  BY NextInserterInv
<1>2. QED
  BY InitInserterInv, <1>1, PTL DEF InserterSpec

-----------------------------------------------------------------------------
(* What is saved.                                                          *)

\* The instance reads a cluster of the image as the driver does.
LEMMA ImageReadsAlike ==
    /\ \A c : Image!AsTable(c) = AsTable(c) /\ Image!AsFat(c) = AsFat(c)
    /\ \A t : Image!IsDirectory(t) = IsDirectory(t)
    /\ \A x, i : Image!Text(x, i) = Text(x, i)
    /\ Image!EndOfFile = EndOfFile /\ Image!NotEmpty = NotEmpty
    /\ Image!Subdirectory = Subdirectory /\ Image!FatCluster = FatCluster
<1>1. /\ Image!EndOfFile = EndOfFile /\ Image!NotEmpty = NotEmpty
      /\ Image!Subdirectory = Subdirectory /\ Image!FatCluster = FatCluster
  BY DEF Image!EndOfFile, EndOfFile, Image!NotEmpty, NotEmpty,
         Image!Subdirectory, Subdirectory, Image!FatCluster, FatCluster
<1>2. Image!Slots = Slots /\ Image!MapEntries = MapEntries
      /\ Image!EmptyEntry = EmptyEntry
  BY DEF Image!Slots, Slots, Image!MapEntries, MapEntries,
         Image!EmptyEntry, EmptyEntry
<1>3. Image!ZeroEntry = ZeroEntry /\ Image!NoiseEntry = NoiseEntry
  BY DEF Image!ZeroEntry, ZeroEntry, Image!NoiseEntry, NoiseEntry
<1>4. \A c : Image!AsTable(c) = AsTable(c)
  BY <1>2, <1>3 DEF Image!AsTable, AsTable
<1>5. \A c : Image!AsFat(c) = AsFat(c)
  BY <1>2 DEF Image!AsFat, AsFat, Image!ZeroMap, ZeroMap
<1>6. \A t : Image!IsDirectory(t) = IsDirectory(t)
  BY <1>1 DEF Image!IsDirectory, IsDirectory
<1>7. \A x, i : Image!Text(x, i) = Text(x, i)
  BY DEF Image!Text, Text
<1>8. QED
  BY <1>1, <1>4, <1>5, <1>6, <1>7

LEMMA SavedIsIntact ==
    ASSUME StoredOn(Loaded, saved) PROVE Image!CommittedIntact
<1> DEFINE d == Loaded
           R(a) == saved[a].req
           C(a) == saved[a].chain
           Entry(a) == AsTable(d[a[1]])[a[2]]
           IsSaved(a) ==
             /\ Entry(a).user_attribute = NotEmpty
             /\ Entry(a).name = R(a).name /\ Entry(a).low = C(a)[1]
             /\ Entry(a).filesize = R(a).size
             /\ \A i \in 1 .. Len(C(a)) :
                   AsFat(d[FatCluster])[C(a)[i]] =
                      IF i = Len(C(a)) THEN EndOfFile ELSE C(a)[i + 1]
             /\ R(a).size = 0 =>
                   /\ Entry(a).attribute = Subdirectory
                   /\ Len(C(a)) = 1
                   /\ IsDirectory(AsTable(d[C(a)[1]]))
                   /\ AsTable(d[C(a)[1]])[0].name = R(a).name
             /\ R(a).size # 0 =>
                   /\ Entry(a).attribute = 0
                   /\ Entry(a).ext = R(a).ext
                   /\ (Len(C(a)) - 1) * ClusterSize < R(a).size
                   /\ R(a).size =< Len(C(a)) * ClusterSize
                   /\ \A i \in 1 .. Len(C(a)) :
                         d[C(a)[i]] = Text(R(a).data, i - 1)
<1>1. ASSUME NEW a \in DOMAIN saved PROVE IsSaved(a)
  <2>1. /\ a[1] = R(a).parent
        /\ R(a).size = 0 => Len(C(a)) = 1
        /\ R(a).size # 0 => /\ (Len(C(a)) - 1) * ClusterSize < R(a).size
                            /\ R(a).size =< Len(C(a)) * ClusterSize
        /\ Holds(d, a[2], R(a), C(a))
    BY DEF StoredOn
  <2>2. QED
    BY <2>1 DEF Holds, EntryHolds, Linked, IsFolderNamed
<1>2. /\ \A a : Image!EntryAt(a) = Entry(a)
      /\ Image!DiskMap = AsFat(d[FatCluster])
  BY ImageReadsAlike DEF Image!EntryAt, Image!DiskMap
<1> HIDE DEF d, Entry
<1>3. QED
  BY ONLY <1>1, <1>2, ImageReadsAlike DEF Image!CommittedIntact, Image!Intact, d

\* What runs reported as inserted and wrote back is in the image file,
\* whatever later runs insert, fail at or are killed at; a run killed while it
\* writes the image back takes away what lies beyond the part that it wrote.
THEOREM SavedIsKept == InserterSpec => []KeepsSaved
<1>1. InserterInv => KeepsSaved
  BY SavedIsIntact DEF InserterInv, Durable, KeepsSaved
<1>2. QED
  BY InserterInvariant, <1>1, PTL

\* Within a run, and so on what it saves, no cluster belongs to two files or
\* folders, whatever image the run began with.
THEOREM InsertedChainsAreDisjoint == InserterSpec => []ChainsDisjoint
<1>1. InserterInv => ChainsDisjoint
  BY DEF InserterInv, IInv
<1>2. QED
  BY InserterInvariant, <1>1, PTL

\* Within a run, all that earlier runs saved and this one inserted is in the
\* memory that it works on.
THEOREM InsertedStaysIntact == InserterSpec => []CommittedIntact
<1>1. InserterInv => CommittedIntact
  BY CommittedIsIntact DEF InserterInv
<1>2. QED
  BY InserterInvariant, <1>1, PTL

=============================================================================
