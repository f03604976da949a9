------------------------- MODULE Fat32DeleteProofs -------------------------
(***************************************************************************)
(* Proofs about Fat32Delete, for every geometry, every set of requests and *)
(* any number of calls of delete(). Between the calls the invariant of     *)
(* Fat32Proofs holds, as long as the calls were harmless; within one, what *)
(* is durable without the entry that goes.                                 *)
(***************************************************************************)
EXTENDS Fat32Delete, Fat32Proofs

Deleting == {"deleteFull", "deleteScanned", "deleteEntry"}

\* The slot the scan has stopped at, and the address of its entry.
TakenSlot == FirstOther(del.req, del.table)
Taken == <<del.req.parent, TakenSlot>>

\* What is stored, without the entry at a.
Without(com, a) == [b \in DOMAIN com \ {a} |-> com[b]]

-----------------------------------------------------------------------------
(* The invariant of any call.                                              *)

CallInv ==
    /\ DOMAIN disk = Clusters
    /\ pc \in Deleting => del.req \in DeleteRequests /\ del.req.parent >= 2
    /\ pc = "deleteEntry" => TakenSlot # 0

\* The scan stops at no slot, 0, or at one past that of the directory.
LEMMA TakenSlotResult ==
    ASSUME NEW r, NEW table, FirstOther(r, table) # 0
    PROVE  FirstOther(r, table) \in 1 .. TableSize - 1
<1> DEFINE S == {s \in 1 .. TableSize - 1 : ~NameMatches(r, table[s])}
<1>1. S \subseteq Nat
  BY GeometryAssumption
<1>2. FirstOther(r, table) = FirstOr0(S)
  BY DEF FirstOther
<1>3. S # {}
  BY <1>2 DEF FirstOr0
<1>4. First(S) \in S
  BY <1>1, <1>3, FirstHit
<1>5. QED
  BY <1>2, <1>3, <1>4 DEF FirstOr0

\* A call of the driver that is not delete() neither begins nor ends in one.
LEMMA OtherCallsOutside ==
    ASSUME OtherCalls PROVE pc \notin Deleting /\ pc' \notin Deleting
  BY DEF OtherCalls, Mount, FormatBoot, FormatStep, FormatFat, FormatRoot,
         WriteStep, WriteFolderTable, WriteFolderFat, WriteFileData,
         WriteLastLink, WriteNextLink, WriteNoSpace, StartWrite, Return,
         Deleting

LEMMA OtherCallsKeepClusters ==
    ASSUME DOMAIN disk = Clusters, OtherCalls PROVE DOMAIN disk' = Clusters
  BY DEF OtherCalls, Mount, FormatBoot, FormatStep, FormatFat, FormatRoot,
         WriteStep, WriteFolderTable, WriteFolderFat, WriteFileData,
         WriteLastLink, WriteNextLink, WriteNoSpace, StartWrite

LEMMA StartDeleteFacts ==
    ASSUME NEW r \in DeleteRequests, StartDelete(r)
    PROVE  /\ pc = "idle" /\ pc' \in {"deleteFull", "deleteScanned", "deleteScraps"}
           /\ pc' = "deleteScraps" =>
                 LET table == AsTable(disk[r.parent])
                 IN  ScrapsBefore(r, table, ScanEnd(r, table))
           /\ del'.req = r /\ del'.table = AsTable(disk[r.parent])
           /\ r.parent \in Clusters /\ r.parent >= 2
           /\ IsDirectory(AsTable(disk[r.parent]))
           /\ UNCHANGED <<op, reply, committed, outages>>
  BY DEF StartDelete, DeleteRequests

LEMMA CallInvStep ==
    ASSUME CallInv, [DeleteNext]_deleteVars PROVE CallInv'
<1>1. CASE OtherCalls /\ UNCHANGED <<del, deletes>>
  BY <1>1, OtherCallsOutside, OtherCallsKeepClusters DEF CallInv, Deleting
<1>2. ASSUME NEW r \in DeleteRequests, RejectDelete(r) PROVE CallInv'
  BY <1>2 DEF RejectDelete, ReturnFromDelete, CallInv, Deleting
<1>3. ASSUME NEW r \in DeleteRequests, StartDelete(r) PROVE CallInv'
  <2>1. DOMAIN disk' = Clusters
    BY <1>3 DEF StartDelete, CallInv
  <2>2. QED
    BY <1>3, <2>1, StartDeleteFacts DEF CallInv
<1>4. CASE DeleteFails
  BY <1>4 DEF DeleteFails, ReturnFromDelete, CallInv, Deleting
<1>5. CASE DeleteFat
  <2>1. DOMAIN disk' = Clusters /\ del' = del
        /\ pc = "deleteScanned" /\ TakenSlot # 0
    BY <1>5 DEF DeleteFat, CallInv, TakenSlot
  <2>2. QED
    BY <2>1 DEF CallInv, Deleting, TakenSlot
<1>6. CASE DeleteEntry
  BY <1>6 DEF DeleteEntry, ReturnFromDelete, CallInv, Deleting
<1>7. CASE UNCHANGED deleteVars
  BY <1>7 DEF deleteVars, vars, CallInv, TakenSlot
<1>8. QED
  BY <1>1, <1>2, <1>3, <1>4, <1>5, <1>6, <1>7 DEF DeleteNext

LEMMA InitCallInv == DeleteInit => CallInv
  BY DEF DeleteInit, Init, CallInv, Deleting

LEMMA CallInvariant == DeleteSpec => []CallInv
<1>1. CallInv /\ [DeleteNext]_deleteVars => CallInv'
  BY CallInvStep
<1>2. QED
  BY InitCallInv, <1>1, PTL DEF DeleteSpec

\* Whatever the request and the directory, a delete() that returns success
\* has cleared one slot past that of the directory itself and left the other
\* slots, and all clusters but the directory's and the FAT's, as they were.
THEOREM OneEntryIsTaken == DeleteSpec => TakesOneEntry
<1>1. ASSUME CallInv, [DeleteNext]_deleteVars PROVE [TakesOneEntryStep]_deleteVars
  <2> SUFFICES ASSUME DeleteNext, pc \in Deleting PROVE TakesOneEntryStep
    BY <1>1 DEF TakesOneEntryStep, Deleting
  <2>1. DeleteFails \/ DeleteFat \/ DeleteEntry
    BY OtherCallsOutside, StartDeleteFacts
    DEF DeleteNext, RejectDelete, Deleting
  <2>2. /\ DOMAIN disk = Clusters /\ del.req.parent \in Clusters
        /\ del.req.parent # FatCluster
    BY <1>1 DEF CallInv, DeleteRequests, FatCluster
  <2>3. CASE DeleteFails
    BY <2>3 DEF DeleteFails, ReturnFromDelete, Reply, TakesOneEntryStep
  <2>4. CASE DeleteFat
    BY <2>2, <2>4 DEF DeleteFat, TakesOneEntryStep
  <2>5. CASE DeleteEntry
    <3>1. TakenSlot \in 1 .. TableSize - 1
      BY <1>1, <2>5, TakenSlotResult DEF DeleteEntry, CallInv, TakenSlot
    <3>2. disk' = [disk EXCEPT ![del.req.parent] =
                      DirImage([del.table EXCEPT ![TakenSlot] = ZeroEntry])]
      BY <2>5 DEF DeleteEntry, TakenSlot
    <3>3. AsTable(disk'[del.req.parent])
             = [del.table EXCEPT ![TakenSlot] = ZeroEntry]
      BY <2>2, <3>2, AsTableOfDir
    <3>4. \A c \in Clusters \ {FatCluster, del.req.parent} : disk'[c] = disk[c]
      BY <2>2, <3>2
    <3>5. QED
      BY <3>1, <3>3, <3>4 DEF TakesOneEntryStep
  <2>6. QED
    BY <2>1, <2>3, <2>4, <2>5
<1>2. QED
  BY CallInvariant, <1>1, PTL DEF DeleteSpec, TakesOneEntry

-----------------------------------------------------------------------------
(* The invariant of harmless calls.                                        *)

\* The entry that a delete() may take: an empty one, or what is stored at its
\* address, when nothing is stored in that.
MayTake(table, a) ==
    \/ table[a[2]] = ZeroEntry
    \/ /\ a \in DOMAIN committed
       /\ \A b \in DOMAIN committed : b[1] # committed[a].chain[1]

\* The driver within a delete(): no write() is in progress, the FAT in RAM
\* is the one on disk, and the buffer holds the directory.
Within ==
    /\ op = NoOp
    /\ fat = DiskMap
    /\ fat \in [MapEntries -> FatValues]
    /\ reply \in Replies
    /\ outages \in 0 .. MaxOutages
    /\ del.req \in DeleteRequests /\ del.req.parent >= 2
    /\ IsDirectory(del.table)
    /\ del.table = AsTable(disk[del.req.parent])

HarmlessInv ==
    /\ pc \notin Deleting => IInv
    /\ pc \in Deleting => Within
    /\ pc \in {"deleteFull", "deleteScanned"} =>
          /\ Durable(disk, committed)
          /\ TakenSlot # 0 => MayTake(del.table, Taken)
    /\ pc = "deleteEntry" =>
          /\ TakenSlot # 0
          /\ Durable(disk, Without(committed, Taken))
          /\ Disjoint(committed)

DeleteInv ==
    /\ deletes \in Seq(BOOLEAN)
    /\ AllHarmless => HarmlessInv

-----------------------------------------------------------------------------
(* What is stored, without one entry.                                      *)

\* No directory is lost with an entry that nothing is stored in.
LEMMA SoundWithout ==
    ASSUME NEW com, NEW a,
           a \in DOMAIN com => \A b \in DOMAIN com : b[1] # com[a].chain[1],
           NEW b \in DOMAIN com, b[1] \in Sound(com)
    PROVE  b[1] \in Sound(Without(com, a))
<1>1. CASE b[1] = RootCluster
  BY <1>1 DEF Sound
<1>2. CASE b[1] # RootCluster
  <2>1. PICK c \in DOMAIN com : com[c].req.size = 0 /\ b[1] = com[c].chain[1]
    BY <1>2 DEF Sound
  <2>2. c # a
    BY <2>1
  <2>3. c \in DOMAIN Without(com, a) /\ Without(com, a)[c] = com[c]
    BY <2>1, <2>2 DEF Without
  <2>4. QED
    BY <2>1, <2>3 DEF Sound
<1>3. QED
  BY <1>1, <1>2

\* The cluster of the entry that goes may be freed, when the entry is stored;
\* an empty slot has cluster 0, and no chain has that.
LEMMA FreedIsDurable ==
    ASSUME NEW d, NEW com, Durable(d, com), NEW a,
           a \in DOMAIN com => \A b \in DOMAIN com : b[1] # com[a].chain[1],
           NEW c \in MapEntries, c # FatCluster, c # RootCluster,
           a \in DOMAIN com => c = com[a].chain[1],
           a \notin DOMAIN com => c = 0,
           d[FatCluster] # Zero
    PROVE  Durable([d EXCEPT ![FatCluster] =
                      FatImage([AsFat(d[FatCluster]) EXCEPT ![c] = EmptyEntry])],
                   Without(com, a))
<1> DEFINE m == AsFat(d[FatCluster])
           n == [m EXCEPT ![c] = EmptyEntry]
           e == [d EXCEPT ![FatCluster] = FatImage(n)]
           rest == Without(com, a)
<1>1. /\ d \in [Clusters -> ClusterContents] /\ FormattedInOrder(d)
      /\ FatCluster \in Clusters /\ RootCluster \in Clusters
      /\ StoredOn(d, com) /\ Disjoint(com)
  BY FatClusterIsCluster DEF Durable
<1>2. m \in [MapEntries -> FatValues] /\ n \in [MapEntries -> FatValues]
  <2>1. m \in [MapEntries -> FatValues]
    BY <1>1, AsFatType
  <2>2. EmptyEntry \in FatValues
    BY GeometryAssumption DEF EmptyEntry, FatValues, MapEntries
  <2>3. QED
    BY <2>1, <2>2
<1>3. e \in [Clusters -> ClusterContents]
  BY <1>1, <1>2, ContentsTypes
<1>4. /\ \A k \in Clusters : k # FatCluster => e[k] = d[k]
      /\ e[FatCluster] = FatImage(n) /\ AsFat(e[FatCluster]) = n
  BY <1>1, AsFatOfImage
<1>5. \A k \in MapEntries : k # c => n[k] = m[k]
  BY <1>2
<1> HIDE DEF e, m, n
<1>6. FormattedInOrder(e)
  <2>1. BootSector \in Clusters /\ BootSector # FatCluster
        /\ RootCluster # FatCluster
        /\ FatCluster \in MapEntries /\ RootCluster \in MapEntries
    BY FatClusterIsCluster, GeometryAssumption
    DEF BootSector, FatCluster, RootCluster, MapEntries
  <2>2. e[FatCluster].kind = "fat" /\ e[FatCluster] # Zero
    BY <1>4 DEF FatImage, Zero
  <2>3. \A k \in Clusters : k >= RootCluster => k # FatCluster
    BY DEF RootCluster, FatCluster
  <2>4. \A k \in {FatCluster, RootCluster} :
            AsFat(e[FatCluster])[k] = FormattedMap[k]
    BY <1>1, <1>4, <1>5, <2>1 DEF FormattedInOrder, m
  <2>5. (\E k \in Clusters : k >= RootCluster /\ e[k] # Zero) =>
            AsTable(e[RootCluster])[0] = RootTable[0]
    BY <1>1, <1>4, <2>1, <2>3 DEF FormattedInOrder
  <2>6. e[BootSector] = Signature
    BY <1>1, <1>4, <2>1 DEF FormattedInOrder
  <2>7. QED
    BY <2>2, <2>4, <2>5, <2>6 DEF FormattedInOrder
<1>7. StoredOn(e, rest)
  <2> SUFFICES ASSUME NEW b \in DOMAIN com, b # a
               PROVE  LET r == com[b].req
                          chain == com[b].chain
                      IN  /\ r \in WriteRequests
                          /\ chain \in Seq(DataClusters) /\ Len(chain) >= 1
                          /\ b = <<r.parent, b[2]>>
                          /\ b[2] \in 1 .. TableSize - 1
                          /\ r.parent \in Sound(rest)
                          /\ r.size = 0 => Len(chain) = 1
                          /\ r.size # 0 =>
                                /\ (Len(chain) - 1) * ClusterSize < r.size
                                /\ r.size =< Len(chain) * ClusterSize
                          /\ Holds(e, b[2], r, chain)
    BY DEF StoredOn, Without
  <2> DEFINE r == com[b].req
             chain == com[b].chain
  <2>1. /\ r \in WriteRequests
        /\ chain \in Seq(DataClusters) /\ Len(chain) >= 1
        /\ b = <<r.parent, b[2]>> /\ b[2] \in 1 .. TableSize - 1
        /\ r.parent \in Sound(com)
        /\ r.size = 0 => Len(chain) = 1
        /\ r.size # 0 => /\ (Len(chain) - 1) * ClusterSize < r.size
                         /\ r.size =< Len(chain) * ClusterSize
        /\ Holds(d, b[2], r, chain)
    BY <1>1 DEF StoredOn
  <2>2. r.parent \in Sound(rest)
    BY <2>1, SoundWithout
  <2>3. ASSUME NEW i \in 1 .. Len(chain)
        PROVE  chain[i] \in MapEntries /\ chain[i] \in Clusters
               /\ chain[i] # FatCluster /\ chain[i] # c
    <3>1. chain[i] \in DataClusters
      BY <2>1
    <3>2. chain[i] \in MapEntries /\ chain[i] \in Clusters
          /\ chain[i] > RootCluster
      BY <3>1, DataClustersAreClusters, GeometryAssumption
      DEF DataClusters, RootCluster
    <3>3. a \in DOMAIN com => 1 \in 1 .. Len(com[a].chain)
      BY <1>1 DEF StoredOn
    <3>4. chain[i] # c
      BY <1>1, <3>2, <3>3 DEF Disjoint, RootCluster
    <3>5. QED
      BY <3>2, <3>4 DEF RootCluster, FatCluster
  <2>4. Linked(e, chain)
    BY <1>4, <1>5, <2>1, <2>3 DEF Holds, Linked, m
  <2>5. r.parent \in Clusters /\ r.parent # FatCluster
    <3>1. CASE r.parent = RootCluster
      BY <1>1, <3>1 DEF RootCluster, FatCluster
    <3>2. CASE r.parent # RootCluster
      <4>1. PICK f \in DOMAIN com : com[f].req.size = 0
                                    /\ r.parent = com[f].chain[1]
        BY <2>1, <3>2 DEF Sound
      <4>2. r.parent \in DataClusters
        BY <1>1, <4>1 DEF StoredOn
      <4>3. QED
        BY <4>2, DataClustersAreClusters DEF RootCluster, FatCluster
    <3>3. QED
      BY <3>1, <3>2
  <2>6. 1 \in 1 .. Len(chain)
    BY <2>1
  <2>7. Holds(e, b[2], r, chain)
    BY <1>4, <2>1, <2>3, <2>4, <2>5, <2>6 DEF Holds
  <2>8. QED
    BY <2>1, <2>2, <2>7
<1>8. /\ DOMAIN rest \subseteq Addresses
      /\ \A b \in DOMAIN rest :
            rest[b] \in [req : WriteRequests, chain : Seq(DataClusters)]
      /\ Disjoint(rest)
  BY DEF Durable, Disjoint, Without
<1>9. QED
  BY <1>3, <1>6, <1>7, <1>8 DEF Durable, e, n, m

\* A slot may be cleared that holds nothing that is stored.
LEMMA ClearedIsDurable ==
    ASSUME NEW d, NEW com, Durable(d, com),
           NEW p \in Clusters, p >= RootCluster, IsDirectory(AsTable(d[p])),
           NEW s \in 1 .. TableSize - 1, <<p, s>> \notin DOMAIN com
    PROVE  Durable([d EXCEPT ![p] =
                      DirImage([AsTable(d[p]) EXCEPT ![s] = ZeroEntry])], com)
<1> DEFINE old == AsTable(d[p])
           new == [old EXCEPT ![s] = ZeroEntry]
           e == [d EXCEPT ![p] = DirImage(new)]
<1>1. /\ d \in [Clusters -> ClusterContents] /\ FormattedInOrder(d)
      /\ StoredOn(d, com)
      /\ BootSector \in Clusters /\ FatCluster \in Clusters
      /\ RootCluster \in Clusters
      /\ p # BootSector /\ p # FatCluster /\ s # 0
  BY FatClusterIsCluster
  DEF Durable, BootSector, FatCluster, RootCluster
<1>2. old \in [Slots -> Entries] /\ new \in [Slots -> Entries]
      /\ s \in Slots /\ 0 \in Slots
  BY <1>1, AsTableType, ZeroSlot, ZeroEntryType
<1>3. e \in [Clusters -> ClusterContents]
  BY <1>1, <1>2, ContentsTypes
<1>4. /\ \A k \in Clusters : k # p => e[k] = d[k]
      /\ AsTable(e[p]) = new
  BY <1>1, AsTableOfDir
<1>5. \A t \in Slots : t # s => new[t] = old[t]
  BY <1>2
<1>6. d[p].kind = "dir" /\ d[p] # Zero
  BY <1>2, LooksLikeDirectory, NotZeroIfInUse
<1> HIDE DEF e, new
<1>7. \A k \in Clusters :
         /\ AsTable(e[k])[0] = AsTable(d[k])[0]
         /\ \A t \in Slots : <<k, t>> # <<p, s>> =>
               AsTable(e[k])[t] = AsTable(d[k])[t]
         /\ d[k].kind = "text" => e[k] = d[k]
  BY <1>1, <1>2, <1>4, <1>5, <1>6
<1>8. FormattedInOrder(e)
  <2>1. e[BootSector] = d[BootSector] /\ e[FatCluster] = d[FatCluster]
        /\ AsTable(e[RootCluster])[0] = AsTable(d[RootCluster])[0]
    BY <1>1, <1>4, <1>7
  <2>2. \A k \in Clusters : e[k] # Zero => d[k] # Zero
    BY <1>4, <1>6
  <2>3. QED
    BY <1>1, <2>1, <2>2 DEF FormattedInOrder
<1>9. ASSUME NEW b \in DOMAIN com
      PROVE  Holds(e, b[2], com[b].req, com[b].chain)
  <2> DEFINE r == com[b].req
             chain == com[b].chain
  <2>1. /\ r \in WriteRequests
        /\ chain \in Seq(DataClusters) /\ Len(chain) >= 1
        /\ b = <<r.parent, b[2]>> /\ b[2] \in 1 .. TableSize - 1
        /\ Holds(d, b[2], r, chain)
    BY <1>1 DEF StoredOn
  <2>2. b # <<p, s>> /\ r.parent \in Clusters /\ b[2] \in Slots
    BY <2>1, WriteRequestType, ZeroSlot
  <2>3. AsTable(e[r.parent])[b[2]] = AsTable(d[r.parent])[b[2]]
    BY <1>7, <2>1, <2>2
  <2>4. 1 \in 1 .. Len(chain)
        /\ \A i \in 1 .. Len(chain) : chain[i] \in Clusters
    BY <2>1, DataClustersAreClusters
  <2>5. Linked(e, chain)
    BY <1>1, <1>4, <2>1 DEF Holds, Linked
  <2>6. r.size = 0 => IsFolderNamed(AsTable(e[chain[1]]), r.name)
    BY <1>7, <2>1, <2>4 DEF Holds, IsFolderNamed, IsDirectory
  <2>7. r.size # 0 => \A i \in 1 .. Len(chain) :
                         e[chain[i]] = Text(r.data, i - 1)
    BY <1>7, <2>1, <2>4 DEF Holds, Text
  <2>8. QED
    BY <2>1, <2>3, <2>5, <2>6, <2>7 DEF Holds, EntryHolds
<1>10. StoredOn(e, com)
  BY <1>1, <1>9 DEF StoredOn
<1>11. QED
  BY <1>3, <1>8, <1>10 DEF Durable, e, new

-----------------------------------------------------------------------------
(* The steps of harmless calls.                                            *)

LEMMA HarmlessBefore ==
    ASSUME deletes \in Seq(BOOLEAN), AllHarmless', NEW h \in BOOLEAN,
           deletes' = deletes \/ deletes' = Append(deletes, h)
    PROVE  /\ AllHarmless
           /\ deletes' = Append(deletes, h) => h
<1>1. CASE deletes' = deletes
  <2>1. AllHarmless
    BY <1>1 DEF AllHarmless
  <2>2. deletes' # Append(deletes, h)
    BY <1>1
  <2>3. QED
    BY <2>1, <2>2
<1>2. CASE deletes' = Append(deletes, h)
  <2>1. Len(deletes') = Len(deletes) + 1
        /\ deletes'[Len(deletes) + 1] = h
        /\ \A i \in 1 .. Len(deletes) : deletes'[i] = deletes[i]
    BY <1>2
  <2>2. QED
    BY <2>1 DEF AllHarmless
<1>3. QED
  BY <1>1, <1>2

LEMMA OtherCallsStep ==
    ASSUME HarmlessInv, OtherCalls, UNCHANGED del PROVE HarmlessInv'
<1>1. pc \notin Deleting /\ pc' \notin Deleting
  BY OtherCallsOutside
<1>2. Next
  BY DEF OtherCalls, Next
<1>3. IInv'
  BY <1>1, <1>2, NextStep DEF HarmlessInv
<1>4. QED
  BY <1>1, <1>3 DEF HarmlessInv, Deleting

LEMMA DeleteReplyType ==
    ASSUME NEW ret \in {-1, 0, 1, 2} PROVE Reply("delete", ret) \in Replies
<1>1. 0 \in 0 .. HalfWord - 1
  BY DEF HalfWord
<1>2. QED
  BY <1>1 DEF Reply, Replies

\* A call that returns leaves the driver idle, on what is durable.
LEMMA ReturnRests ==
    ASSUME NEW ret \in {-1, 0, 1, 2}, ReturnFromDelete(ret),
           Durable(disk', committed'), op = NoOp,
           fat' = AsFat(disk'[FatCluster]),
           fat' \in [MapEntries -> FatValues], outages \in 0 .. MaxOutages
    PROVE  HarmlessInv'
<1>1. /\ pc' = "idle" /\ op' = NoOp /\ outages' = outages
      /\ reply' \in Replies
  BY DeleteReplyType DEF ReturnFromDelete
<1>2. IInv'
  BY <1>1, DriverStarts
<1>3. QED
  BY <1>1, <1>2 DEF HarmlessInv, Deleting

LEMMA RejectDeleteStep ==
    ASSUME HarmlessInv, NEW r \in DeleteRequests, RejectDelete(r)
    PROVE  HarmlessInv'
<1>1. IInv /\ pc = "idle"
  BY DEF HarmlessInv, RejectDelete, Deleting
<1>2. Durable(disk, committed)
  BY <1>1, DiskIsDurable
<1>3. op = NoOp /\ fat = DiskMap /\ fat \in [MapEntries -> FatValues]
      /\ outages \in 0 .. MaxOutages
  BY <1>1, NoOpTypes DEF IInv, TypeOK, CacheCoherent
<1>4. /\ ReturnFromDelete(-1) /\ Durable(disk', committed')
      /\ fat' = AsFat(disk'[FatCluster]) /\ fat' = fat
  BY <1>2, <1>3 DEF RejectDelete, DiskMap
<1>5. QED
  BY <1>3, <1>4, ReturnRests

\* Less than two clusters of buffer: the scan frees nothing.
LEMMA NothingScrapped ==
    ASSUME NEW r \in DeleteRequests, r.size < 2 * ClusterSize, NEW table, NEW s
    PROVE  ~ScrapsBefore(r, table, s)
<1>1. r.size \in Nat
  BY DeleteAssumption DEF DeleteRequests
<1>2. ClusterSize \in Nat /\ ClusterSize > 0
  BY GeometryAssumption
<1>3. r.size \div ClusterSize \in Int /\ r.size \div ClusterSize =< 1
  BY <1>1, <1>2
<1>4. ScrappedEntries(r) = {}
  BY <1>3 DEF ScrappedEntries, CountsForEver, CountValues
<1>5. QED
  BY <1>4 DEF ScrapsBefore

LEMMA StartDeleteStep ==
    ASSUME HarmlessInv, NEW r \in DeleteRequests, StartDelete(r),
           Harmless(r, AsTable(disk[r.parent]))
    PROVE  HarmlessInv'
<1> DEFINE table == AsTable(disk[r.parent])
<1>1. IInv /\ pc = "idle"
  BY DEF HarmlessInv, StartDelete, Deleting
<1>2. Durable(disk, committed)
  BY <1>1, DiskIsDurable
<1>3. op = NoOp /\ fat = DiskMap /\ fat \in [MapEntries -> FatValues]
      /\ reply \in Replies /\ outages \in 0 .. MaxOutages
  BY <1>1, NoOpTypes DEF IInv, TypeOK, CacheCoherent
<1>4. ~ScrapsBefore(r, table, ScanEnd(r, table))
  BY NothingScrapped DEF Harmless
<1>5. disk' = disk
  BY <1>4 DEF StartDelete
<1>6. fat' = [c \in MapEntries |-> fat[c]]
  BY <1>4, Zenon DEF StartDelete
<1>7. fat' = fat
  BY <1>3, <1>6
<1>8. /\ pc' \in {"deleteFull", "deleteScanned"} /\ committed' = committed
      /\ del'.req = r /\ del'.table = table
      /\ r.parent >= 2 /\ IsDirectory(table)
      /\ UNCHANGED <<op, reply, outages>>
  BY <1>4, StartDeleteFacts
<1>9. Within'
  BY <1>3, <1>5, <1>7, <1>8 DEF Within, DiskMap
<1>10. TakenSlot' = FirstOther(r, table) /\ Taken' = <<r.parent, TakenSlot'>>
  BY <1>8 DEF TakenSlot, Taken
<1>11. TakenSlot' # 0 => MayTake(del.table, Taken)'
  BY <1>8, <1>10 DEF Harmless, MayTake
<1>12. Durable(disk', committed')
  BY <1>2, <1>5, <1>8
<1>13. QED
  BY <1>8, <1>9, <1>11, <1>12 DEF HarmlessInv, Deleting

LEMMA DeleteFailsStep ==
    ASSUME HarmlessInv, DeleteFails PROVE HarmlessInv'
<1>1. pc \in {"deleteFull", "deleteScanned"}
      /\ UNCHANGED <<disk, fat, committed>>
      /\ \E ret \in {1, 2} : ReturnFromDelete(ret)
  BY DEF DeleteFails
<1>2. Within /\ Durable(disk, committed)
  BY <1>1 DEF HarmlessInv, Deleting
<1>3. /\ Durable(disk', committed') /\ fat' = AsFat(disk'[FatCluster])
      /\ fat' \in [MapEntries -> FatValues]
      /\ op = NoOp /\ outages \in 0 .. MaxOutages
  BY <1>1, <1>2 DEF Within, DiskMap
<1>4. QED
  BY <1>1, <1>3, ReturnRests

\* What the scan stopped at: the entry that is stored there, whose cluster is
\* the first of its chain, or an empty one.
LEMMA TakenCluster ==
    ASSUME Within, Durable(disk, committed), TakenSlot # 0,
           MayTake(del.table, Taken)
    PROVE  /\ Taken \in DOMAIN committed =>
                 /\ Removed = committed[Taken].chain[1]
                 /\ \A b \in DOMAIN committed :
                       b[1] # committed[Taken].chain[1]
           /\ Taken \notin DOMAIN committed => Removed = 0
           /\ Removed \in MapEntries
           /\ Removed # FatCluster /\ Removed # RootCluster
<1> DEFINE e == del.table[TakenSlot]
<1>1. Taken[2] = TakenSlot /\ Removed = e.high * HalfWord + e.low
  BY DEF Taken, TakenSlot, Removed, ClusterOf
<1>2. ASSUME Taken \in DOMAIN committed
      PROVE  /\ Removed = committed[Taken].chain[1]
             /\ \A b \in DOMAIN committed : b[1] # committed[Taken].chain[1]
             /\ Removed \in DataClusters
  <2> DEFINE r == committed[Taken].req
             chain == committed[Taken].chain
  <2>1. /\ chain \in Seq(DataClusters) /\ Len(chain) >= 1
        /\ Taken = <<r.parent, Taken[2]>>
        /\ Holds(disk, Taken[2], r, chain)
    BY <1>2 DEF Durable, StoredOn
  <2>2. r.parent = del.req.parent
    BY <2>1 DEF Taken
  <2>3. EntryHolds(del.table, TakenSlot, r, chain[1])
    BY <1>1, <2>1, <2>2 DEF Holds, Within
  <2>4. e.user_attribute = NotEmpty /\ e.low = chain[1] /\ e.high = 0
    BY <2>3 DEF EntryHolds
  <2>5. e # ZeroEntry
    BY <2>4 DEF ZeroEntry, NotEmpty
  <2>6. chain[1] \in DataClusters
    BY <2>1
  <2>7. chain[1] \in Int /\ HalfWord \in Int
    BY <2>6, GeometryAssumption DEF DataClusters, RootCluster, HalfWord
  <2>8. Removed = chain[1]
    BY <1>1, <2>4, <2>7
  <2>9. QED
    BY <1>1, <2>5, <2>6, <2>8 DEF MayTake
<1>3. ASSUME Taken \notin DOMAIN committed PROVE Removed = 0
  <2>1. e = ZeroEntry
    BY <1>1, <1>3 DEF MayTake
  <2>2. e.high = 0 /\ e.low = 0
    BY <2>1 DEF ZeroEntry
  <2>3. QED
    BY <1>1, <2>2 DEF HalfWord
<1>4. /\ 0 \in MapEntries /\ 0 # FatCluster /\ 0 # RootCluster
      /\ \A c \in DataClusters :
            c \in MapEntries /\ c # FatCluster /\ c # RootCluster
  BY GeometryAssumption
  DEF DataClusters, MapEntries, FatCluster, RootCluster
<1>5. QED
  BY <1>2, <1>3, <1>4

\* A directory that looks like one has been written after the FAT.
LEMMA FatIsThere ==
    ASSUME Within, NEW com, Durable(disk, com)
    PROVE  /\ disk[FatCluster] # Zero
           /\ del.req.parent \in Clusters /\ del.req.parent >= RootCluster
           /\ del.req.parent # FatCluster
<1>1. /\ del.req.parent \in Clusters /\ del.req.parent >= RootCluster
      /\ del.req.parent # FatCluster
  BY DEF Within, DeleteRequests, RootCluster, FatCluster
<1>2. disk[del.req.parent] # Zero
  BY ZeroSlot, NotZeroIfInUse DEF Within
<1>3. QED
  BY <1>1, <1>2 DEF Durable, FormattedInOrder

LEMMA DeleteFatStep ==
    ASSUME HarmlessInv, DeleteFat PROVE HarmlessInv'
<1>1. /\ pc = "deleteScanned" /\ pc' = "deleteEntry" /\ TakenSlot # 0
      /\ fat' = [fat EXCEPT ![Removed] = EmptyEntry]
      /\ disk' = [disk EXCEPT ![FatCluster] = FatImage(fat')]
      /\ UNCHANGED <<op, reply, committed, outages, del>>
  BY DEF DeleteFat, TakenSlot
<1>2. Within /\ Durable(disk, committed) /\ MayTake(del.table, Taken)
  BY <1>1 DEF HarmlessInv, Deleting
<1>3. fat = AsFat(disk[FatCluster])
  BY <1>2 DEF Within, DiskMap
<1>4. disk \in [Clusters -> ClusterContents] /\ FatCluster \in Clusters
  BY <1>2, FatClusterIsCluster DEF Durable
<1>5. Durable(disk', Without(committed, Taken))
  BY <1>1, <1>2, <1>3, TakenCluster, FatIsThere, FreedIsDurable
<1>6. DiskMap' = fat' /\ disk'[del.req.parent] = disk[del.req.parent]
  BY <1>1, <1>2, <1>4, AsFatOfImage, FatIsThere DEF DiskMap
<1>7. fat' \in [MapEntries -> FatValues]
  BY <1>5, <1>6, <1>4, AsFatType DEF Durable, DiskMap
<1>8. Within'
  BY <1>1, <1>2, <1>6, <1>7 DEF Within
<1>9. TakenSlot' = TakenSlot /\ Taken' = Taken
  BY <1>1 DEF TakenSlot, Taken
<1>10. Disjoint(committed')
  BY <1>1, <1>2 DEF Durable
<1>11. QED
  BY <1>1, <1>5, <1>8, <1>9, <1>10 DEF HarmlessInv, Deleting

LEMMA DeleteEntryStep ==
    ASSUME HarmlessInv, DeleteEntry PROVE HarmlessInv'
<1> DEFINE p == del.req.parent
           rest == Without(committed, Taken)
<1>1. /\ pc = "deleteEntry" /\ ReturnFromDelete(0) /\ fat' = fat
      /\ disk' = [disk EXCEPT ![p] =
                     DirImage([del.table EXCEPT ![TakenSlot] = ZeroEntry])]
      /\ committed' = rest
  BY DEF DeleteEntry, TakenSlot, Taken, Without
<1>2. Within /\ TakenSlot # 0 /\ Durable(disk, rest)
  BY <1>1 DEF HarmlessInv, Deleting
<1>3. TakenSlot \in 1 .. TableSize - 1
  BY <1>2, TakenSlotResult DEF TakenSlot
<1>4. p \in Clusters /\ p >= RootCluster /\ p # FatCluster
  BY <1>2, FatIsThere
<1>5. <<p, TakenSlot>> \notin DOMAIN rest
  BY DEF Without, Taken
<1>6. del.table = AsTable(disk[p]) /\ IsDirectory(AsTable(disk[p]))
  BY <1>2 DEF Within
<1>7. Durable(disk', committed')
  BY <1>1, <1>2, <1>3, <1>4, <1>5, <1>6, ClearedIsDurable
<1>8. disk \in [Clusters -> ClusterContents] /\ FatCluster \in Clusters
  BY <1>2, FatClusterIsCluster DEF Durable
<1>9. fat' = AsFat(disk'[FatCluster])
  BY <1>1, <1>2, <1>4, <1>8 DEF Within, DiskMap
<1>10. QED
  BY <1>1, <1>2, <1>7, <1>9, ReturnRests DEF Within

LEMMA DeleteInvStep ==
    ASSUME DeleteInv, [DeleteNext]_deleteVars PROVE DeleteInv'
<1>1. CASE OtherCalls /\ UNCHANGED <<del, deletes>>
  BY <1>1, OtherCallsStep DEF DeleteInv, AllHarmless
<1>2. ASSUME NEW r \in DeleteRequests, RejectDelete(r) PROVE DeleteInv'
  <2>1. deletes' = deletes
    BY <1>2 DEF RejectDelete, ReturnFromDelete
  <2>2. QED
    BY <1>2, <2>1, RejectDeleteStep DEF DeleteInv, AllHarmless
<1>3. ASSUME NEW r \in DeleteRequests, StartDelete(r) PROVE DeleteInv'
  <2> DEFINE h == Harmless(r, AsTable(disk[r.parent]))
  <2>1. h \in BOOLEAN
    BY DEF Harmless
  <2>2. deletes' = Append(deletes, h)
    BY <1>3 DEF StartDelete
  <2>3. deletes' \in Seq(BOOLEAN)
    BY <2>1, <2>2 DEF DeleteInv
  <2>4. ASSUME AllHarmless' PROVE HarmlessInv'
    <3>1. AllHarmless /\ h
      BY <2>1, <2>2, <2>4, HarmlessBefore DEF DeleteInv
    <3>2. QED
      BY <1>3, <3>1, StartDeleteStep DEF DeleteInv
  <2>5. QED
    BY <2>3, <2>4 DEF DeleteInv
<1>4. CASE DeleteFails
  <2>1. deletes' = deletes
    BY <1>4 DEF DeleteFails, ReturnFromDelete
  <2>2. QED
    BY <1>4, <2>1, DeleteFailsStep DEF DeleteInv, AllHarmless
<1>5. CASE DeleteFat
  <2>1. deletes' = deletes
    BY <1>5 DEF DeleteFat
  <2>2. QED
    BY <1>5, <2>1, DeleteFatStep DEF DeleteInv, AllHarmless
<1>6. CASE DeleteEntry
  <2>1. deletes' = deletes
    BY <1>6 DEF DeleteEntry, ReturnFromDelete
  <2>2. QED
    BY <1>6, <2>1, DeleteEntryStep DEF DeleteInv, AllHarmless
<1>7. CASE UNCHANGED deleteVars
  <2>1. /\ UNCHANGED vars /\ del' = del /\ deletes' = deletes
    BY <1>7 DEF deleteVars
  <2>2. ASSUME IInv PROVE IInv'
    BY <2>1, <2>2, NextStep
  <2>3. UNCHANGED <<disk, fat, pc, op, reply, committed, outages>>
    BY <2>1 DEF vars
  <2>4. Within => Within'
    BY <2>1, <2>3 DEF Within, DiskMap
  <2>5. TakenSlot' = TakenSlot /\ Taken' = Taken
        /\ (MayTake(del.table, Taken) => MayTake(del.table, Taken)')
    BY <2>1, <2>3 DEF TakenSlot, Taken, MayTake
  <2>6. HarmlessInv => HarmlessInv'
    BY <2>1, <2>2, <2>3, <2>4, <2>5 DEF HarmlessInv
  <2>7. QED
    BY <2>1, <2>6 DEF DeleteInv, AllHarmless
<1>8. QED
  BY <1>1, <1>2, <1>3, <1>4, <1>5, <1>6, <1>7 DEF DeleteNext

LEMMA InitDeleteInv == DeleteInit => DeleteInv
<1> SUFFICES ASSUME DeleteInit PROVE DeleteInv
  OBVIOUS
<1>1. IInv /\ pc = "off" /\ deletes = << >>
  BY InitIInv DEF DeleteInit, Init
<1>2. QED
  BY <1>1 DEF DeleteInv, HarmlessInv, Deleting

\* As long as the calls of delete() are harmless, the invariant of the driver
\* holds between them, and in each the disk is durable without the entry
\* that goes.
THEOREM DeleteInvariant == DeleteSpec => []DeleteInv
<1>1. DeleteInv /\ [DeleteNext]_deleteVars => DeleteInv'
  BY DeleteInvStep
<1>2. QED
  BY InitDeleteInv, <1>1, PTL DEF DeleteSpec

LEMMA DisjointChains ==
    ASSUME Disjoint(committed), op = NoOp PROVE ChainsDisjoint
  BY NoOpTypes DEF Disjoint, ChainsDisjoint

\* The cluster that delete() frees is no stored file's: a later write() takes
\* none from one.
THEOREM OwnIsFreed == DeleteSpec => []FreesItsOwn
<1>1. ASSUME DeleteInv, AllHarmless PROVE ChainsDisjoint
  <2>1. HarmlessInv
    BY <1>1 DEF DeleteInv
  <2>2. CASE pc \notin Deleting
    BY <2>1, <2>2 DEF HarmlessInv, IInv
  <2>3. CASE pc \in Deleting
    <3>1. op = NoOp /\ Disjoint(committed)
      BY <2>1, <2>3 DEF HarmlessInv, Within, Durable, Deleting
    <3>2. QED
      BY <3>1, DisjointChains
  <2>4. QED
    BY <2>2, <2>3
<1>2. DeleteInv => FreesItsOwn
  BY <1>1 DEF FreesItsOwn
<1>3. QED
  BY DeleteInvariant, <1>2, PTL

\* Nothing that is stored changes with a delete(), or with a write() after
\* one, but for the entry that goes.
THEOREM OthersStayIntact == DeleteSpec => []LeavesOthersIntact
<1>1. ASSUME DeleteInv, AllHarmless, NEW a \in DOMAIN committed,
             ~(pc = "deleteEntry" /\ a = Taken)
      PROVE  Intact(a)
  <2>1. HarmlessInv
    BY <1>1 DEF DeleteInv
  <2>2. CASE pc \notin Deleting
    BY <2>1, <2>2, CommittedIsIntact DEF HarmlessInv, CommittedIntact
  <2>3. CASE pc \in {"deleteFull", "deleteScanned"}
    BY <2>1, <2>3, StoredIsIntact DEF HarmlessInv, Durable
  <2>4. CASE pc = "deleteEntry"
    <3> DEFINE rest == Without(committed, Taken)
    <3>1. StoredOn(disk, rest)
      BY <2>1, <2>4 DEF HarmlessInv, Durable
    <3>2. a \in DOMAIN rest /\ rest[a] = committed[a]
      BY <1>1, <2>4 DEF Without
    <3>3. QED
      BY <3>1, <3>2, StoredIsIntact
  <2>5. QED
    BY <2>2, <2>3, <2>4 DEF Deleting
<1>2. DeleteInv => LeavesOthersIntact
  BY <1>1 DEF LeavesOthersIntact, Taken, TakenSlot
<1>3. QED
  BY DeleteInvariant, <1>2, PTL

=============================================================================
