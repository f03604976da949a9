------------------------- MODULE Fat32StoreProofs -------------------------
(***************************************************************************)
(* Proof that the driver implements FileStore, for every geometry, every   *)
(* set of requests and any number of power failures: but for the fairness  *)
(* of FileStore, which is left to the runs.                                *)
(*                                                                         *)
(* The refinement mapping decodes the disk. The invariant of Fat32Proofs   *)
(* says what it decodes to: the requests that write() returned success     *)
(* for. Each step is then a step of FileStore on those.                    *)
(***************************************************************************)
EXTENDS Fat32Proofs, FiniteSetTheorems

-----------------------------------------------------------------------------
(* Following a chain.                                                      *)

\* The walk of Chain along map, as a function and without recursion: the
\* chain, and "no cluster" after its end.
Walk(chain) ==
    [i \in 0 .. MapSize |-> IF i < Len(chain) THEN chain[i + 1] ELSE EndOfFile]

IsWalk(hop, map, c) ==
    hop = [i \in 0 .. MapSize |->
              IF i = 0 THEN c
              ELSE IF hop[i - 1] \in MapEntries THEN map[hop[i - 1]]
                                                ELSE EndOfFile]

\* The links of map lead along chain, and the chain ends.
LinkedIn(map, chain) ==
    /\ chain \in Seq(DataClusters) /\ Len(chain) >= 1
    /\ \A i \in 1 .. Len(chain) :
          map[chain[i]] = IF i = Len(chain) THEN EndOfFile ELSE chain[i + 1]

LEMMA EndIsNoCluster == EndOfFile \notin MapEntries /\ DataClusters \subseteq MapEntries
  BY GeometryAssumption
  DEF EndOfFile, MapEntries, DataClusters, RootCluster

LEMMA WalkIsWalk ==
    ASSUME NEW map, NEW chain, LinkedIn(map, chain)
    PROVE  IsWalk(Walk(chain), map, chain[1])
<1> DEFINE w == Walk(chain)
           n == Len(chain)
<1>1. chain \in Seq(DataClusters) /\ n \in Nat /\ n >= 1
  BY DEF LinkedIn
<1>2. ASSUME NEW i \in 0 .. MapSize
      PROVE  w[i] = IF i = 0 THEN chain[1]
                    ELSE IF w[i - 1] \in MapEntries THEN map[w[i - 1]]
                                                    ELSE EndOfFile
  <2>1. MapSize \in Nat /\ i \in Nat
    BY GeometryAssumption
  <2>2. CASE i = 0
    BY <1>1, <2>1, <2>2 DEF Walk
  <2>3. CASE i # 0 /\ i - 1 < n
    <3>1. i \in 1 .. n /\ i - 1 \in 0 .. MapSize /\ (i - 1) + 1 = i
      BY <1>1, <2>1, <2>3
    <3>2. w[i - 1] = chain[i] /\ chain[i] \in MapEntries
      BY <1>1, <2>3, <3>1, EndIsNoCluster DEF Walk
    <3>3. map[chain[i]] = IF i = n THEN EndOfFile ELSE chain[i + 1]
      BY <3>1 DEF LinkedIn
    <3>4. w[i] = IF i = n THEN EndOfFile ELSE chain[i + 1]
      BY <1>1, <3>1 DEF Walk
    <3>5. QED
      BY <2>3, <3>2, <3>3, <3>4
  <2>4. CASE i # 0 /\ ~(i - 1 < n)
    <3>1. i - 1 \in 0 .. MapSize /\ ~(i < n)
      BY <1>1, <2>1, <2>4
    <3>2. w[i - 1] = EndOfFile /\ w[i] = EndOfFile
      BY <2>4, <3>1 DEF Walk
    <3>3. QED
      BY <2>4, <3>2, EndIsNoCluster
  <2>5. QED
    BY <2>2, <2>3, <2>4
<1>3. w = [i \in 0 .. MapSize |-> w[i]]
  BY DEF Walk
<1> HIDE DEF w
<1>4. [i \in 0 .. MapSize |-> w[i]] =
      [i \in 0 .. MapSize |->
              IF i = 0 THEN chain[1]
              ELSE IF w[i - 1] \in MapEntries THEN map[w[i - 1]]
                                              ELSE EndOfFile]
  BY <1>2
<1>5. w = [i \in 0 .. MapSize |->
              IF i = 0 THEN chain[1]
              ELSE IF w[i - 1] \in MapEntries THEN map[w[i - 1]]
                                              ELSE EndOfFile]
  BY <1>3, <1>4
<1>6. QED
  BY <1>5 DEF IsWalk, w

\* There is one walk: two would differ first after a step they share.
LEMMA WalkIsUnique ==
    ASSUME NEW map, NEW c, NEW g, NEW h, IsWalk(g, map, c), IsWalk(h, map, c)
    PROVE  g = h
<1> DEFINE Differ == {i \in 0 .. MapSize : g[i] # h[i]}
<1>1. MapSize \in Nat
  BY GeometryAssumption
<1>2. \A i \in 0 .. MapSize :
        /\ g[i] = IF i = 0 THEN c
                  ELSE IF g[i - 1] \in MapEntries THEN map[g[i - 1]]
                                                  ELSE EndOfFile
        /\ h[i] = IF i = 0 THEN c
                  ELSE IF h[i - 1] \in MapEntries THEN map[h[i - 1]]
                                                  ELSE EndOfFile
  BY Zenon DEF IsWalk
<1>3. ASSUME Differ # {} PROVE FALSE
  <2>1. Differ \subseteq Nat
    BY <1>1
  <2>2. PICK m \in Differ : \A j \in Differ : m =< j
    BY <1>3, <2>1, FirstHit
  <2>3. m \in 0 .. MapSize /\ g[m] # h[m]
    BY <2>2
  <2>4. m # 0
    BY <1>2, <2>3
  <2>5. m - 1 \in 0 .. MapSize /\ ~(m =< m - 1)
    BY <1>1, <2>3, <2>4
  <2>6. g[m - 1] = h[m - 1]
    BY <2>2, <2>5
  <2>7. QED
    BY <1>2, <2>3, <2>4, <2>6
<1>4. \A i \in 0 .. MapSize : g[i] = h[i]
  BY <1>3
<1>5. g = [i \in 0 .. MapSize |-> g[i]] /\ h = [i \in 0 .. MapSize |-> h[i]]
  BY Zenon DEF IsWalk
<1>6. QED
  BY <1>4, <1>5

\* A chain that visits no cluster twice is shorter than the FAT.
LEMMA ChainFits ==
    ASSUME NEW chain \in Seq(DataClusters),
           \A i, j \in 1 .. Len(chain) : chain[i] = chain[j] => i = j
    PROVE  Len(chain) \in 0 .. MapSize
<1> DEFINE n == Len(chain)
<1>1. n \in Nat /\ MapSize \in Nat /\ MapSize > 2
  BY GeometryAssumption DEF RootCluster
<1>2. chain \in [1 .. n -> DataClusters]
  OBVIOUS
<1>3. chain \in Injection(1 .. n, DataClusters)
  BY <1>2 DEF Injection, IsInjective
<1>4. /\ IsFiniteSet(DataClusters)
      /\ Cardinality(DataClusters) =< MapSize
  <2>1. RootCluster + 1 \in Int /\ MapSize - 1 \in Int
    BY <1>1 DEF RootCluster
  <2>2. /\ IsFiniteSet(DataClusters)
        /\ Cardinality(DataClusters) =
              IF RootCluster + 1 > MapSize - 1 THEN 0
              ELSE (MapSize - 1) - (RootCluster + 1) + 1
    BY <2>1, FS_Interval DEF DataClusters
  <2>3. QED
    BY <1>1, <2>2 DEF RootCluster
<1>5. Cardinality(1 .. n) =< Cardinality(DataClusters)
  BY <1>3, <1>4, FS_Injection
<1>6. Cardinality(1 .. n) = n
  <2>1. Cardinality(1 .. n) = IF 1 > n THEN 0 ELSE (n - 1) + 1
    BY <1>1, FS_Interval
  <2>2. QED
    BY <1>1, <2>1
<1>7. n =< Cardinality(DataClusters)
  BY <1>5, <1>6
<1>8. Cardinality(DataClusters) \in Nat
  BY <1>4, FS_CardinalityType
<1>9. QED
  BY <1>1, <1>4, <1>7, <1>8

\* Following the links from its first cluster gives back the chain.
LEMMA ChainIsFollowed ==
    ASSUME NEW map, NEW chain, LinkedIn(map, chain),
           \A i, j \in 1 .. Len(chain) : chain[i] = chain[j] => i = j
    PROVE  Chain(map, chain[1]) = chain
<1> DEFINE n == Len(chain)
           w == Walk(chain)
           hop == CHOOSE h : IsWalk(h, map, chain[1])
           S == {i \in 1 .. MapSize : hop[i] \notin MapEntries}
<1>1. /\ chain \in Seq(DataClusters) /\ n \in 1 .. MapSize
      /\ MapSize \in Nat
  BY ChainFits, GeometryAssumption DEF LinkedIn
<1>2. IsWalk(w, map, chain[1])
  BY WalkIsWalk
<1>3. IsWalk(hop, map, chain[1])
  BY <1>2
<1> HIDE DEF hop, w
<1>4. hop = w
  BY <1>2, <1>3, WalkIsUnique
<1>5. /\ \A i \in 0 .. n - 1 : hop[i] = chain[i + 1] /\ hop[i] \in MapEntries
      /\ hop[n] = EndOfFile
  <2>1. ASSUME NEW i \in 0 .. n - 1
        PROVE  hop[i] = chain[i + 1] /\ hop[i] \in MapEntries
    <3>1. i \in 0 .. MapSize /\ i < n /\ i + 1 \in 1 .. n
      BY <1>1
    <3>2. hop[i] = chain[i + 1] /\ chain[i + 1] \in DataClusters
      BY <1>1, <1>4, <3>1 DEF w, Walk
    <3>3. QED
      BY <3>2, EndIsNoCluster
  <2>2. hop[n] = EndOfFile
    <3>1. n \in 0 .. MapSize /\ ~(n < n)
      BY <1>1
    <3>2. QED
      BY <1>4, <3>1 DEF w, Walk
  <2>3. QED
    BY <2>1, <2>2
<1>6. First(S) = n
  <2>1. n \in S
    BY <1>1, <1>5, EndIsNoCluster
  <2>2. S \subseteq Nat
    BY <1>1
  <2>3. First(S) \in S /\ First(S) =< n
    BY <2>1, <2>2, FirstHit
  <2>4. ~(First(S) < n)
    BY <1>1, <1>5, <2>3
  <2>5. QED
    BY <1>1, <2>3, <2>4
<1>7. [i \in 1 .. n |-> hop[i - 1]] = chain
  <2>1. \A i \in 1 .. n : hop[i - 1] = chain[i]
    BY <1>1, <1>5
  <2>2. chain = [i \in 1 .. n |-> chain[i]]
    BY <1>1
  <2>3. QED
    BY <2>1, <2>2
<1>8. Chain(map, chain[1]) = [i \in 1 .. First(S) |-> hop[i - 1]]
  BY DEF Chain, IsWalk, hop
<1>9. QED
  BY <1>6, <1>7, <1>8

-----------------------------------------------------------------------------
(* What the refinement mapping decodes the disk to.                        *)

\* What division gives, and that a larger factor is a divisor further on.
LEMMA QuotientAndRemainder ==
    ASSUME NEW a \in Nat, NEW b \in Nat \ {0}
    PROVE  /\ a \div b \in Nat /\ a % b \in 0 .. b - 1
           /\ a = b * (a \div b) + (a % b)
  OBVIOUS

LEMMA LargerFactor ==
    ASSUME NEW b \in Nat \ {0}, NEW p \in Int, NEW q \in Int, p < q
    PROVE  b * p + b =< b * q
  OBVIOUS

\* The clusters a file takes are its size divided by theirs, rounded up.
LEMMA RoundedUp ==
    ASSUME NEW size \in Nat, NEW len \in Nat, len >= 1,
           (len - 1) * ClusterSize < size, size =< len * ClusterSize
    PROVE  (size + ClusterSize - 1) \div ClusterSize = len
<1> DEFINE C == ClusterSize
           k == len - 1
           s == size + C - 1
           q == s \div C
           r == s % C
<1>1. C \in Nat \ {0} /\ k \in Nat /\ len = k + 1
  BY GeometryAssumption
<1>2. len * C = k * C + C /\ k * C \in Nat
  BY <1>1, NextMultiple
<1>3. k * C = C * k /\ len * C = C * len
  BY <1>1
<1>4. C * len =< s /\ s < C * len + C /\ s \in Nat /\ C * len \in Nat
  BY <1>1, <1>2, <1>3
<1>5. q \in Nat /\ r \in 0 .. C - 1 /\ s = C * q + r
  BY <1>1, <1>4, QuotientAndRemainder
<1> HIDE DEF C, k, s, q, r
<1>6. C * q \in Nat
  BY <1>1, <1>5
<1>7. ~ q < len
  BY <1>1, <1>4, <1>5, <1>6, LargerFactor
<1>8. ~ len < q
  BY <1>1, <1>4, <1>5, <1>6, LargerFactor
<1>9. q = len
  BY <1>5, <1>7, <1>8
<1>10. QED
  BY <1>9 DEF q, s, C

\* What is in the file system, by the requests that put it there.
CommittedItems == [a \in DOMAIN committed |-> RequestItem(committed[a].req)]

LEMMA StoredItemIsRequested ==
    ASSUME IInv, NEW a \in DOMAIN committed
    PROVE  StoredItem(a) = RequestItem(committed[a].req)
<1> DEFINE r == committed[a].req
           chain == committed[a].chain
           n == Len(chain)
           e == EntryAt(a)
<1>1. /\ r \in WriteRequests /\ r.size \in Nat
      /\ chain \in Seq(DataClusters) /\ n \in Nat /\ n >= 1
      /\ a[1] = r.parent
      /\ r.size # 0 => (n - 1) * ClusterSize < r.size /\ r.size =< n * ClusterSize
      /\ Holds(disk, a[2], r, chain)
  BY WriteRequestType DEF IInv, CommittedInv
<1>2. EntryHolds(AsTable(disk[r.parent]), a[2], r, chain[1])
  BY <1>1 DEF Holds
<1>3. /\ e.name = r.name /\ e.low = chain[1] /\ e.filesize = r.size
      /\ r.size = 0 => e.attribute = Subdirectory
      /\ r.size # 0 => e.attribute = 0 /\ e.ext = r.ext
  BY <1>1, <1>2 DEF EntryHolds, EntryAt
<1> HIDE DEF e
<1>4. CASE r.size = 0
  <2>1. IsFolderNamed(AsTable(disk[chain[1]]), r.name)
    BY <1>1, <1>4 DEF Holds
  <2>2. r.ext = NoExt
    BY <1>1, <1>4 DEF WriteRequests
  <2>3. StoredItem(a) = [name |-> r.name, ext |-> NoExt, size |-> r.size,
                         content |-> <<Folder(r.name)>>]
    BY <1>3, <1>4, <2>1 DEF StoredItem, IsFolderNamed, e
  <2>4. QED
    BY <1>4, <2>2, <2>3 DEF RequestItem
<1>5. CASE r.size # 0
  <2>1. \A i \in 1 .. n : disk[chain[i]] = Text(r.data, i - 1)
    BY <1>1, <1>5 DEF Holds
  <2>2. LinkedIn(DiskMap, chain)
    BY <1>1 DEF Holds, Linked, LinkedIn, DiskMap
  <2>3. \A i, j \in 1 .. n : chain[i] = chain[j] => i = j
    BY DEF IInv, ChainsDisjoint
  <2>4. Chain(DiskMap, e.low) = chain
    BY <1>3, <2>2, <2>3, ChainIsFollowed
  <2>5. (r.size + ClusterSize - 1) \div ClusterSize = n
    BY <1>1, <1>5, RoundedUp
  <2>6. DOMAIN chain = 1 .. n /\ Subdirectory # 0
    BY <1>1 DEF Subdirectory
  <2>7. StoredItem(a) = [name |-> r.name, ext |-> r.ext, size |-> r.size,
                         content |-> [i \in 1 .. n |-> disk[chain[i]]]]
    BY <1>3, <1>5, <2>4, <2>6 DEF StoredItem, e
  <2>8. [i \in 1 .. n |-> disk[chain[i]]] = [i \in 1 .. n |-> Text(r.data, i - 1)]
    BY <2>1
  <2>9. RequestItem(r) = [name |-> r.name, ext |-> r.ext, size |-> r.size,
                          content |-> [i \in 1 .. n |-> Text(r.data, i - 1)]]
    BY <1>5, <2>5 DEF RequestItem
  <2>10. QED
    BY <2>7, <2>8, <2>9
<1>6. QED
  BY <1>4, <1>5

LEMMA StoredAreCommitted == IInv => StoredItems = CommittedItems
  BY StoredItemIsRequested DEF StoredItems, CommittedItems

LEMMA ItemIsSomething ==
    ASSUME NEW r \in WriteRequests
    PROVE  RequestItem(r) # NoItem
<1>1. RequestItem(r).name \in Names
  BY WriteRequestType DEF RequestItem
<1>2. NoItem.name = NoName
  BY DEF NoItem
<1>3. QED
  BY <1>1, <1>2, RequestAssumption

-----------------------------------------------------------------------------
(* The steps, on what is committed.                                        *)

\* The steps of FileStore with what is committed for what is stored.
BeginStep ==
    /\ PendingItem = NoItem
    /\ \E r \in WriteRequests : PendingItem' = RequestItem(r)
    /\ CommittedItems' = CommittedItems

EndStep ==
    /\ PendingItem # NoItem
    /\ PendingItem' = NoItem
    /\ \E h \in Addresses :
          /\ h \notin DOMAIN CommittedItems
          /\ CommittedItems' =
                [k \in DOMAIN CommittedItems \cup {h} |->
                    IF k = h THEN PendingItem ELSE CommittedItems[k]]

FailStep ==
    /\ PendingItem # NoItem
    /\ PendingItem' = NoItem
    /\ CommittedItems' = CommittedItems

SameStep == UNCHANGED <<PendingItem, CommittedItems>>

StoreStep == BeginStep \/ EndStep \/ FailStep \/ SameStep

LEMMA SameCommitted ==
    ASSUME committed' = committed
    PROVE  CommittedItems' = CommittedItems /\ SoundDirs' = SoundDirs
  BY DEF CommittedItems, SoundDirs

\* Calls that write nothing, and formatting.
LEMMA NoCallStep ==
    ASSUME pc \notin Writing, pc' \notin Writing, committed' = committed
    PROVE  SameStep
  BY SameCommitted DEF SameStep, PendingItem

LEMMA GoOnStep ==
    ASSUME pc \in Writing, pc' \in Writing, op'.req = op.req,
           committed' = committed
    PROVE  SameStep
  BY SameCommitted DEF SameStep, PendingItem

LEMMA GiveUpStep ==
    ASSUME pc' \notin Writing, committed' = committed
    PROVE  FailStep \/ SameStep
<1>1. PendingItem' = NoItem
  BY DEF PendingItem
<1>2. QED
  BY <1>1, SameCommitted DEF FailStep, SameStep

LEMMA StartWriteBegins ==
    ASSUME NEW r \in WriteRequests, StartWrite(r)
    PROVE  BeginStep \/ SameStep
<1>1. /\ pc \notin Writing /\ pc' \in Writing
      /\ op'.req = r /\ committed' = committed
  BY DEF StartWrite, Writing
<1>2. PendingItem = NoItem /\ PendingItem' \in {RequestItem(r), NoItem}
  BY <1>1 DEF PendingItem
<1>3. QED
  BY <1>1, <1>2, SameCommitted DEF BeginStep, SameStep

LEMMA CommitEnds ==
    ASSUME IInv, pc \in Writing, pc' \notin Writing, Commit
    PROVE  EndStep \/ SameStep
<1> DEFINE new == <<op.req.parent, op.slot>>
<1>1. /\ op.req \in WriteRequests /\ op.slot \in Slots
      /\ new \in Addresses
  BY WriteRequestType DEF IInv, TypeOK, Ops, Addresses
<1>2. PendingItem' = NoItem
  BY DEF PendingItem
<1>3. CASE op.req.parent \in SoundDirs
  <2>1. PendingItem = RequestItem(op.req) /\ PendingItem # NoItem
    BY <1>1, <1>3, ItemIsSomething DEF PendingItem
  <2>2. new \notin DOMAIN committed
    BY <1>3 DEF IInv, OpInv, OpEntry
  <2> HIDE DEF new
  <2>3. committed' = [a \in DOMAIN committed \cup {new} |->
                        IF a = new THEN [req |-> op.req, chain |-> op.chain]
                                   ELSE committed[a]]
    BY <1>3 DEF Commit, new
  <2>4. /\ DOMAIN committed' = DOMAIN committed \cup {new}
        /\ committed'[new].req = op.req
        /\ \A a \in DOMAIN committed : a # new => committed'[a] = committed[a]
    BY <2>3
  <2>5. CommittedItems' =
            [k \in DOMAIN committed \cup {new} |->
                RequestItem(committed'[k].req)]
    BY <2>4 DEF CommittedItems
  <2>6. \A k \in DOMAIN committed \cup {new} :
            RequestItem(committed'[k].req) =
                IF k = new THEN PendingItem ELSE CommittedItems[k]
    BY <2>1, <2>4 DEF CommittedItems
  <2>7. DOMAIN CommittedItems = DOMAIN committed
    BY DEF CommittedItems
  <2>8. CommittedItems' =
            [k \in DOMAIN CommittedItems \cup {new} |->
                IF k = new THEN PendingItem ELSE CommittedItems[k]]
    BY <2>5, <2>6, <2>7
  <2>9. QED
    BY <1>1, <1>2, <2>1, <2>2, <2>7, <2>8 DEF EndStep
<1>4. CASE op.req.parent \notin SoundDirs
  <2>1. PendingItem = NoItem /\ committed' = committed
    BY <1>4 DEF PendingItem, Commit
  <2>2. QED
    BY <1>2, <2>1, SameCommitted DEF SameStep
<1>5. QED
  BY <1>3, <1>4

LEMMA NextStoreStep == ASSUME IInv, [Next]_vars PROVE StoreStep
<1>1. CASE Mount \/ FormatBoot \/ FormatStep
  BY <1>1, NoCallStep
  DEF StoreStep, Mount, FormatBoot, FormatStep, FormatFat, FormatRoot, Writing
<1>2. CASE WriteStep
  <2>1. CASE WriteFolderTable \/ WriteFileData \/ WriteNextLink
    BY <2>1, GoOnStep
    DEF StoreStep, WriteFolderTable, WriteFileData, WriteNextLink, Writing
  <2>2. CASE WriteFolderFat \/ WriteLastLink
    BY <2>2, CommitEnds
    DEF StoreStep, WriteFolderFat, WriteLastLink, Return, Writing
  <2>3. CASE WriteNoSpace
    BY <2>3, GiveUpStep DEF StoreStep, WriteNoSpace, Return, Writing
  <2>4. QED
    BY <1>2, <2>1, <2>2, <2>3 DEF WriteStep
<1>3. CASE \E r \in WriteRequests : StartWrite(r)
  BY <1>3, StartWriteBegins DEF StoreStep
<1>4. CASE \E r \in WriteRequests : RejectWrite(r)
  BY <1>4, NoCallStep DEF StoreStep, RejectWrite, Return, Writing
<1>5. CASE \E r \in ReadRequests : Read(r) \/ ReadDirectory(r)
  BY <1>5, NoCallStep DEF StoreStep, Read, ReadDirectory, Writing
<1>6. CASE Crash
  BY <1>6, GiveUpStep DEF StoreStep, Crash, Writing
<1>7. CASE UNCHANGED vars
  <2>1. pc' = pc /\ op' = op /\ committed' = committed
    BY <1>7 DEF vars
  <2>2. QED
    BY <2>1, SameCommitted DEF StoreStep, SameStep, PendingItem
<1>8. QED
  BY <1>1, <1>2, <1>3, <1>4, <1>5, <1>6, <1>7 DEF Next

-----------------------------------------------------------------------------
(* The refinement.                                                         *)

LEMMA InitRefines == Init => Store!Init
<1> SUFFICES ASSUME Init PROVE Store!Init
  OBVIOUS
<1>1. pc \notin Writing /\ DOMAIN committed = {}
  BY NoOpTypes DEF Init
<1>2. PendingItem = NoItem
  BY <1>1 DEF PendingItem
<1>3. StoredItems = [h \in {} |-> NoItem]
  BY <1>1 DEF StoredItems
<1>4. QED
  BY <1>2, <1>3 DEF Store!Init

LEMMA NextRefines ==
    ASSUME StoreStep, StoredItems = CommittedItems,
           StoredItems' = CommittedItems'
    PROVE  [Store!Next]_(Store!vars)
<1>1. CASE BeginStep
  BY <1>1 DEF BeginStep, Store!Next, Store!Begin
<1>2. CASE EndStep
  BY <1>2 DEF EndStep, Store!Next, Store!Commit
<1>3. CASE FailStep
  BY <1>3 DEF FailStep, Store!Next, Store!Fail
<1>4. CASE SameStep
  BY <1>4 DEF SameStep, Store!vars
<1>5. QED
  BY <1>1, <1>2, <1>3, <1>4 DEF StoreStep

\* For every disk, every sequence of calls and every power failure: a write
\* is stored as a whole at its last FAT update or not at all, and what was
\* stored once stays as it is, read off the disk the way the layout says.
THEOREM FileStoreIsImplemented == Spec => ImplementsFileStore
<1> DEFINE Decoded == StoredItems = CommittedItems
<1>1. IInv => Decoded
  BY StoredAreCommitted
<1>2. IInv /\ [Next]_vars => StoreStep
  BY NextStoreStep
<1>3. StoreStep /\ Decoded /\ Decoded' => [Store!Next]_(Store!vars)
  BY NextRefines
<1> HIDE DEF Decoded
<1>4. Spec => Store!Spec
  BY <1>1, <1>2, <1>3, InitRefines, InductiveInvariant, PTL
  DEF Spec, Store!Spec
<1>5. QED
  BY <1>4 DEF ImplementsFileStore

=============================================================================
