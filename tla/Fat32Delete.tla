----------------------------- MODULE Fat32Delete -----------------------------
(***************************************************************************)
(* Fat32 with delete(), filesystem/fat32.c. Nothing in this version of the *)
(* system calls delete(); the module is what its callers would get.        *)
(*                                                                         *)
(* The scan passes over the entries that carry the requested name and      *)
(* removes the first one that does not. On its way it stops at a folder of *)
(* that name that is not empty, and for a file of that name it marks as    *)
(* many FAT entries as the buffer has clusters, less one, as free, from    *)
(* entry 1 on and in RAM only, and overwrites the directory with what is   *)
(* on the stack. With a buffer of 256 clusters or more it does so for ever.*)
(***************************************************************************)
EXTENDS Fat32

CONSTANTS
    DeleteSizes,  \* the values of buffer_size, in blocks
    MaxDeletes    \* how many calls of delete() reach the scan

ASSUME DeleteAssumption == DeleteSizes \subseteq Nat /\ MaxDeletes \in Nat

VARIABLES
    del,          \* the arguments of delete(), and dir_table_buf during it
    deletes       \* history: of each call that has reached the scan, Harmless

deleteVars == <<vars, del, deletes>>

DeleteRequests == [parent : Clusters, name : Names, size : DeleteSizes]

NoDelete == [req |-> [parent |-> 0, name |-> RootName, size |-> 0],
             table |-> [s \in Slots |-> ZeroEntry]]

DeleteInit == Init /\ del = NoDelete /\ deletes = << >>

-----------------------------------------------------------------------------

\* What the stack holds, read as a table: nothing the driver can tell.
Scrap == Text(NoData, 0)

\* The slot the scan stops at, 0 at the end of the table.
FirstOther(r, table) ==
    FirstOr0({s \in 1 .. TableSize - 1 : ~NameMatches(r, table[s])})

\* The entries passed over before that.
PassedOver(r, table) ==
    {s \in 1 .. TableSize - 1 :
        \A t \in 1 .. s : NameMatches(r, table[t])}

\* cluster_high and cluster_low of an entry.
ClusterOf(e) == e.high * HalfWord + e.low

HoldsEntries(table) == \E s \in 1 .. TableSize - 1 : table[s].user_attribute # 0

\* The values of uint8_t k.
CountValues == 256

\* k < buffer_size/CLUSTER_SIZE never fails.
CountsForEver(r) == r.size \div ClusterSize >= CountValues

\* The FAT entries freed for each file on the way, and whether that has
\* been done, and the directory overwritten, before the scan is at slot s.
ScrappedEntries(r) ==
    IF CountsForEver(r) THEN 0 .. CountValues - 1
                        ELSE 1 .. (r.size \div ClusterSize) - 1

ScrapsBefore(r, table, s) ==
    /\ ScrappedEntries(r) # {}
    /\ \E t \in PassedOver(r, table) : t < s /\ table[t].attribute # Subdirectory

FullFolders(r, table) ==
    {s \in PassedOver(r, table) :
        LET c == ClusterOf(table[s])
            scrapped == c = r.parent /\ ScrapsBefore(r, table, s)
        IN  /\ table[s].attribute = Subdirectory
            /\ HoldsEntries(AsTable(IF scrapped THEN Scrap ELSE disk[c]))}

\* Where the scan ends: at such a folder, or past the table at the latest.
ScanEnd(r, table) ==
    IF FullFolders(r, table) # {} THEN First(FullFolders(r, table)) ELSE TableSize

ReturnFromDelete(ret) ==
    /\ pc' = "idle"
    /\ del' = NoDelete
    /\ reply' = Reply("delete", ret)
    /\ UNCHANGED <<op, outages, deletes>>

\* A call that frees no cluster but that of an entry it is sure of: the slot
\* is empty, or holds what write() returned success for, and nothing is
\* stored in that.
Harmless(r, table) ==
    LET s == FirstOther(r, table)
        a == <<r.parent, s>>
    IN  /\ r.size < 2 * ClusterSize
        /\ \/ s = 0
           \/ table[s] = ZeroEntry
           \/ /\ a \in DOMAIN committed
              /\ \A b \in DOMAIN committed : b[1] # committed[a].chain[1]

RejectDelete(r) ==
    /\ pc = "idle"
    /\ r.parent < 2 \/ r.parent > MapSize \/ ~IsDirectory(AsTable(disk[r.parent]))
    /\ ReturnFromDelete(-1)
    /\ UNCHANGED <<disk, fat, committed>>

\* The scan; temp, four bytes, is written to the directory as a cluster. A
\* call at "deleteScraps" never returns.
StartDelete(r) ==
    LET table == AsTable(disk[r.parent])
        scraps == ScrapsBefore(r, table, ScanEnd(r, table))
    IN  /\ pc = "idle"
        /\ Len(deletes) < MaxDeletes
        /\ deletes' = Append(deletes, Harmless(r, table))
        /\ r.parent >= 2 /\ r.parent =< MapSize /\ IsDirectory(table)
        /\ fat' = [c \in MapEntries |->
                    IF scraps /\ c \in ScrappedEntries(r) THEN EmptyEntry
                                                          ELSE fat[c]]
        /\ disk' = IF scraps THEN [disk EXCEPT ![r.parent] = Scrap] ELSE disk
        /\ pc' = IF scraps /\ CountsForEver(r) THEN "deleteScraps"
                 ELSE IF FullFolders(r, table) # {} THEN "deleteFull"
                 ELSE "deleteScanned"
        /\ del' = [req |-> r, table |-> table]
        /\ UNCHANGED <<op, reply, committed, outages>>

DeleteFails ==
    /\ \/ pc = "deleteFull" /\ ReturnFromDelete(2)
       \/ /\ pc = "deleteScanned" /\ FirstOther(del.req, del.table) = 0
          /\ ReturnFromDelete(1)
    /\ UNCHANGED <<disk, fat, committed>>

\* Mutant: the cluster is that of the entry before.
Removed_StaleCluster ==
    LET s == FirstOther(del.req, del.table)
    IN  ClusterOf(del.table[IF s > 1 THEN s - 1 ELSE s])

\* The first cluster of the entry that goes; 0 when the slot is empty.
Removed == ClusterOf(del.table[FirstOther(del.req, del.table)])

\* The FAT is written from RAM.
DeleteFat ==
    LET map == [fat EXCEPT ![Removed] = EmptyEntry]
    IN  /\ pc = "deleteScanned" /\ FirstOther(del.req, del.table) # 0
        /\ fat' = map
        /\ disk' = [disk EXCEPT ![FatCluster] = FatImage(map)]
        /\ pc' = "deleteEntry"
        /\ UNCHANGED <<op, reply, committed, outages, del, deletes>>

\* Mutant: the table is read back from the disk.
DeleteEntry_ReadsBack ==
    LET s == FirstOther(del.req, del.table)
        a == <<del.req.parent, s>>
    IN  /\ pc = "deleteEntry"
        /\ disk' = [disk EXCEPT ![del.req.parent] =
                DirImage([AsTable(disk[del.req.parent]) EXCEPT ![s] = ZeroEntry])]
        /\ committed' = [b \in DOMAIN committed \ {a} |-> committed[b]]
        /\ ReturnFromDelete(0)
        /\ UNCHANGED fat

\* Mutant: i is counted up before the entry is cleared.
DeleteEntry_OneFurther ==
    LET s == FirstOther(del.req, del.table)
        a == <<del.req.parent, s>>
    IN  /\ pc = "deleteEntry"
        /\ disk' = [disk EXCEPT ![del.req.parent] =
                        DirImage([del.table EXCEPT ![s + 1] = ZeroEntry])]
        /\ committed' = [b \in DOMAIN committed \ {a} |-> committed[b]]
        /\ ReturnFromDelete(0)
        /\ UNCHANGED fat

\* The table is written from RAM, without the entry.
DeleteEntry ==
    LET s == FirstOther(del.req, del.table)
        a == <<del.req.parent, s>>
    IN  /\ pc = "deleteEntry"
        /\ disk' = [disk EXCEPT ![del.req.parent] =
                        DirImage([del.table EXCEPT ![s] = ZeroEntry])]
        /\ committed' = [b \in DOMAIN committed \ {a} |-> committed[b]]
        /\ ReturnFromDelete(0)
        /\ UNCHANGED fat

\* The calls made between two delete(). The reads change nothing but the
\* reply, and power does not fail here.
OtherCalls ==
    \/ Mount \/ FormatBoot \/ FormatStep \/ WriteStep
    \/ \E r \in WriteRequests : StartWrite(r)

DeleteNext ==
    \/ OtherCalls /\ UNCHANGED <<del, deletes>>
    \/ \E r \in DeleteRequests : RejectDelete(r) \/ StartDelete(r)
    \/ DeleteFails \/ DeleteFat \/ DeleteEntry

DeleteSpec == DeleteInit /\ [][DeleteNext]_deleteVars

-----------------------------------------------------------------------------
(* Properties.                                                             *)

\* A delete() that returns success has taken one entry, never that of the
\* directory itself, and left the others as they were before the call, also
\* when it has overwritten the directory on its way; no delete() changes a
\* cluster other than the directory's and the FAT's.
TakesOneEntryStep ==
    pc \in {"deleteFull", "deleteScanned", "deleteEntry"} /\ pc' # "off" =>
        /\ \A c \in Clusters \ {FatCluster, del.req.parent} : disk'[c] = disk[c]
        /\ (pc' = "idle" /\ reply'.ret = 0) =>
              \E s \in 1 .. TableSize - 1 :
                 AsTable(disk'[del.req.parent])
                    = [del.table EXCEPT ![s] = ZeroEntry]

TakesOneEntry == [][TakesOneEntryStep]_deleteVars

\* delete() has been called with less than two clusters of buffer only, and
\* took slots that held nothing or a file or folder that write() returned
\* success for, no folder with something in it.
AllHarmless == \A i \in 1 .. Len(deletes) : deletes[i]

\* Then no cluster is in two files: the one freed is that of the entry that
\* goes, so the next write() may have it. (Of a longer file the rest stays
\* taken for good.)
FreesItsOwn == AllHarmless => ChainsDisjoint

\* And all that is stored stays as it was written, but for the entry that is
\* going, whose cluster is freed first; so does what write() stores later.
LeavesOthersIntact ==
    AllHarmless =>
        \A a \in DOMAIN committed :
            \/ Intact(a)
            \/ pc = "deleteEntry"
               /\ a = <<del.req.parent, FirstOther(del.req, del.table)>>

\* fat32.h:288, "delete a file or empty directory", and "1 not found": the
\* entry that goes carries the name of the request.
TakesNamedEntry ==
    pc = "deleteEntry" =>
        NameMatches(del.req, del.table[FirstOther(del.req, del.table)])

=============================================================================
