-------------------------- MODULE Fat32Documented --------------------------
(***************************************************************************)
(* What fat32.h says of the driver and the driver does not do, refuted by  *)
(* a run of its own (README.md, "Findings").                               *)
(***************************************************************************)
EXTENDS Fat32

\* fat32.h:27 has END_OF_FILE mark "this is last valid cluster in the chain":
\* a chain that starts at an entry in use reaches it. A write() that finds
\* the disk full returns -1 with the entry and the links already on disk, and
\* the last of them names a cluster that is free and will be given to others.
ChainsEnd ==
    pc = "idle" =>
        \A d \in SoundDirs, s \in 1 .. TableSize - 1 :
            LET e == AsTable(disk[d])[s]
            IN  e.user_attribute = NotEmpty =>
                    \A c \in {Chain(DiskMap, e.low)[i] :
                                i \in DOMAIN Chain(DiskMap, e.low)} :
                        DiskMap[c] # EmptyEntry

=============================================================================
