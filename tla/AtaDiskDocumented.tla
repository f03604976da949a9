-------------------------- MODULE AtaDiskDocumented --------------------------
(***************************************************************************)
(* What disk.h says of the disk driver and the driver does not do, refuted *)
(* by a run of its own (README.md, "Findings").                            *)
(***************************************************************************)
EXTENDS AtaDisk

\* disk.h:42, "Will blocking until write is completed": when write_blocks()
\* returns, nothing it wrote is still on its way to the disk. The driver waits
\* for the drive before each block and not after the last one.
WriteCompletes == pc = "idle" => Late = {}

=============================================================================
