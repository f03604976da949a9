------------------------------- MODULE AtaDisk -------------------------------
(***************************************************************************)
(* The disk driver of hexOS, filesystem/disk.c, and the ATA drive it       *)
(* polls. The driver sends a command and then moves each block word by     *)
(* word through the data port; the drive stores and fetches blocks in its  *)
(* own time, can fail, and can lose power with the rest of the machine.    *)
(*                                                                         *)
(* The drive is external. It is busy from the moment it gets a command or  *)
(* a full block (ATA grants it 400 ns for that; the emulator the system    *)
(* is run on takes none), asks for words with DRQ, and is ready whenever   *)
(* it is not busy. It stores a block as a whole.                           *)
(***************************************************************************)
EXTENDS Integers, Sequences

CONSTANTS
    NumBlocks,         \* the number of blocks of the disk
    Words,             \* HALF_BLOCK_SIZE, in words
    ClusterBlocks,     \* CLUSTER_BLOCK_COUNT
    Byte,              \* the values of a register of the drive: 256
    Nibble,            \* the values of the low half of the head register: 16
    UsedClusters,      \* the clusters that are read and written
    Data               \* what the callers' buffers can hold

HeadBits == 14         \* 0xE0: address by logical block, first drive

ASSUME DiskAssumption ==
    /\ NumBlocks \in Nat \ {0} /\ Words \in Nat \ {0}
    /\ ClusterBlocks \in Nat \ {0} /\ Byte \in Nat \ {0} /\ Nibble \in Nat \ {0}
    /\ NumBlocks =< Nibble * Byte * Byte * Byte
    /\ UsedClusters \subseteq Nat
    /\ \A c \in UsedClusters : (c + 1) * ClusterBlocks =< NumBlocks
    /\ "fresh" \notin Data /\ "junk" \notin Data

VARIABLES
    pc,           \* "idle", "wait" for a block, or "move" its words
    call,         \* the arguments of the call, the last one's when idle
    i, j,         \* the loop counters: the block, and the word in it
    buf,          \* the words a read has put in the caller's buffer
    status,       \* the drive is "busy", asks for "data", is "ready" or in "error"
    at, left,     \* the next block of its command, and how many are left
    sector,       \* the words in its buffer
    media         \* what is stored on the disk

driver == <<pc, call, i, j, buf>>
drive == <<status, at, left, sector>>
vars == <<driver, drive, media>>

Blocks == 0 .. NumBlocks - 1

\* A word of a block: where it comes from, and its place there.
Word(d, n) == <<d, n>>
FreshBlock == [n \in 1 .. Words |-> Word("fresh", 0)]
Junk == Word("junk", 0)

-----------------------------------------------------------------------------
(* Calls: read_clusters() and write_clusters() of one cluster, and the     *)
(* read_blocks() of is_empty_storage().                                    *)

ClusterToLba(c) == c * ClusterBlocks

ReadBlocks(lba, count) ==
    [op |-> "read", lba |-> lba, count |-> count, data |-> "junk"]
WriteBlocks(d, lba, count) ==
    [op |-> "write", lba |-> lba, count |-> count, data |-> d]

Calls ==
    {ReadBlocks(0, 1)}
    \cup {ReadBlocks(ClusterToLba(c), ClusterBlocks) : c \in UsedClusters}
    \cup {WriteBlocks(d, ClusterToLba(c), ClusterBlocks) :
            d \in Data, c \in UsedClusters}

\* Mutant: the high register gets the bits of the middle one.
Registers_MidTwice(c) ==
    [head |-> HeadBits * Nibble
                + ((c.lba \div (Byte * Byte * Byte)) % Nibble),
     low |-> c.lba % Byte,
     mid |-> (c.lba \div Byte) % Byte,
     high |-> (c.lba \div Byte) % Byte]

\* What the driver puts in the drive's registers, and the drive makes of it.
Registers(c) ==
    [head |-> HeadBits * Nibble
                + ((c.lba \div (Byte * Byte * Byte)) % Nibble),
     low |-> c.lba % Byte,
     mid |-> (c.lba \div Byte) % Byte,
     high |-> (c.lba \div (Byte * Byte)) % Byte]

AddressIn(regs) ==
    (((regs.head % Nibble) * Byte + regs.high) * Byte + regs.mid) * Byte
        + regs.low

-----------------------------------------------------------------------------
(* The driver.                                                             *)

AtaBusyWaitEnds == status # "busy"

\* Mutant: the data request bit is tested, as the name says.
AtaDrqWaitEnds_TestsDrq == status = "data"

\* ATA_DRQ_wait() tests the ready bit.
AtaDrqWaitEnds == status # "busy"

IssueCommand(c) ==
    /\ pc = "idle"
    /\ AtaBusyWaitEnds
    /\ pc' = "wait" /\ call' = c /\ i' = 0 /\ j' = 0 /\ buf' = << >>
    /\ status' = "busy"
    /\ at' = AddressIn(Registers(c)) /\ left' = c.count /\ sector' = << >>
    /\ UNCHANGED media

WaitForBlock ==
    /\ pc = "wait"
    /\ AtaBusyWaitEnds /\ AtaDrqWaitEnds
    /\ pc' = "move"
    /\ UNCHANGED <<call, i, j, buf, drive, media>>

\* Mutant: the driver does not wait between two blocks.
NextWord_NoWait ==
    IF j + 1 < Words
    THEN j' = j + 1 /\ UNCHANGED <<pc, i>>
    ELSE j' = 0 /\ i' = i + 1
         /\ pc' = IF i + 1 = call.count THEN "idle" ELSE "move"

\* Mutant: the outer loop runs once too often.
NextWord_OneMore ==
    IF j + 1 < Words
    THEN j' = j + 1 /\ UNCHANGED <<pc, i>>
    ELSE j' = 0 /\ i' = i + 1
         /\ pc' = IF i = call.count THEN "idle" ELSE "wait"

\* The two loops.
NextWord ==
    IF j + 1 < Words
    THEN j' = j + 1 /\ UNCHANGED <<pc, i>>
    ELSE j' = 0 /\ i' = i + 1
         /\ pc' = IF i + 1 = call.count THEN "idle" ELSE "wait"

\* in16(): the drive is done with a block when its last word is fetched.
ReadWord ==
    /\ pc = "move" /\ call.op = "read"
    /\ NextWord
    /\ IF status = "data"
       THEN /\ buf' = Append(buf, Head(sector))
            /\ sector' = Tail(sector)
            /\ IF Len(sector) > 1
               THEN UNCHANGED <<status, at, left>>
               ELSE /\ status' = IF left = 1 THEN "ready" ELSE "busy"
                    /\ at' = at + 1 /\ left' = left - 1
       ELSE buf' = Append(buf, Junk) /\ UNCHANGED drive
    /\ UNCHANGED <<call, media>>

\* out16(): the drive stores a block once it has all its words.
WriteWord ==
    /\ pc = "move" /\ call.op = "write"
    /\ NextWord
    /\ IF status = "data"
       THEN /\ sector' = Append(sector, Word(call.data, Words * i + j))
            /\ status' = IF Len(sector') = Words THEN "busy" ELSE "data"
       ELSE UNCHANGED <<sector, status>>
    /\ UNCHANGED <<call, buf, at, left, media>>

-----------------------------------------------------------------------------
(* The drive.                                                              *)

Fetch ==
    /\ status = "busy" /\ call.op = "read"
    /\ sector' = media[at]
    /\ status' = "data"
    /\ UNCHANGED <<driver, at, left, media>>

Accept ==
    /\ status = "busy" /\ call.op = "write" /\ sector = << >>
    /\ status' = "data"
    /\ UNCHANGED <<driver, at, left, sector, media>>

Store ==
    /\ status = "busy" /\ call.op = "write" /\ sector # << >>
    /\ media' = [media EXCEPT ![at] = sector]
    /\ sector' = << >> /\ at' = at + 1 /\ left' = left - 1
    /\ status' = IF left = 1 THEN "ready" ELSE "data"
    /\ UNCHANGED driver

\* ERR and DF are never tested: the driver goes on as if nothing had happened.
Fail ==
    /\ status = "busy"
    /\ status' = "error" /\ sector' = << >>
    /\ UNCHANGED <<driver, at, left, media>>

\* The power fails and comes back.
PowerFails ==
    /\ pc' = "idle" /\ i' = 0 /\ j' = 0 /\ buf' = << >>
    /\ status' = "ready" /\ sector' = << >>
    /\ UNCHANGED <<call, at, left, media>>

Init ==
    /\ pc = "idle" /\ call = ReadBlocks(0, 1) /\ i = 0 /\ j = 0 /\ buf = << >>
    /\ status = "ready" /\ at = 0 /\ left = 0 /\ sector = << >>
    /\ media = [b \in Blocks |-> FreshBlock]

DriverStep == WaitForBlock \/ ReadWord \/ WriteWord
DriveStep == Fetch \/ Accept \/ Store \/ Fail

Next ==
    \/ \E c \in Calls : IssueCommand(c)
    \/ DriverStep \/ DriveStep \/ PowerFails

\* The processor goes on polling, and the drive is not busy for ever.
Spec == Init /\ [][Next]_vars /\ WF_vars(DriverStep) /\ WF_vars(DriveStep)

-----------------------------------------------------------------------------
(* Properties.                                                             *)

AllWords ==
    {Word(d, n) : d \in Data, n \in 0 .. Words * ClusterBlocks - 1}
    \cup {Word("fresh", 0), Junk}

\* Every variable keeps its shape; the driver's counters stay in the call and
\* the drive's in the disk.
TypeOK ==
    /\ pc \in {"idle", "wait", "move"}
    /\ call \in Calls
    /\ i \in 0 .. call.count /\ j \in 0 .. Words - 1
    /\ (pc # "idle" => i < call.count)
    /\ buf \in Seq(AllWords)
    /\ call.op = "read" => Len(buf) = Words * i + j
    /\ status \in {"busy", "data", "ready", "error"}
    /\ at \in 0 .. NumBlocks /\ left \in Nat
    /\ sector \in Seq(AllWords) /\ Len(sector) =< Words
    /\ media \in [Blocks -> [1 .. Words -> AllWords]]

\* The word-by-word protocol stays in step with the drive: whenever the drive
\* asks for data the driver is about to move exactly the word it asks for, of
\* the block it is at, so no word is moved twice, skipped, or moved early.
InStep ==
    /\ status = "data" => pc \in {"wait", "move"} /\ at = call.lba + i
    /\ pc = "move" /\ status # "error" =>
            /\ status = "data"
            /\ Len(sector) = IF call.op = "read" THEN Words - j ELSE j

\* The blocks of a sequence of words.
InBlocks(words) ==
    [b \in 1 .. Len(words) \div Words |->
        SubSeq(words, (b - 1) * Words + 1, b * Words)]

\* What a call hands over, or has to fill.
CallBlocks(c) ==
    InBlocks([n \in 1 .. Words * c.count |-> Word(c.data, n - 1)])

AbstractCall(c) ==
    [op |-> c.op, lba |-> c.lba, count |-> c.count, data |-> CallBlocks(c)]

\* The block the drive has got and not stored.
Late ==
    IF status = "busy" /\ Len(sector) = Words THEN {<<at, sector>>} ELSE {}

NoCall == [op |-> "none", lba |-> 0, count |-> 0, data |-> << >>]

Abstract == INSTANCE BlockStore WITH
    Blocks <- Blocks,
    Contents <- [1 .. Words -> AllWords],
    Fresh <- FreshBlock,
    Calls <- {AbstractCall(c) : c \in Calls},
    NoCall <- NoCall,
    stored <- media,
    late <- Late,
    call <- IF pc = "idle" THEN NoCall ELSE AbstractCall(call),
    done <- IF call.op = "read" THEN InBlocks(buf)
                                ELSE SubSeq(CallBlocks(call), 1, i),
    failed <- status = "error"

\* A call reads what was last stored in its blocks and writes each of its
\* blocks, whole, where it belongs and before the next one: only the last
\* block of a call can still be on its way when the call has returned.
ImplementsBlockStore == Abstract!Spec

\* Every call comes to its end, and so does the wait of the next one for the
\* drive, also when the drive fails and never asks for the data.
DriverFree == []<>(pc = "idle" /\ status # "busy")

=============================================================================
