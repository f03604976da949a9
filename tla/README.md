# hexOS: a TLA+ verification of the kernel's state machines

hexOS is a small 32-bit x86 kernel (`src/src`): it boots, mounts or formats a FAT32-like file
system, loads a shell from it and serves the shell's system calls. This directory holds a model
of it in TLA+, the TLC configurations that check the model on small instances, and proofs that
TLAPS checks for every instance.

## 1. Inventory

| Component | Files (under `src/src`) | State | Operations |
|---|---|---|---|
| FAT32 driver | `filesystem/fat32.c`, `.h` | the disk; the cached FAT `fat_state.fat_table`; buffers that every use refills | `initialize_filesystem_fat32`, `create_fat32`, `write`, `read`, `read_directory`, `delete`, `get_dir_name` |
| ATA driver | `filesystem/disk.c` | the drive's ports, the transfer in progress | `read_blocks`, `write_blocks` |
| Keyboard | `keyboard/keyboard.c` | `keyboard_input_on`, `buffer_index`, `keyboard_buffer`, the statics `last_key_pressed`, `make_code` | `keyboard_isr`, `keyboard_state_activate/deactivate`, `get_keyboard_buffer`, `is_keyboard_blocking` |
| Interrupts, system calls | `interrupt/*` | the IDT, the PIC's masks and in-service bits, the interrupt flag, the stack pointer of the task state segment | `pic_remap`, `pic_ack`, `activate_keyboard_interrupt`, `main_interrupt_handler`, `syscall`, `puts`, `cmd_ls`, `cmd_mkdir` |
| Framebuffer | `framebuffer.c` | 80x25 cells, the hardware cursor | `framebuffer_write`, `_set_cursor`, `_get_cursor`, `_clear` |
| Kernel start-up | `kernel.c`, `kernel_loader.s` | the order of all the others' initialisation | `kernel_setup` |
| Paging | `paging/*` | the page directory, the next free frame | `allocate_single_user_page_frame` |
| Segmentation | `gdt.c` | the descriptor of the task state segment | `gdt_install_tss`, `set_tss_register`, `set_tss_kernel_current_stack` |
| Helpers | `stdmem.c`, `portio.c` | none | byte loops, port access |
| Shell | `user-mode/*` | one 16 byte line | a loop of system calls 6, 6, 6, 6, 4, 5 |
| Inserter | `external-inserter.c` | a copy of the disk image in memory; the image file | a host program: the FAT32 driver's `write`, then the image is written back |

### How they interact

* The kernel calls the FAT32 driver from the boot code and from system calls 0 (`read`) and 10
  (`write` of a folder). Both run to completion: interrupt 0x30 enters through an interrupt gate,
  which clears the interrupt flag, and only system call 4 sets it again. Two calls of the driver
  never overlap.
* The driver works on whole clusters through `read_clusters` and `write_clusters`, which call the
  ATA driver (in the inserter: copy from and to memory).
* System call 4 sets `keyboard_input_on`, enables interrupts and spins until the keyboard handler
  clears the flag at the end of a line; then it copies the buffer. Handler and system calls share
  the hardware cursor.
* The boot code enables interrupts (`initialize_idt`) before it masks all lines but the keyboard's, and
  mounts the volume, installs the task state segment and loads the shell with interrupts enabled.
* The page directory's first entry is the loader's identity mapping at first and the shell's page later;
  the kernel's handlers write to the shell through it.

### What is hard, and what must be true

* **FAT32 driver.** A call consists of several disk writes and the power may fail between any two;
  the disk may fill up in the middle of a file; allocation reads the FAT from RAM at first and from
  disk later; nothing read from the disk is checked. It is correct when no cluster belongs to two
  files, what `write` returned success for stays as it was written, `read` finds it, a call touches
  nothing but free space, and a call takes effect as a whole or not at all.
* **ATA driver.** The order of status polls and data transfers; what is durable when `write_blocks`
  returns. Correct when each block transferred is the block asked for.
* **Keyboard, interrupts, system calls.** The handler interleaves with the wait of system call 4 and
  with the shell; the controller and the PIC remember an interrupt that was not served. Correct when
  a line typed is the line returned, and a wait for a line ends once the user goes on typing.
* **Start-up, interrupts, paging.** An interrupt may come at any step from `initialize_idt` on, inside the
  wait of system call 4, and with any mapping cached. Correct when what an interrupt needs is there
  whenever one can come, when what was interrupted goes on as it was, when the program cannot reach the
  kernel's frame, and when the file system driver, whose buffers are static, is never entered twice.
* **Inserter.** The image is truncated before it is written back. Correct when what runs inserted and wrote back
  stays, and when a run that is killed in writing it back takes away no more than the part it has not written.

`PROJECT.json` lists the hazards one by one, at their lines, with the properties that watch them.

## 2. Modules

| Module | What it is |
|---|---|
| `FileStore` | the abstract promise of a file store: a write takes effect as a whole or not at all, what is stored never changes |
| `Fat32` | the FAT32 driver, one action per durable disk write, with power failures; its properties |
| `Fat32Documented` | what the comments of `fat32.h` say of the driver and the code violates |
| `Fat32Delete` | `Fat32` with `delete()`, which nothing calls yet |
| `Inserter` | the driver of `Fat32` run by the host program on an image in memory |
| `Fat32Proofs` | the inductive invariant of `Fat32` and the theorems, checked by TLAPS |
| `LineEditor` | the abstract promise of system call 4: one reader, one line, what was typed less what was erased |
| `Framebuffer` | the arithmetic of the text cursor: its 16 bit position, 8 bit rows and columns |
| `Console` | the keyboard driver, composed with the user, the keyboard controller, the PIC, the boot order and the shell's loop of system calls; extends `Framebuffer` |
| `ConsoleDocumented` | what the comments of `keyboard.h` say and the code violates |
| `MCConsole`, `MCConsoleCursor` | the instances for TLC, the second with a history variable (where the line begins) and `CursorFollowsLine` |
| `BlockStore` | the abstract promise of the disk driver: blocks read and written whole, in order, the last one perhaps late |
| `AtaDisk` | `disk.c` word by word, against a drive with its own speed, errors and power failures |
| `AtaDiskDocumented` | what the comment of `disk.h` says and the code does not do |
| `AtaDiskProofs` | the invariant of `AtaDisk` and its refinement of `BlockStore`, for every geometry, checked by TLAPS |
| `Fat32NamesProofs`, `Fat32StoreProofs` | what names find, and the refinement of `FileStore`; both extend `Fat32Proofs` |
| `InserterProofs`, `Fat32DeleteProofs` | `Inserter` and `Fat32Delete`, from the invariant of `Fat32Proofs` |
| `ConsoleProofs` | the invariant of `Console`, its refinement of `LineEditor`, and the cursor |
| `Processor` | the start from the loader on, segments, pages, gates, stubs, dispatch and return, with interrupts |
| `ProcessorProofs` | the invariant of `Processor` and its safety properties, checked by TLAPS |

`Fat32` takes `write_clusters` as durable when it returns. `AtaDisk` shows how far that is from the drive:
the last block of the last call may still be on its way, all earlier ones are stored. `Fat32`'s clusters
are written one call each, so a power failure that loses the late block is one that came before the call's
end. What is not covered is a caller that takes success for stored and pulls the plug at once (run
`ata_write_completes`).

### Fat32

`disk` maps each cluster to its content, `fat` is the FAT in RAM, `op` holds the local variables of
the `write` in progress, `pc` says after which of its disk writes the driver is, `reply` is the last
result. `committed` and `outages` are history: what `write` returned success for, and how often
the power failed.

| Action | Code (`fat32.c`) |
|---|---|
| `Mount`, `FormatBoot`, `FormatFat`, `FormatRoot` | `initialize_filesystem_fat32`, `create_fat32`, cut at its three disk writes |
| `RejectWrite` | `write` up to each of its early returns |
| `StartWrite` | `write`: validation, search for a cluster and a slot, the entry to the parent directory |
| `WriteFolderTable`, `WriteFolderFat` | the folder's own table; the FAT, from RAM |
| `WriteFileData` | a cluster of the file's data |
| `WriteLastLink`, `WriteNextLink`, `WriteNoSpace` | the FAT read back from disk, then the end mark, a link to the next free cluster, or the return on a full disk |
| `Read`, `ReadDirectory` | `read`, `read_directory` |
| `Crash` | power failure: RAM is lost, the disk stays |

An action is everything the code does up to and including its next `write_clusters`; the reads and
computations in between see a disk that nobody else changes, so no interleaving is lost.

Abstractions:

* A cluster is written as a whole or not at all. A cluster is four blocks, and power can fail
  between two of them; but each disk write of the driver changes one FAT entry, one directory entry
  or data that nothing refers to yet, and the first two lie inside one block, so for them a cut
  write is the write or nothing. Cut data is data in a cluster the FAT has free, which the
  properties never look at.
* File data is a payload and a part number. Text is taken not to look like a directory (the byte
  of `user_attribute` is not 0xAA in it). The image starts zeroed, as the makefile creates it.
* Sizes count blocks, not bytes: the driver compares sizes only with each other and with multiples of
  the cluster size. `CLUSTER_SIZE` and the number of clusters are parameters.
* Names, extensions and payloads are sets given by the configuration. `RootName` is one of the names:
  a request may ask for what the directory itself is called.
* A request may name any cluster as its parent, as the driver's callers may. Writes below a directory
  that no successful call created (leftovers of failed calls can look like one) are modelled in full
  but are not counted as stored.
* `get_dir_name` only fills a buffer that every use refills, and nothing calls it.

### Properties of Fat32

* `TypeOK`, the type invariant.
* `CacheCoherent`: the FAT in RAM is the FAT on disk once mounted.
* `ReservedKept`: the boot signature, the reserved FAT entries and the root directory come before
  everything else and stay, also when formatting was cut off and the volume is mounted all the same.
* `ChainsDisjoint`: no cluster belongs to two files or folders, nor to a stored one and to the call
  in progress.
* `CommittedIntact`: the entry, the FAT links and the data of everything stored are on the disk.
* `Readable`: `read` returns it, whatever else lies in the directory.
* `NamesUnique`: no two stored files (folders) of one name in a directory, but for the directory's own.
* `OnlyFreeSpaceChanges`: an action property; a step changes only clusters and FAT entries that are
  free, or adds an entry to an empty slot.
* `ImplementsFileStore`: every behaviour, read through a refinement mapping, is one of `FileStore`. The mapping
  takes the store to be `StoredItems`, what is decoded from the disk at each committed address, from the entry
  along the FAT, and the pending write to be `PendingItem`, the request of the call whose entry is in a
  directory. Decoded data that is broken is `NoItem`, which is no item of `FileStore`.
* `CallsReturn`: a call that has begun ends, unless power fails.

### Fat32Delete

`del` holds the request and the directory as the call read it, `deletes` records of each call so far whether
it was `Harmless`.

| Action | Code (`fat32.c`) |
|---|---|
| `RejectDelete` | `delete` up to its check of the parent |
| `StartDelete` | the scan: it passes over the entries of the requested name; for a file among them it frees FAT entries 1, 2, ... in RAM and overwrites the directory with its stack, with 256 clusters of buffer or more for ever (`pc` stays "deleteScraps") |
| `DeleteFails` | a folder that is not empty, or the end of the table |
| `DeleteFat`, `DeleteEntry` | the FAT, then the directory, from RAM |

* `TakesOneEntry`: a successful call takes one entry and leaves the others, also when it has overwritten
  the directory on its way, because the copy in RAM is written at the end.
* `FreesItsOwn`, `LeavesOthersIntact`: no cluster gets into two files, and all that is stored stays as it was
  written (but for the entry that goes, between the two writes of its `delete`), as long as every call was
  `Harmless`: less than two clusters of buffer, and the entry taken is empty, or one that a successful call wrote
  and that nothing is stored in. Each condition is needed. A larger buffer frees other files' clusters. An
  entry that an unfinished `write` left behind names a cluster that may belong to another file by now. And a folder
  can go with everything in it, because `delete` tests for emptiness only the folders it passes over, so that the
  next `write` may take its cluster for a file's data.
* Power failures are left out: the FAT is written before the directory, so one in between leaves an entry
  that names a free cluster.

### Inserter

`image` is the file's clusters, `run` how far a run is, `saved` what runs reported and wrote back. The driver's actions
are those of `Fat32`; its disk is the memory the image was read into.

| Action | Code (`external-inserter.c`) |
|---|---|
| `Load` | the image is read; the part a killed run did not write is zeros (fresh pages of `malloc`) |
| `Initialize`, `Insert`, `Continue` | `initialize_filesystem_fat32`, then one `write` |
| `Save` | `fopen` with "w", `fwrite`, and the end of the program, whatever `write` returned |
| `Kill`, `KillWhileSaving` | the program is killed: before the file is opened, or with only a first part of it written |

`KeepsSaved`: what a run has reported and written back is in the image, after any later runs, failed ones and killed
ones included. A run killed while it writes the image back takes away what lies beyond the part it has written, of its own
and of earlier runs; `StoredIn` is what is left, an item together with the folders it is reached through, and the runs
after it keep that, too. A run reports before it writes back, so what it reported and did not get to write is not in the image and
never was in `saved`. `ChainsDisjoint` and `CommittedIntact` are those of `Fat32`.

### AtaDisk

`pc`, `call`, `i`, `j`, `buf` are the driver's, `status`, `at`, `left`, `sector` the drive's, `media` what is
stored.

| Action | Code (`disk.c`) |
|---|---|
| `IssueCommand` | `ATA_busy_wait` and the six `out`s; the address goes through the registers, 8, 8, 8 and 4 bits |
| `WaitForBlock` | `ATA_busy_wait`, `ATA_DRQ_wait` |
| `ReadWord`, `WriteWord` | one `in16` or `out16`, and the loops around it |
| `Fetch`, `Accept`, `Store`, `Fail`, `PowerFails` | the drive (external) |

The drive is busy at once when it gets a command or a full block (a real one has 400 ns, which the driver
does not wait; the emulator takes none), ready whenever it is not busy, and stores a block as a whole. ERR and
DF are never tested, so after `Fail` the driver moves words that nobody asked for.

* `InStep`: the driver and the drive agree on the word that is moved, although the driver never looks at
  the data request bit.
* `ImplementsBlockStore`: every behaviour is one of `BlockStore`: blocks go where they belong, whole and in
  order, and only the last of a call can still be on its way when the call has returned.
* `DriverFree`: no call hangs, and the drive is free again, also after errors.

### Processor

No data but what tells right from wrong: of a register whose it is, of a word of the stack what it is, of a
page which frame and whether the program may use it, of the drivers who is inside. `tables` is what the start
sets up (descriptor tables, task state segment, PIC).

| Action | Code |
|---|---|
| `EnablePaging`, `JumpHigh`, `DropIdentity` | `kernel_loader.s`, up to the call of `kernel_setup` |
| `EnterProtectedMode` ... `ExecuteUserProgram` | `kernel_setup`, one action per call, two for those of the file system |
| `AllocateFrame`, `SetAddress`, `FlushSingleTlb` | the allocation of the program's frame: the flags of the entry, its address, `invlpg` |
| `Enter` (in `LineInterrupt`, `UserException`, `UserInt`) | gate, processor and stub: `intsetup.s` up to the call |
| `MainInterruptHandler` | dispatch, `syscall`, `keyboard_isr` as far as flags, stack and PIC are concerned |
| `DriverCopies`, `DriverReturns`, `WaitEnds` | the copies of system calls 0, 4 and 10 through the program's pointers, and the end of these and of 9 |
| `PopRegisters`, `Iret` | the pops, `sti` and `iret` |
| `CacheMapping` | the TLB takes in or drops any mapping (external) |
| `UserAccess`, `UserException`, `UserInt` | the program: any page, any exception, `int` of any vector with any call number (external) |

System calls read and write wherever the program's pointers lead, with the kernel's privilege and unchecked. `Buffers`
is the set of pages they lead to: an access to a page without mapping ends in "fault" (the kernel repeats it for ever), a write to
the kernel's page overwrites its frame. `OwnBuffers` says that a program passes pointers to its own page only, as the shell
does; with `Buffers` of "other" TLC finds `NoFault` violated, with "kernel" `KernelKept`. `puts` counts in 8 bits: with a
length over 255 (`Lengths`) it stays at "puts" for ever, and `Returns` is violated. The program is taken to keep its
stack in its own page. `sti` before `iret` takes effect after it. Which lines of the PIC there are, which exceptions the program
runs into, which vectors it uses and which system calls are constants; `ProcessorAssumption` says that the keyboard's
line is one of the first PIC's eight, that exceptions are among the processor's 32 and that vectors are a byte.
Nothing of hexOS uses the second PIC.

* `NoFault`: whenever an interrupt or exception can come, its gate, segment, stack and page are there, and on
  the way back the frame it left; and whatever the kernel accesses is mapped, under `OwnBuffers`.
* `KernelKept`: the kernel's frame keeps the kernel, under `OwnBuffers`, and while the program runs no mapping, cached or
  not, lets it reach that frame. While the start changes the entry of the program's page, the entry does name frame 0
  between two stores, and the TLB may cache it.
* `TlbCoherent`: when the start or a system call uses the program's page, and when the program does, no cached
  mapping is stale, although the entry was the identity mapping first and changed in two steps later.
* `RegistersKept`, `StackBounded`: what was interrupted finds its registers; interrupts nest once at most.
* `DriverNotReentered`: boot code and system calls are never in the file system driver together, although
  interrupts are on during the boot's calls. This is what `Fat32` assumes.
* `Returns`: the shell is started, and every handler gives the processor back, for texts of up to 255 characters.

### Console

One module, because the parts share the processor. `pc` says where the processor is; `on`, `index`,
`buffer`, `last`, `make` are the keyboard driver's variables; `cursor` is the position in the
framebuffer's cursor registers; `userBuf` is the shell's `buf`. The environment's state is `down`
(keys held), `scan` (scancodes the keyboard has and nobody has read), `irr` (a latched keyboard
interrupt) and `timerInService`.

| Action | Code |
|---|---|
| `IgnoreKey`, `TakeKey`, `PassCode`, `EndLine`, `EraseLetter`, `AddLetter` | the paths of `keyboard_isr`, each with the cursor keys' switch at its end and `pic_ack` |
| `InitializeIdt`, `ActivateKeyboardInterrupt`, `StartShell` | `kernel_setup` after `pic_remap` |
| `ShowPrompt`, `ShowLine` | system calls 6 and 5, with `puts` |
| `BeginLine`, `SeeLine`, `TakeLine` | system call 4: up to `sti`, the end of the wait, the copy |
| `TimerInterrupt` | the default case of `main_interrupt_handler`: no acknowledgement |
| `Press`, `Release` | the user and the keyboard (external) |

Handlers and system calls enter through interrupt gates, with interrupts disabled, and are one action
each. System call 4 alone enables interrupts, so it is cut where one can come in. Between the end of
the wait and the copy a keyboard interrupt can only reset an index that is 0 already, which the model
lets happen.

The environment, as the code's use of it implies: the controller holds a byte until port 0x60 is read
and asks for an interrupt when it gets a new byte to hand out; the PIC is edge triggered (`ICW1_INIT`
sets no level bit), so a byte that is not read gives no second edge; an interrupt in service holds
back those of lower priority until it is acknowledged, and the timer's is the highest. `pic_remap`
restores the masks it found, so the timer's line is taken as open until
`activate_keyboard_interrupt`.

Abstractions:

* A scancode is the character it maps to, a cursor key, or `Other`. The map is not spelled out: the
  handler tells apart only Enter, Backspace, other characters, the four cursor codes and the rest.
* The cells of the screen are left out: nothing reads them.
* `KEYBOARD_BUFFER_SIZE` is 256, exactly the range of the 8 bit index, and the model keeps that
  coincidence: both are `Byte`.
* `cursor_x <= currentBaris` and the like compare a value with itself; `RightOf` and `LeftOf` keep what
  the conditions come to.

Properties:

* `TypeOK`: the index stays inside the buffer and the cursor inside what its registers hold, although
  the handler checks neither.
* `ImplementsLineEditor`: `Console` implements `LineEditor`, up to fairness. While the shell waits, the abstract line is
  the first `index` places of the buffer; once the flag is off it is the C string in the buffer. So
  whatever keys overlap, repeat or arrive while nobody reads, no letter of an earlier or erased line
  comes back, and a complete line reaches the shell. What is behind the terminating 0 is not part of
  the line; system call 5 shows it all the same, erased letters included.
* `EndedLineReachesShell`: a line that was ended is delivered.
* `WaitsEndUnlessStuck`: every wait ends, but for the two ways in which the keyboard's interrupts are
  lost for good (`Stuck`).
* `CursorFollowsLine`: as long as the line stays on the screen and no key moves the cursor sideways, the
  cursor is behind the last letter, over row ends in both directions. "On the screen" means that the
  hardware position is below `Rows * Cols`. That the row is is not enough: `framebuffer_get_cursor` returns it
  in 8 bits, so far below the screen it looks like one at the top, and the next character goes there.

## 3. Runs

| Run | Bounds | What it shows |
|---|---|---|
| `power` | 2 data clusters, 2 usable slots, 2 names, 2 extensions, sizes 0, 2, 3 with 2 blocks to a cluster, one power failure | the safety properties, with power failing between any two disk writes |
| `store` | as above, one extension | the driver implements `FileStore`, changes only free space, and every call returns (`CallsReturn`) |
| `line` | buffer of 4, 2 letters, two keys down at a time, a queue of 2 scancodes, a shell buffer of 2, rows of 2 columns, 3 rows | `ImplementsLineEditor`, `EndedLineReachesShell`, `CursorFollowsLine` |
| `typing` | buffer of 4, 1 letter, one key down at a time, all the kinds of keys | `WaitsEndUnlessStuck`, `TypeOK` |
| `inserter` | 3 data clusters, two contents, sizes 0, 3, 5, one killed run | `KeepsSaved`; chains of up to three clusters, files that meet a full disk |
| `delete` | 2 data clusters, 2 usable slots, sizes 0 and 3, buffers of 0, 4 and 256 clusters, two calls of `delete` | `TakesOneEntry`, `FreesItsOwn`, `LeavesOthersIntact` |
| `ata` | 30 blocks of 2 words, clusters of 2 blocks at both ends and in the middle, registers of base 3 and 2 | the properties of `AtaDisk` |
| `processor` | the keyboard, the timer and a spurious line, one exception, three vectors, six call numbers, pointers to the program's page, texts of 0 and 255 characters | the properties of `Processor` |

The other runs, named after what they refute, are under Findings.

Why this is enough: the smallest disk on which two files compete for a cluster has two data clusters;
three let a chain grow while another is cut off, and let a later call reuse what a failed one left. Sizes
cover a folder, less than a cluster, exactly one, and more (also an exact multiple and a remainder). Two
usable slots let a directory fill up. One power failure suffices to interrupt a call and run others on
what is left; more are covered by the proofs. In `line` a line of three letters overflows a shell buffer
of two, and a fourth wraps the index; two keys down at a time give every overlap of two keys, and two
scancodes queue up behind one that is not read; a line crosses row ends in either direction, and three rows
of two give a second line and the edge of the screen. One kill of the inserter leaves every part of an image to
the runs after it. Two calls of `delete` let one meet what another has left; a buffer of four clusters
frees the FAT's own entry, the root's and a file's, one of 256 never stops. On the disk of 30 blocks every register is in use: the
clusters are at addresses 0, 10 and 28, of three digits of base 3 and one of base 2. The lines of
`processor` are one above the keyboard's priority, its own and one below; the vectors are those of system calls, of a page
fault and of a gate beyond both, which `int` may not use; the call numbers are
those of the system calls that read and write the disk, one that waits, one that shows a text and one that does
nothing; 255 is the longest text that `puts` ends. Its stack needs no bound: interrupts nest once at most, which is one of
its properties. Every bound is a constant or in a guard:
`MaxOutages` in `Crash` and `Killed`, `MaxDeletes` in `StartDelete`, `MaxDown` in `Press`, `MaxScan` in `Send`.

`CHECK_DEADLOCK FALSE` is set because the systems may really stop: Fat32 when every request is
refused, nothing was read before and no power failure is left (also in `delete`); the console when its
keyboard is stuck, the queue is full and a call waits. `inserter`, `ata` and `processor` check for deadlock.

## 4. Fairness

* `Fat32`: `WF(WriteStep)`, `WF(FormatStep)`. A call that has begun runs on: the driver polls, it does
  not wait for anything else, and nothing can preempt it. Starting a call and power failures have no
  fairness.
* `Console`: `WF(Boot)`, `WF(Shell)`, `WF(KeyboardIsr)`: the processor goes on, and an interrupt that
  stays deliverable is delivered. `Shell` is not enabled while the flag is on: the wait has to be ended by
  the handler.
* `TypingSpec` adds a patient user: strong fairness of pressing Enter and of releasing each key (strong,
  because a full queue can disable them now and then; when nothing is read any more it disables them for good). It is
  used only to ask whether the wait ends.
* `AtaDisk`: `WF(DriverStep)`, `WF(DriveStep)`: the processor goes on polling (nothing preempts the driver for
  good), and the drive is not busy for ever: it ends each command or block, in an error perhaps. Calls and power
  failures have no fairness.
* `Processor`: `SF(BootStep)`: the boot code goes on however often it is interrupted. `WF(HandlerStep)`: a
  handler goes on while nothing interrupts it. `SF(HandlerStep /\ ~Nested)`: so does one that is interrupted again
  and again inside system call 4, because a keyboard is slower than a processor. What the program does has none.
* `Fat32Delete` and `Inserter` are about safety only and state none.

## 5. Proofs

`Fat32Proofs` proves, for every geometry, every set of requests and any number of power failures,
from `GeometryAssumption` (the FAT fits one cluster and the disk, with a cluster after the root; cluster
numbers fit 16 bits; tables and clusters are not empty) and `RequestAssumption` (the sentinels are no
names, extensions or payloads):

| Theorem | Statement |
|---|---|
| `InductiveInvariant` | `Spec => []IInv` |
| `TypeCorrect` | `Spec => []TypeOK` |
| `CacheIsCoherent` | `Spec => []CacheCoherent` |
| `ReservedIsKept` | `Spec => []ReservedKept` |
| `ChainsAreDisjoint` | `Spec => []ChainsDisjoint` |
| `CommittedStaysIntact` | `Spec => []CommittedIntact` |
| `FreeSpaceOnly` | `Spec => OnlyFreeSpaceChanges` |

`IInv` conjoins the three checked invariants with what they need to survive a step:

* `FormatInv`: what formatting has already put on disk in each of its states (`LayoutKept` once it is done). Without
  it nothing says the FAT has its reserved entries when the first call allocates. FAT entry 0 is not part of it:
  no step depends on it, and a `delete` of an empty slot frees it. `BootEntryKept` proves it apart.
* `CommittedInv`: `CommittedIntact`, and that the directory of every stored item is itself in use in the
  FAT and looks like a directory, so that no data write can hit it.
* `OpInv`: what the call in progress has built: its entry is in the slot of its parent (`OpEntry`), its
  links lead along the chain so far (`OpChain`), its data is in place up to the cluster at hand
  (`OpFile`), and that cluster is still free in the FAT (`OpChain`). It turns into `CommittedInv` at the
  last write.
* `ChainsDisjoint` between stored items and the call in progress.

The argument: every disk write satisfies the frame condition `KeepsUsed`: clusters and links that the
FAT has in use stay, but for one new entry in an empty slot of a directory. `FrameHolds` shows once that
`KeepsUsed` preserves everything said of stored items and of what a call has built, so each action's lemma
only has to show that its write goes to free space (the search found a free cluster, or `OpInv` says the
cluster at hand still is) and that the call's own new piece is right. `NextStep` collects one lemma per
action; the temporal theorems follow.

`AtaDiskProofs` proves, for every number and size of blocks and clusters, every width of the drive's registers
that can hold the addresses, every data, and any speed, errors and power failures, from `DiskAssumption` (the
registers can address the disk, the clusters lie on it, what buffers hold is not one of the two marks):

| Theorem | Statement |
|---|---|
| `InductiveInvariant` | `Spec => []IInv` |
| `TypeCorrect` | `Spec => []TypeOK` |
| `DriverAndDriveInStep` | `Spec => []InStep` |
| `BlockStoreIsImplemented` | `Spec => ImplementsBlockStore` |

`IInv` is `TypeOK` with `Position` and `Content`. `Position` says of each status of the drive where the driver is:
a drive that asks for data is at the driver's block and word, a busy one is at the driver's block or, in a write,
`OneBehind` with a full buffer. Neither `TypeOK` nor `InStep` is inductive without it: nothing else says
that the driver's and the drive's counters, which never meet, are those of one call. `Content` says which words
are in the drive's buffer and at the end of the reader's. `RegistersHoldTheAddress` is arithmetic: an address cut
into the four registers comes out of them again. The refinement needs how many blocks a sequence of words has and
which (`BlocksOfWords`, `BlockRead`, `BlockWritten`); after that each action is one of `BlockStore`'s or changes
nothing there: only the last word of a block is a step.

`Fat32NamesProofs` and `Fat32StoreProofs` go on from there, under the same assumptions:

| Theorem | Statement |
|---|---|
| `NamesInvariant` | `Spec => [](IInv /\ NInv)` |
| `NamesStayUnique` | `Spec => []NamesUnique` |
| `FilesAreReadable` | `Spec => []Readable` |
| `FileStoreIsImplemented` | `Spec => ImplementsFileStore` |

`NamesUnique` is not inductive: `validateWrite` looks names up with a result of 0 for "none" and for slot 0 alike, and
the entry of a folder keeps whatever extension its slot held. `NInv` has what makes it work: in every table, slots
not in use hold the extension of slot 0 (`UniformInv`), so an entry that a lookup overlooks because slot 0 comes
first has the directory's own name; and the entry of the call in progress is the only match for its request
already (`OpUnique`), before it counts as stored. `Readable` then follows: the lookup of `read` finds that slot.

In the refinement, `IInv` says that what is decoded is what was requested (`StoredItemIsRequested`). The decoder
follows the FAT by a recursive function, about which no induction is available: the walk along the stored chain is
written down without recursion, shown to satisfy the equation, and shown to be the only one to do so, by the
least place at which two would differ (`WalkIsWalk`, `WalkIsUnique`). A chain visits no cluster twice, so the walk is
long enough (`ChainFits`). After that each step is `Begin`, `Commit`, `Fail` or nothing.

`InserterProofs` and `Fat32DeleteProofs` need what such a disk is between runs and calls. `Durable(d, com)`, in
`Fat32Proofs`, says of a disk and of what is stored on it all that `IInv` says while the driver rests, and `DriverStarts`
and `DiskIsDurable` lead back and forth.

| Theorem | Statement |
|---|---|
| `InserterInvariant` | `InserterSpec => []InserterInv` |
| `SavedIsKept` | `InserterSpec => []KeepsSaved` |
| `InsertedChainsAreDisjoint`, `InsertedStaysIntact` | `InserterSpec => []ChainsDisjoint`, `[]CommittedIntact` |
| `OneEntryIsTaken` | `DeleteSpec => TakesOneEntry` |
| `DeleteInvariant` | `DeleteSpec => []DeleteInv` |
| `OwnIsFreed`, `OthersStayIntact` | `DeleteSpec => []FreesItsOwn`, `[]LeavesOthersIntact` |

`InserterInv` is `IInv` of the memory, `Durable` of what the next run would load, and that no driver runs between
runs. Any first part of a durable disk followed by zeros is durable with what lies in that part
(`PrefixIsDurable`): signature, FAT and root come first, in this order, and a set of items that contains the folders
its items are in (`ClosedBelow`) needs nothing beyond. That is why a run killed while it saves takes away no more
than the rest. `OneEntryIsTaken` holds of every call, harmless or not, from the
short `CallInv`. `DeleteInv` holds `IInv` between calls and, between the two writes of a call, that the disk is
durable without the entry that is going: freeing its cluster keeps that (`FreedIsDurable`) and clearing its slot
makes it the new state (`ClearedIsDurable`). The condition on folders in `Harmless` came from here: without it the
invariant is not inductive, and a folder with something in it shows why.

`ConsoleProofs` holds for every screen, buffer, set of keys and length of the shell's
texts, from `ScreenAssumption` (more than one column, rows and columns that fit 8 bits) and `ConsoleAssumption` (which
keys are letters, sizes that are numbers):

| Theorem | Statement |
|---|---|
| `InductiveInvariant` | `Spec => []IInv` |
| `TypeCorrect` | `Spec => []TypeOK` |
| `LineEditorIsImplemented` | `Spec => ImplementsLineEditor` |
| `CursorStaysBehindLine` | `MCSpec => []CursorFollowsLine` |

`IInv` adds to `TypeOK`: a latched interrupt has a scancode behind it (`LatchedIsThere`), what the handler remembers of
a key (`Remembered`), that the flag is on while a call waits, that the index is 0 while it is off, and that the
places before the index hold letters and not the terminator (`LineIsLetters`). The last is what the
refinement rests on: a C string that begins in the buffer ends where the index was. `Typed` is a sequence
cut from the buffer, so lemmas say how it grows and shrinks (`TypedMore`, `TypedFewer`), also where the 8 bit index
wraps. For the cursor, `CursorInv` adds that a line whose start is known is read and on the screen, and that the
cursor is `index` places on. The lemmas are arithmetic: one character on or back is one position on or back, over
row ends too. The first attempt at this proof failed at rows that do not fit 8 bits, and TLC confirmed that the
property was false there, with "on the screen" read off the row.

`ProcessorProofs` holds for any lines of the PIC, exceptions, vectors, system calls and lengths of texts, from
`ProcessorAssumption` and `BuffersAssumption`. Each theorem has the hypothesis `OwnBuffers`, because without it a system call can
fault or overwrite the kernel, and nothing can be said of what follows:

| Theorem | Statement |
|---|---|
| `InductiveInvariant` | `Spec => []IInv` |
| `TypeCorrect` | `Spec => []TypeOK` |
| `NothingFaults` | `Spec => []NoFault` |
| `KernelIsKept`, `TlbIsCoherent` | `Spec => []KernelKept`, `[]TlbCoherent` |
| `RegistersAreKept` | `Spec => []RegistersKept` |
| `StackIsBounded` | `Spec => []StackBounded` |
| `DriverIsNotReentered` | `Spec => []DriverNotReentered` |

None of these is inductive, because each handler goes by what is on the stack and nothing but the steps before says
what that is. `IInv` says that there is a `who`, the code that was interrupted last (a step of the start, the program,
a system call 4 in its wait or on its way back), and that it determines everything:

* `StackInv`: one of three cases. `Runs`: `who` runs itself, on the words of `Below`, with its own registers. `Handled`: a
  frame of eleven words lies on top of them, whose vector, registers and place to return to are those
  of `who` (`EntryWords`). `Returning`: of the frame the three words for `iret` are left.
* `TablesInv`, `MemoryInv`, `DriverInv`, `SegmentsInv`: which tables are loaded, what each entry of the page directory
  is and what else the TLB may hold of the first one (`Low`, `Stale`), who is in the driver and which segments are in use, by the stage of the start that `who` stands for. A
  program's stage is the last, whatever interrupts it.

One lemma says what is on the stack after a gate, the processor and the stub have pushed, of any vector, with and
without an error code and a change of stacks (`StackEntered`); one that the pops and `iret` find it again (`PopFinds`).
`EnterKeeps` takes a running `who` to a handled one for each kind of interrupt, and the steps of the handlers take
it back. A handler is interrupted only after a wait, where `who` becomes "wait", "exit" or "iret" and `Below` has the words of
the system call underneath; interrupts are off in what handles that, so there is no third level. `WhereItIs` and the
theorems read the properties off.

What tlapm cannot do stays with TLC: liveness (`CallsReturn`, `WaitsEndUnlessStuck`,
`EndedLineReachesShell`, `DriverFree`, `Returns`). Every other property of a passing run has a theorem.

## 6. Findings

Each is a run of its own that TLC finds violated; `PROJECT.json` quotes the lines.

| Run | The comment says | The code does |
|---|---|---|
| `chains_end` | the end mark closes a chain (`fat32.h:27`) | a full disk leaves the entry and its links, the last into a free cluster |
| `waits_end` | blocking input by waiting for the flag (`keyboard.h:70`) | a key before the wait, or a timer interrupt during boot: what follows is never read, the keyboard's queue fills, and the wait never ends |
| `ata_write_completes` | blocks until the write is completed (`disk.h:42`) | returns while the drive still has the last block |
| `delete_named` | deletes a file or empty directory, 1 if not found (`fat32.h:288`, `:291`) | passes over the name that was asked for and removes the first other entry |

Plain from the code and not run:

* `write` of a name the directory itself carries is not refused as existing (`fat32.h:282`): slot 0 doubles as
  "not found", and all of that name are hidden.
* `read` reads one block of a file (`fat32.h:271`), and returns 0 for a folder where `fat32.h:274` says 1.
* `read_directory` returns 3 for "not found" where `fat32.h:265` says 2, and copies `filesize` bytes, which are 0
  for a folder.
* `delete` of a file uses `buffer_size`, which `fat32.h` calls unused, for the number of FAT entries it
  frees, from 1 on.
* Enter does not stop the input (`keyboard.h:67`) if another key follows before its release: it is forgotten.
* Esc and Tab are echoed although `keyboard.h:66` says only printable characters are.
* Nothing scrolls, so the cursor leaves the 25 rows of `framebuffer.h:12`.
* System calls use the program's pointers unchecked (`interrupt.c:124`, `:125`, `:132`), and `puts` never ends for a
  length over 255 (`interrupt.c:74`); both are in `Processor`, see there.
* `allocate_single_user_page_frame` never advances the address of the next free frame (`paging.h:116`).

## 7. Not modelled, and the plan

Left out for good: the memory and port helpers (byte loops and single instructions, which the models take as
assignments and device accesses), build files, the cells of the screen (`framebuffer_write` and
`framebuffer_clear` change only them, and nothing reads them), and the texts that system calls 9 and 10 show:
neither has a caller in the shell, and what they do to the disk is in `Fat32`. `get_dir_name` only fills
a buffer that every use refills. Power failures inside `delete`, see there.

All safety and action properties and all refinements that the passing runs check are proved. What is left is
liveness, which stays with TLC, and the theorems of `BlockStore`, `FileStore` and `LineEditor` themselves: what a
caller can conclude from each of the three promises without looking into the driver.
