------------------------------ MODULE Processor ------------------------------
(***************************************************************************)
(* The processor under hexOS: how the loader and kernel_setup() bring it   *)
(* up, how segments, pages and interrupts lead from the shell into the     *)
(* kernel and back, and what interrupts do to what they interrupt.         *)
(*   kernel_loader.s, kernel.c    the order of the start                   *)
(*   gdt.c, paging/paging.c       descriptors, page directory, frames      *)
(*   interrupt/idt.c, intsetup.s, interrupt.c   gates, stubs, dispatch     *)
(*                                                                         *)
(* The processor itself is external: its TLB may cache any mapping of the  *)
(* page directory and drop it again at any time, and an interrupt may come *)
(* between any two actions while interrupts are enabled. What cannot be    *)
(* delivered, and an access of the kernel that has no mapping, ends in     *)
(* "fault": the machine resets or repeats the access for ever.             *)
(*                                                                         *)
(* What the drivers do is in Fat32, AtaDisk and Console; here it matters   *)
(* who is inside them. Line 1 is the keyboard's, line 0 the timer's.       *)
(***************************************************************************)
EXTENDS Integers, Sequences, FiniteSets

CONSTANTS
    Lines,          \* the lines of the PIC that something is wired to
    Exceptions,     \* the exceptions the program may run into
    IntVectors,     \* the vectors of the program's int instructions
    CallNumbers,    \* what it has in eax then
    Buffers,        \* the pages its pointers lead to, which nothing checks
    Lengths         \* the lengths of the texts it shows

Keyboard == 1

ASSUME ProcessorAssumption ==
    /\ Keyboard \in Lines /\ Lines \subseteq 0 .. 7
    /\ Exceptions \subseteq 0 .. 31
    /\ IntVectors \subseteq 0 .. 255
    /\ CallNumbers \subseteq Nat

Pages == {"low", "kernel", "other"}    \* 0, 0x300 and any other entry

ASSUME BuffersAssumption ==
    /\ Buffers \subseteq Pages /\ Buffers # {}
    /\ Lengths \subseteq Nat /\ Lengths # {}

\* The program passes pointers to its own page only, as the shell does.
OwnBuffers == Buffers \subseteq {"low"}

VARIABLES
    pc,           \* the step that comes next, see Boot and Control
    cpl, ints,    \* the privilege level, and whether interrupts are enabled
    regs,         \* what the registers hold
    ds,           \* the index of the data segments' descriptor
    kstack,       \* the kernel's stack, the last word pushed at the end
    dir, tlb,     \* _paging_kernel_page_directory, and what is cached of it
    frames,       \* what the two page frames in use hold
    tables,       \* what the start sets up, see Init
    inService,    \* the interrupt lines not acknowledged
    inDriver,     \* who is in the FAT driver: "boot" and "call"
    on            \* keyboard_state.keyboard_input_on

memory == <<dir, tlb, frames>>
vars == <<pc, cpl, ints, regs, ds, kstack, memory, tables, inService,
          inDriver, on>>

-----------------------------------------------------------------------------
(* Descriptors, pages and gates.                                           *)

KernelCode == 1
KernelData == 2
UserCode == 3
UserData == 4

\* The dpl of the segments in use; 0 is the null descriptor.
Dpl(segment) == IF segment \in {UserCode, UserData} THEN 3 ELSE 0

KernelFrame == 0

NotPresent == [present |-> FALSE, user |-> FALSE, frame |-> 0]
Mapping(user, frame) == [present |-> TRUE, user |-> user, frame |-> frame]

\* The kernel at 0, where it is loaded, and at KERNEL_VIRTUAL_BASE.
KernelPageDirectory ==
    [p \in Pages |-> IF p \in {"low", "kernel"} THEN Mapping(FALSE, KernelFrame)
                                                ELSE NotPresent]

\* Mutant: the frame after the next.
LastAvailableFrame_Two == 2

\* Mutant: the first free frame is the kernel's.
LastAvailableFrame_Zero == 0

\* last_available_physical_addr, and how many frames there are.
LastAvailableFrame == 1
FrameLimit == 32

\* ISR_STUB_TABLE_LIMIT gates; the type of a gate is interrupt, not trap.
Gates == 0 .. 63

\* Mutant: the gate's type is that of a trap gate.
Gate_Trap(v) == [segment |-> KernelCode, dpl |-> IF v \in 48 .. 63 THEN 3 ELSE 0,
                 disables |-> FALSE]

Gate(v) == [segment |-> KernelCode, dpl |-> IF v \in 48 .. 63 THEN 3 ELSE 0,
            disables |-> TRUE]

GeneralProtection == 13
PageFault == 14
SystemCall == 48

\* The mapping an access to page p may use.
Translations(p) == {e \in {dir[p], tlb[p]} : e.present}

\* The kernel goes on at this step if it can access page p.
Reached(p, to) == IF Translations(p) = {} THEN "fault" ELSE to

\* The kernel, or the program, writes through page p.
Fill(p, content) ==
    IF Translations(p) = {}
    THEN UNCHANGED frames
    ELSE \E e \in Translations(p) : frames' = [frames EXCEPT ![e.frame] = content]

-----------------------------------------------------------------------------
(* Registers and stack. A word is what it is, whose it is, and a number.   *)

Saved == <<"ebp", "edx", "ecx", "ebx", "eax">>    \* after esp
Registers == {"ebp", "edx", "ecx", "ebx", "eax"}
Word(what, whose, n) == <<what, whose, n>>
Of(whose) == [r \in Registers |-> Word(r, whose, 0)]

\* What the kernel has on its stack while it starts.
KernelFrames == <<Word("frame", "kernel_setup", 0)>>
Locals == Word("frame", "syscall", 0)

\* The exceptions that come with an error code, and the stubs that rely on it.
ErrorCodes == {8, 10, 11, 12, 13, 14, 17, 30}

\* Mutant: the stub of the page fault pushes an error code of its own.
ErrorCodeStubs_NotPageFault == {8, 10, 11, 12, 13, 17, 30}
ErrorCodeStubs == {8, 10, 11, 12, 13, 14, 17, 30}

\* interrupt_handler_v and call_generic_handler, up to the call.
Stub(v, stack, r) ==
    LET code == IF v \in ErrorCodeStubs THEN << >> ELSE <<Word("code", "stub", 0)>>
        s == stack \o code \o <<Word("vector", "stub", v)>>
    IN  s \o <<Word("esp", "stub", Len(s))>> \o [k \in 1 .. 5 |-> r[Saved[k]]]

\* What the processor pushes; it changes to the kernel's stack from ring 3.
CpuFrame(exception, v) ==
    (IF cpl = 3 THEN SubSeq(kstack, 1, tables.esp0)
                     \o <<Word("ss", pc, UserData), Word("esp", pc, 0)>>
                ELSE kstack)
    \o <<Word("eflags", pc, IF ints THEN 1 ELSE 0), Word("cs", pc, cpl),
         Word("eip", pc, 0)>>
    \o (IF exception /\ v \in ErrorCodes THEN <<Word("code", "cpu", 0)>>
                                         ELSE << >>)

Deliverable(v) ==
    /\ tables.gdt /\ tables.idt /\ v \in Gates
    /\ Dpl(Gate(v).segment) = 0
    /\ \A e \in Translations("kernel") : e.frame = KernelFrame
    /\ cpl = 3 => tables.tr /\ tables.esp0 # 0

\* The interrupted code holds r in its registers.
Enter(exception, v, r) ==
    /\ IF Deliverable(v)
       THEN /\ kstack' = Stub(v, CpuFrame(exception, v), r)
            /\ pc' = "handler" /\ cpl' = 0
            /\ ints' = (ints /\ ~Gate(v).disables)
            /\ regs' = Of("handler")
       ELSE pc' = "fault" /\ UNCHANGED <<kstack, cpl, ints, regs>>
    /\ UNCHANGED <<ds, memory, tables, inDriver, on>>

-----------------------------------------------------------------------------
(* The loader and kernel_setup(), in their order.                          *)

Boot == {"loader", "identity", "higher", "invalidate", "setup", "remap", "idt",
         "mask", "mount", "mounting", "tss", "ltr", "allocate", "address",
         "flush", "load", "loading", "stack", "execute"}

Control == Boot \cup {"user", "handler", "driver", "puts", "wait", "exit", "iret",
                     "fault"}

Step(from, to) ==
    /\ pc = from
    /\ pc' = to
    /\ regs' = Of(to)
    /\ UNCHANGED <<kstack, inService, on>>

SetUp(from, to, t) ==
    /\ Step(from, to)
    /\ tables' = t
    /\ UNCHANGED <<cpl, memory, inDriver>>

EnablePaging == SetUp("loader", "identity", tables) /\ UNCHANGED <<ints, ds>>

\* The loader still runs in the first page.
JumpHigh ==
    LET mapped == Translations("low") # {} /\ Translations("kernel") # {}
    IN  /\ SetUp("identity", IF mapped THEN "higher" ELSE "fault", tables)
        /\ UNCHANGED <<ints, ds>>

\* The entry of the first page is changed. The TLB knows nothing of it.
UpdateEntry(from, to, e) ==
    /\ Step(from, to)
    /\ dir' = [dir EXCEPT !["low"] = e]
    /\ UNCHANGED <<tlb, cpl, ints, ds, frames, tables, inDriver>>

\* invlpg
Invalidate(from, to) ==
    /\ Step(from, to)
    /\ tlb' = [tlb EXCEPT !["low"] = NotPresent]
    /\ UNCHANGED <<dir, cpl, ints, ds, frames, tables, inDriver>>

DropIdentity ==
    \/ UpdateEntry("higher", "invalidate", NotPresent)
    \/ Invalidate("invalidate", "setup")

EnterProtectedMode ==
    /\ SetUp("setup", "remap", [tables EXCEPT !.gdt = TRUE])
    /\ ints' = FALSE /\ ds' = KernelData

\* Mutant: the lines keep the vectors the firmware gave them.
PicRemap_KeepsOffset == SetUp("remap", "idt", tables) /\ UNCHANGED <<ints, ds>>

\* The masks are saved and restored.
PicRemap ==
    /\ SetUp("remap", "idt", [tables EXCEPT !.picBase = 32])
    /\ UNCHANGED <<ints, ds>>

InitializeIdt ==
    /\ SetUp("idt", "mask", [tables EXCEPT !.idt = TRUE])
    /\ ints' = TRUE /\ UNCHANGED ds

ActivateKeyboardInterrupt ==
    /\ SetUp("mask", "mount", [tables EXCEPT !.masked = Lines \ {Keyboard}])
    /\ UNCHANGED <<ints, ds>>

\* The start calls the FAT driver, with interrupts enabled.
EnterDriver(from, to) ==
    /\ Step(from, to)
    /\ inDriver' = inDriver \cup {"boot"}
    /\ UNCHANGED <<cpl, ints, ds, memory, tables>>

LeaveDriver(from, to) ==
    /\ Step(from, to)
    /\ inDriver' = inDriver \ {"boot"}
    /\ UNCHANGED <<cpl, ints, ds, dir, tlb, tables>>

\* initialize_filesystem_fat32().
Mount ==
    \/ EnterDriver("mount", "mounting")
    \/ LeaveDriver("mounting", "tss") /\ UNCHANGED frames

GdtInstallTss ==
    /\ SetUp("tss", "ltr", [tables EXCEPT !.tssBase = TRUE])
    /\ UNCHANGED <<ints, ds>>

\* ltr caches the base the descriptor has now.
SetTssRegister ==
    /\ SetUp("ltr", "allocate", [tables EXCEPT !.tr = tables.tssBase])
    /\ UNCHANGED <<ints, ds>>

\* The result is ignored, and the frame stays the next one to be given out.
\* The flags are stored before the address: in between, the entry is the
\* program's and names frame 0.
AllocateFrame ==
    IF LastAvailableFrame < FrameLimit
    THEN UpdateEntry("allocate", "address", Mapping(TRUE, dir["low"].frame))
    ELSE SetUp("allocate", "load", tables) /\ UNCHANGED <<ints, ds>>

SetAddress ==
    UpdateEntry("address", "flush", [present |-> dir["low"].present,
                                     user |-> dir["low"].user,
                                     frame |-> LastAvailableFrame])

\* Mutant: flush_single_tlb() does nothing.
FlushSingleTlb_Nothing == SetUp("flush", "load", tables) /\ UNCHANGED <<ints, ds>>

FlushSingleTlb == Invalidate("flush", "load")

\* read() of the shell to address 0; its result is ignored.
LoadShell ==
    \/ EnterDriver("load", "loading")
    \/ /\ LeaveDriver("loading", Reached("low", "stack"))
       /\ Fill("low", "shell") \/ UNCHANGED frames

\* set_tss_kernel_current_stack(): what kernel_setup() has pushed is kept.
SetKernelStack ==
    /\ SetUp("stack", "execute", [tables EXCEPT !.esp0 = Len(kstack)])
    /\ UNCHANGED <<ints, ds>>

\* kernel_execute_user_program(): iret keeps no segment of a lower ring.
ExecuteUserProgram ==
    /\ Step("execute", "user")
    /\ cpl' = 3 /\ ds' = UserData
    /\ UNCHANGED <<ints, memory, tables, inDriver>>

BootStep ==
    \/ EnablePaging \/ JumpHigh \/ DropIdentity \/ EnterProtectedMode
    \/ PicRemap \/ InitializeIdt \/ ActivateKeyboardInterrupt \/ Mount
    \/ GdtInstallTss \/ SetTssRegister \/ AllocateFrame \/ SetAddress
    \/ FlushSingleTlb \/ LoadShell \/ SetKernelStack \/ ExecuteUserProgram

-----------------------------------------------------------------------------
(* What interrupts: the lines of the PIC, and the user program.            *)

\* A line is not handed on while it, or one of higher priority, is served.
LineInterrupt(l) ==
    /\ ints /\ pc # "fault"
    /\ l \notin tables.masked
    /\ \A s \in inService : l < s
    /\ inService' = inService \cup {l}
    /\ Enter(FALSE, tables.picBase + l, regs)

\* The program stays where it is: the instruction is tried again.
UserException(v) ==
    /\ pc = "user"
    /\ Enter(TRUE, v, regs)
    /\ UNCHANGED inService

UserAccess(p) ==
    \/ /\ \E e \in Translations(p) : e.user
       /\ pc = "user"
       /\ \/ Fill(p, "user") /\ UNCHANGED inService
          \/ UNCHANGED <<frames, inService>>
       /\ UNCHANGED <<pc, cpl, ints, regs, ds, kstack, dir, tlb, tables,
                      inDriver, on>>
    \/ /\ \A e \in Translations(p) : ~e.user
       /\ UserException(PageFault)

\* int v with n in eax.
UserInt(v, n) ==
    IF Gate(v).dpl >= cpl
    THEN /\ pc = "user"
         /\ Enter(FALSE, v, [regs EXCEPT !["eax"] = Word("eax", "user", n)])
         /\ UNCHANGED inService
    ELSE UserException(GeneralProtection)

-----------------------------------------------------------------------------
(* main_interrupt_handler() and syscall().                                 *)

\* The handler's arguments: the registers saved last, and the vector.
IntNumber == kstack[Len(kstack) - 6][3]
CallNumber == kstack[Len(kstack)][3]

Goto(to) ==
    /\ pc = "handler"
    /\ pc' = to
    /\ regs' = Of(to)
    /\ UNCHANGED <<cpl, ds, tables>>

\* System calls 0 and 10 copy the request they are given, and with 9 they read
\* and write the disk; 4 waits for a line with interrupts enabled; 5 and 6 show
\* a text, and puts() counts its bytes in eight bits.
Syscall(n) ==
    CASE n \in {0, 9, 10} ->
            /\ \/ n = 9 /\ Goto("driver")
               \/ n # 9 /\ \E p \in Buffers : Goto(Reached(p, "driver"))
            /\ inDriver' = inDriver \cup {"call"}
            /\ UNCHANGED <<ints, kstack, memory, on>>
      [] n = 4 ->
            /\ Goto("wait")
            /\ on' = TRUE /\ ints' = TRUE
            /\ kstack' = Append(kstack, Locals)
            /\ UNCHANGED <<memory, inDriver>>
      [] n \in {5, 6} ->
            /\ \E p \in Buffers, len \in Lengths :
                  Goto(IF len = 0 THEN "exit"
                       ELSE Reached(p, IF len < 256 THEN "exit" ELSE "puts"))
            /\ UNCHANGED <<ints, kstack, memory, inDriver, on>>
      [] OTHER ->
            /\ Goto("exit")
            /\ UNCHANGED <<ints, kstack, memory, inDriver, on>>

\* pic_ack() ends the service of the keyboard's line; a line may end.
KeyboardIsr(to) ==
    /\ Goto(to)
    /\ inService' = inService \ {Keyboard}
    /\ on' \in {on, FALSE}
    /\ UNCHANGED <<ints, kstack, memory, inDriver>>

\* Mutant: the break after keyboard_isr() is missing.
MainInterruptHandler_NoBreak ==
    /\ pc = "handler"
    /\ CASE IntNumber = 32 + Keyboard ->
                /\ Syscall(0)
                /\ inService' = inService \ {Keyboard}
         [] IntNumber = SystemCall -> Syscall(CallNumber) /\ UNCHANGED inService
         [] OTHER ->
                /\ Goto("exit")
                /\ UNCHANGED <<ints, kstack, memory, inService, inDriver, on>>

\* No other interrupt or exception does anything, nor is it acknowledged.
MainInterruptHandler ==
    /\ pc = "handler"
    /\ CASE IntNumber = 32 + Keyboard -> KeyboardIsr("exit")
         [] IntNumber = SystemCall -> Syscall(CallNumber) /\ UNCHANGED inService
         [] OTHER ->
                /\ Goto("exit")
                /\ UNCHANGED <<ints, kstack, memory, inService, inDriver, on>>

\* read() fills the program's buffer, write() reads it.
DriverCopies ==
    /\ pc = "driver" /\ CallNumber # 9
    /\ \E p \in Buffers :
          /\ pc' = Reached(p, "driver")
          /\ IF CallNumber = 0 THEN Fill(p, "user") ELSE UNCHANGED frames
    /\ UNCHANGED <<cpl, ints, regs, ds, kstack, dir, tlb, tables, inService,
                   inDriver, on>>

\* The driver returns, and its result goes to where the program wants it.
DriverReturns ==
    /\ pc = "driver"
    /\ \/ CallNumber = 9 /\ pc' = "exit" /\ UNCHANGED frames
       \/ /\ CallNumber # 9
          /\ \E p \in Buffers : pc' = Reached(p, "exit") /\ Fill(p, "user")
    /\ inDriver' = inDriver \ {"call"}
    /\ UNCHANGED <<cpl, ints, regs, ds, kstack, dir, tlb, tables, inService, on>>

\* The wait ends, the line is copied to where the program wants it. Interrupts
\* stay enabled.
WaitEnds ==
    /\ pc = "wait" /\ ~on
    /\ \E p \in Buffers : pc' = Reached(p, "exit") /\ Fill(p, "user")
    /\ kstack' = SubSeq(kstack, 1, Len(kstack) - 1)
    /\ regs' = Of("exit")
    /\ UNCHANGED <<cpl, ints, ds, dir, tlb, tables, inService, inDriver, on>>

\* Mutant: ebx and ecx are popped in the order they were pushed in.
PopOrder_EbxFirst == <<"eax", "ecx", "ebx", "edx", "ebp">>
PopOrder == <<"eax", "ebx", "ecx", "edx", "ebp">>

\* The pops of call_generic_handler, the last of them to esp, and the add.
PopRegisters ==
    LET n == Len(kstack)
        place(r) == CHOOSE k \in 1 .. 5 : PopOrder[k] = r
    IN  /\ pc = "exit"
        /\ pc' = "iret"
        /\ regs' = [r \in Registers |-> kstack[n + 1 - place(r)]]
        /\ kstack' = SubSeq(kstack, 1, kstack[n - 5][3] - 2)
        /\ UNCHANGED <<cpl, ints, ds, memory, tables, inService, inDriver, on>>

\* sti takes effect only after iret, which restores the flag.
Iret ==
    LET n == Len(kstack)
    IN  /\ pc = "iret"
        /\ IF kstack[n][1] = "eip" /\ kstack[n - 1][1] = "cs"
           THEN /\ pc' = kstack[n][2]
                /\ cpl' = kstack[n - 1][3]
                /\ ints' = (kstack[n - 2][3] = 1)
                /\ kstack' = SubSeq(kstack, 1, IF cpl' = 3 THEN n - 5 ELSE n - 3)
                /\ ds' = IF Dpl(ds) < cpl' THEN 0 ELSE ds
           ELSE pc' = "fault" /\ UNCHANGED <<cpl, ints, kstack, ds>>
        /\ UNCHANGED <<regs, memory, tables, inService, inDriver, on>>

HandlerStep ==
    \/ MainInterruptHandler \/ DriverCopies \/ DriverReturns \/ WaitEnds
    \/ PopRegisters \/ Iret

\* The TLB takes in or drops a mapping, once paging is enabled.
CacheMapping(p) ==
    /\ pc # "loader"
    /\ tlb' \in {[tlb EXCEPT ![p] = dir[p]], [tlb EXCEPT ![p] = NotPresent]}
    /\ UNCHANGED <<pc, cpl, ints, regs, ds, kstack, dir, frames, tables,
                   inService, inDriver, on>>

-----------------------------------------------------------------------------

Init ==
    /\ pc = "loader" /\ cpl = 0 /\ ints = FALSE /\ regs = Of("loader") /\ ds = 0
    /\ kstack = KernelFrames
    /\ dir = KernelPageDirectory /\ tlb = [p \in Pages |-> NotPresent]
    /\ frames = [f \in 0 .. 1 |-> IF f = KernelFrame THEN "kernel" ELSE "free"]
    /\ tables = [gdt |-> FALSE, idt |-> FALSE,   \* loaded
                 tssBase |-> FALSE,    \* the descriptor has the state's base
                 tr |-> FALSE,         \* ltr was given that base
                 esp0 |-> 0,           \* the words of the stack that are kept
                 picBase |-> 8,        \* the vector of line 0
                 masked |-> {}]
    /\ inService = {} /\ inDriver = {} /\ on = FALSE

User ==
    \/ \E p \in Pages : UserAccess(p)
    \/ \E v \in Exceptions : UserException(v)
    \/ \E v \in IntVectors, n \in CallNumbers : UserInt(v, n)

Next ==
    \/ BootStep
    \/ HandlerStep
    \/ User
    \/ \E l \in Lines : LineInterrupt(l)
    \/ \E p \in Pages : CacheMapping(p)

\* Some code of the kernel has been interrupted.
Nested == \E k \in DOMAIN kstack : kstack[k][1] = "cs" /\ kstack[k][3] = 0

\* The processor goes on. Interrupts do not starve what they interrupt, the
\* start or a system call: the keyboard is slower than the processor.
Spec ==
    /\ Init /\ [][Next]_vars
    /\ SF_vars(BootStep)
    /\ WF_vars(HandlerStep)
    /\ SF_vars(HandlerStep /\ ~Nested)

-----------------------------------------------------------------------------
(* Properties.                                                             *)

\* Every variable keeps its shape.
TypeOK ==
    /\ pc \in Control /\ cpl \in {0, 3} /\ ints \in BOOLEAN
    /\ regs \in [Registers -> Registers \X Control \X (CallNumbers \cup {0})]
    /\ ds \in 0 .. 4
    /\ SubSeq(kstack, 1, Len(KernelFrames)) = KernelFrames
    /\ \A e \in {dir[p] : p \in Pages} \cup {tlb[p] : p \in Pages} :
            e \in [present : BOOLEAN, user : BOOLEAN, frame : 0 .. 1]
    /\ frames \in [0 .. 1 -> {"kernel", "free", "shell", "user"}]
    /\ inService \subseteq Lines
    /\ inDriver \subseteq {"boot", "call"}

\* Whenever an interrupt or an exception comes, during the start as well, what
\* it needs is there: the gate, the segment, the stack, the page, and on the
\* way back the frame it left. Whatever the kernel accesses is mapped, what a
\* program points at that passes pointers to its own page only.
NoFault == pc # "fault"

\* The kernel's frame keeps the kernel, through the writes to where such a
\* program points as well, and while the program runs no mapping, cached ones
\* included, gives it access to that frame. Before, the entry of its page is
\* its own and names frame 0 between the two stores of
\* update_page_directory_entry().
KernelKept ==
    /\ frames[KernelFrame] = "kernel"
    /\ cpl = 3 => \A p \in Pages : \A e \in Translations(p) :
                        e.user => e.frame # KernelFrame

\* The start copies the shell to the program's page, the program uses it, and
\* its system calls do.
UsesProgramPage ==
    \/ pc \in {"loading", "user", "driver", "wait"}
    \/ pc = "handler" /\ IntNumber = SystemCall

\* The TLB then holds no mapping that the page directory no longer has, those
\* included that it took in between a store to the entry and its invlpg.
TlbCoherent ==
    UsesProgramPage => \A p \in Pages : tlb[p].present => tlb[p] = dir[p]

\* Code that was interrupted finds its registers, and the program its data
\* segment, as they were, whatever came in between.
RegistersKept ==
    /\ pc \in Boot \cup {"user", "wait"} =>
            \A r \in Registers : regs[r][1] = r /\ regs[r][2] = pc
    /\ pc = "user" => ds = UserData /\ ints
    /\ pc = "wait" => kstack[Len(kstack)] = Locals

\* The words of a system call made by the program, the processor's, those of
\* the stub and syscall()'s own, and the words of an interrupt of the kernel.
CallWords == 13 + 1
NestedWords == 11

\* Interrupts nest once at most: upon a system call, or upon the start.
StackBounded == Len(kstack) =< Len(KernelFrames) + CallWords + NestedWords

\* The FAT driver, which keeps its state in static buffers, is never entered
\* while it is in use.
DriverNotReentered == Cardinality(inDriver) =< 1

\* The shell is started, and every handler gives the processor back.
Returns ==
    pc \notin {"user", "wait", "fault"} ~> pc \in {"user", "wait"}

=============================================================================
