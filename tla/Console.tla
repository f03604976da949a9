------------------------------- MODULE Console -------------------------------
(***************************************************************************)
(* The keyboard driver of hexOS, keyboard/keyboard.c, with what it runs    *)
(* between: the user at the keyboard, the keyboard controller and the PIC, *)
(* the interrupt flag, the start of the kernel, and the shell's loop of    *)
(* system calls, interrupt/interrupt.c.                                    *)
(*                                                                         *)
(* The processor is where pc says. An interrupt handler and a system call  *)
(* enter through interrupt gates and run with interrupts disabled, so each *)
(* is one action; only system call 4 enables interrupts, to wait for a     *)
(* line, and is cut where an interrupt can come in.                        *)
(*                                                                         *)
(* A scancode is the character it maps to, a cursor key, or Other: any     *)
(* code that maps to nothing and is no cursor key, as break codes, the     *)
(* prefix of extended codes and modifier keys are. Backspace and Enter     *)
(* map to characters.                                                      *)
(***************************************************************************)
EXTENDS Framebuffer, Integers, Sequences, FiniteSets

CONSTANTS
    Letters,      \* the keys whose character goes into the line
    Enter,        \* the key '\n'
    Backspace,    \* the key '\b'
    Nul,          \* the character 0
    Arrows,       \* some of "up", "down", "left" and "right"
    Modifiers,    \* the keys that map to nothing, Shift for one
    PromptLens,   \* the lengths of the shell's texts before a line is read
    UserSize,     \* the size of the shell's own buffer
    MaxDown,      \* how many keys the user holds down at a time
    MaxScan       \* how many scancodes the keyboard holds back

ASSUME ConsoleAssumption ==
    /\ Enter # Backspace /\ Enter \notin Letters /\ Backspace \notin Letters
    /\ Nul \notin Letters \cup {Enter, Backspace}
    /\ Arrows \subseteq {"up", "down", "left", "right"}
    /\ "other" \notin Letters \cup {Enter, Backspace}
    /\ Arrows \cap (Letters \cup {Enter, Backspace}) = {}
    /\ PromptLens \in Seq(0 .. Byte - 1)
    /\ UserSize \in 1 .. Byte - 1
    /\ MaxDown \in Nat /\ MaxScan \in Nat

VARIABLES
    pc,           \* where the processor is: see Control
    call,         \* the system call the shell makes next
    down,         \* the keys that are held down
    scan,         \* the scancodes that the keyboard has and nobody has read
    irr,          \* the PIC has latched a keyboard interrupt
    timerInService,   \* a timer interrupt was taken and not acknowledged
    on,           \* keyboard_state.keyboard_input_on
    index,        \* keyboard_state.buffer_index
    buffer,       \* keyboard_state.keyboard_buffer
    last,         \* last_key_pressed
    make,         \* make_code
    cursor,       \* the position of the hardware cursor
    userBuf       \* buf, in the shell

hardware == <<down, scan, irr, timerInService>>
driver == <<on, index, buffer, last, make>>
vars == <<pc, call, hardware, driver, cursor, userBuf>>

-----------------------------------------------------------------------------

Other == "other"
Chars == Letters \cup {Enter, Backspace}
Keys == Chars \cup Arrows \cup Modifiers
Scancodes == Chars \cup Arrows \cup {Other}

\* The buffer has KEYBOARD_BUFFER_SIZE places, just as many as its 8 bit
\* index has values.
BufferSize == Byte
Places == 0 .. BufferSize - 1
EmptyBuffer == [i \in Places |-> Nul]

\* The codes that a key sends: scan code set 1, cursor keys with a prefix.
MakeCodes(k) ==
    CASE k \in Chars -> <<k>>
      [] k \in Arrows -> <<Other, k>>
      [] OTHER -> <<Other>>

BreakCodes(k) == IF k \in Arrows THEN <<Other, Other>> ELSE <<Other>>

\* "remap"   pic_remap() is done, interrupts are disabled
\* "window"  initialize_idt() has enabled interrupts, no line is masked yet
\* "boot"    the keyboard's is the only line not masked
\* "user"    the shell runs
\* "wait"    system call 4 waits for keyboard_input_on to go off
\* "copy"    system call 4 has seen it go off
Control == {"remap", "window", "boot", "user", "wait", "copy"}

InterruptsOn == pc # "remap"

Init ==
    /\ pc = "remap" /\ call = 1
    /\ down = {} /\ scan = << >> /\ irr = FALSE /\ timerInService = FALSE
    /\ on = FALSE /\ index = 0 /\ buffer = EmptyBuffer
    /\ last = Nul /\ make = FALSE
    /\ cursor = 0
    /\ userBuf = [i \in 0 .. UserSize - 1 |-> Nul]

-----------------------------------------------------------------------------
(* The user and the hardware.                                              *)

\* The controller asks for an interrupt when it gets something to hand out,
\* the PIC, which pic_remap() sets to edge triggered mode, latches that.
Send(codes) ==
    /\ Len(scan) + Len(codes) =< MaxScan
    /\ scan' = scan \o codes
    /\ irr' = (irr \/ scan = << >>)
    /\ UNCHANGED <<pc, call, timerInService, driver, cursor, userBuf>>

\* Also the repetition of a key that is held down.
Press(k) ==
    /\ k \in down \/ Cardinality(down) < MaxDown
    /\ down' = down \cup {k}
    /\ Send(MakeCodes(k))

Release(k) ==
    /\ k \in down
    /\ down' = down \ {k}
    /\ Send(BreakCodes(k))

\* The timer's line is not masked between initialize_idt() and
\* activate_keyboard_interrupt(). main_interrupt_handler() does not know the
\* interrupt and does not acknowledge it.
TimerInterrupt ==
    /\ pc = "window"
    /\ timerInService' = TRUE
    /\ UNCHANGED <<pc, call, down, scan, irr, driver, cursor, userBuf>>

-----------------------------------------------------------------------------
(* keyboard_isr().                                                         *)

\* The PIC hands the interrupt on unless one of higher priority is in
\* service; pic_ack() ends its service when the handler is done.
KeyboardInterrupt ==
    /\ InterruptsOn
    /\ irr
    /\ ~timerInService
    /\ UNCHANGED <<pc, call, down, timerInService, userBuf>>

\* The scancode stays where it is: port 0x60 is not read.
IgnoreKey ==
    /\ KeyboardInterrupt
    /\ ~on
    /\ index' = 0
    /\ irr' = FALSE
    /\ UNCHANGED <<scan, on, buffer, last, make, cursor>>

\* in(KEYBOARD_DATA_PORT); what comes next is a new edge.
ReadCode ==
    /\ KeyboardInterrupt
    /\ on
    /\ scan' = Tail(scan)
    /\ irr' = (Tail(scan) # << >>)

\* memset() at the start of a line.
LineBuffer == IF index = 0 THEN EmptyBuffer ELSE buffer

\* A key goes down: it is remembered. Its break code, or any other code that
\* maps to nothing, will act on it.
TakeKey ==
    /\ ReadCode
    /\ Head(scan) \in Chars
    /\ buffer' = LineBuffer
    /\ last' = Head(scan)
    /\ make' = TRUE
    /\ UNCHANGED <<on, index, cursor>>

\* Where the cursor keys take the cursor; the line has n characters.
Moved(code, p, n) ==
    CASE code = "right" -> RightOf(p, n)
      [] code = "left" -> LeftOf(p, n)
      [] code \in {"up", "down"} -> SameCursor(p)
      [] OTHER -> p

\* No key is remembered.
PassCode ==
    /\ ReadCode
    /\ Head(scan) \notin Chars
    /\ ~make
    /\ buffer' = LineBuffer
    /\ cursor' = Moved(Head(scan), cursor, index)
    /\ UNCHANGED <<on, index, last, make>>

\* Some code that maps to nothing lets the remembered key act.
KeyActs ==
    /\ ReadCode
    /\ Head(scan) \notin Chars
    /\ make
    /\ make' = FALSE
    /\ UNCHANGED last

\* Mutant: the line is not terminated.
EndLine_Unterminated ==
    /\ KeyActs
    /\ last = Enter
    /\ buffer' = LineBuffer
    /\ index' = 0
    /\ on' = FALSE
    /\ cursor' = Moved(Head(scan), NextRow(cursor), 0)

\* Mutant: keyboard_state_deactivate() is not called.
EndLine_StaysOn ==
    /\ KeyActs
    /\ last = Enter
    /\ buffer' = [LineBuffer EXCEPT ![index] = Nul]
    /\ index' = 0
    /\ on' = on
    /\ cursor' = Moved(Head(scan), NextRow(cursor), 0)

EndLine ==
    /\ KeyActs
    /\ last = Enter
    /\ buffer' = [LineBuffer EXCEPT ![index] = Nul]
    /\ index' = 0
    /\ on' = FALSE
    /\ cursor' = Moved(Head(scan), NextRow(cursor), 0)

EraseLetter ==
    LET p == IF index > 0 THEN BeforeEcho(cursor) ELSE cursor
        n == IF index > 0 THEN index - 1 ELSE index
    IN  /\ KeyActs
        /\ last = Backspace
        /\ buffer' = LineBuffer
        /\ index' = n
        /\ cursor' = Moved(Head(scan), p, n)
        /\ UNCHANGED on

\* Mutant: buffer_index is wider than 8 bits.
AddLetter_WideIndex ==
    LET n == index + 1
    IN  /\ KeyActs
        /\ last \notin {Enter, Backspace}
        /\ buffer' = [LineBuffer EXCEPT ![index] = last]
        /\ index' = n
        /\ cursor' = Moved(Head(scan), AfterEcho(cursor), n)
        /\ UNCHANGED on

\* The index wraps after the last place of the buffer.
AddLetter ==
    LET n == (index + 1) % Byte
    IN  /\ KeyActs
        /\ last \notin {Enter, Backspace}
        /\ buffer' = [LineBuffer EXCEPT ![index] = last]
        /\ index' = n
        /\ cursor' = Moved(Head(scan), AfterEcho(cursor), n)
        /\ UNCHANGED on

KeyboardIsr ==
    \/ IgnoreKey
    \/ TakeKey
    \/ PassCode
    \/ EndLine
    \/ EraseLetter
    \/ AddLetter

-----------------------------------------------------------------------------
(* kernel_setup().                                                         *)

InitializeIdt ==
    /\ pc = "remap"
    /\ pc' = "window"
    /\ UNCHANGED <<call, hardware, driver, cursor, userBuf>>

ActivateKeyboardInterrupt ==
    /\ pc = "window"
    /\ pc' = "boot"
    /\ UNCHANGED <<call, hardware, driver, cursor, userBuf>>

\* The screen is cleared, the shell is loaded and started.
StartShell ==
    /\ pc = "boot"
    /\ pc' = "user"
    /\ cursor' = SetCursor(0, 0)
    /\ UNCHANGED <<call, hardware, driver, userBuf>>

-----------------------------------------------------------------------------
(* The shell's loop and its system calls: 6 for each text of the prompt, 4 *)
(* for a line, 5 to show it.                                               *)

ReadCall == Len(PromptLens) + 1
ShowCall == Len(PromptLens) + 2

\* System call 6.
ShowPrompt ==
    /\ pc = "user"
    /\ call =< Len(PromptLens)
    /\ cursor' = AfterText(cursor, PromptLens[call])
    /\ call' = call + 1
    /\ UNCHANGED <<pc, hardware, driver, userBuf>>

\* System call 4: keyboard_state_activate() and sti.
BeginLine ==
    /\ pc = "user"
    /\ call = ReadCall
    /\ on' = TRUE
    /\ pc' = "wait"
    /\ UNCHANGED <<call, hardware, index, buffer, last, make, cursor, userBuf>>

\* Mutant: the wait is for is_keyboard_blocking() to return TRUE.
SeeLine_Inverted ==
    /\ pc = "wait"
    /\ on
    /\ pc' = "copy"
    /\ UNCHANGED <<call, hardware, driver, cursor, userBuf>>

\* is_keyboard_blocking() returns FALSE.
SeeLine ==
    /\ pc = "wait"
    /\ ~on
    /\ pc' = "copy"
    /\ UNCHANGED <<call, hardware, driver, cursor, userBuf>>

\* get_keyboard_buffer() and the copy to the shell.
TakeLine ==
    /\ pc = "copy"
    /\ userBuf' = [i \in 0 .. UserSize - 1 |-> buffer[i]]
    /\ pc' = "user"
    /\ call' = ShowCall
    /\ UNCHANGED <<hardware, driver, cursor>>

\* System call 5: the whole buffer is shown, and the row ends.
ShowLine ==
    /\ pc = "user"
    /\ call = ShowCall
    /\ cursor' = NextRow(cursor)
    /\ call' = 1
    /\ UNCHANGED <<pc, hardware, driver, userBuf>>

-----------------------------------------------------------------------------

Boot == InitializeIdt \/ ActivateKeyboardInterrupt \/ StartShell
Shell == ShowPrompt \/ BeginLine \/ SeeLine \/ TakeLine \/ ShowLine
User == \E k \in Keys : Press(k) \/ Release(k)

Next ==
    \/ Boot
    \/ Shell
    \/ KeyboardIsr
    \/ TimerInterrupt
    \/ User

\* The processor goes on, in the shell and in the handler. Interrupts do not
\* starve what they interrupt: the keyboard is slower than the processor.
Fairness == WF_vars(Boot) /\ WF_vars(Shell) /\ WF_vars(KeyboardIsr)

Spec == Init /\ [][Next]_vars /\ Fairness

\* A user who lets go of every key, and who presses Enter again and again.
PatientUser ==
    /\ SF_vars(Press(Enter))
    /\ \A k \in Keys : SF_vars(Release(k))

TypingSpec == Spec /\ PatientUser

-----------------------------------------------------------------------------
(* Properties.                                                             *)

\* Every variable keeps its shape: the index stays inside the buffer, and the
\* cursor where an 8 bit row and an 8 bit column can take it.
TypeOK ==
    /\ pc \in Control
    /\ call \in 1 .. ShowCall
    /\ down \subseteq Keys /\ Cardinality(down) =< MaxDown
    /\ scan \in Seq(Scancodes) /\ Len(scan) =< MaxScan
    /\ irr \in BOOLEAN /\ timerInService \in BOOLEAN
    /\ on \in BOOLEAN
    /\ index \in Places
    /\ buffer \in [Places -> Letters \cup {Nul}]
    /\ last \in Chars \cup {Nul}
    /\ make \in BOOLEAN
    /\ cursor \in Positions
    /\ userBuf \in [0 .. UserSize - 1 -> Letters \cup {Nul}]

\* The characters of a C string that starts a buffer of size places.
CString(buf, size) ==
    LET ends == {i \in 0 .. size - 1 : buf[i] = Nul}
        len == IF ends = {} THEN size
               ELSE CHOOSE i \in ends : \A j \in ends : i =< j
    IN  [i \in 1 .. len |-> buf[i - 1]]

Reading == pc = "wait" /\ on
HaveRead == (pc = "wait" /\ ~on) \/ pc = "copy"

EditorState == IF Reading THEN "reading" ELSE IF HaveRead THEN "read" ELSE "idle"

EditorLine ==
    CASE Reading -> [i \in 1 .. index |-> buffer[i - 1]]
      [] HaveRead -> CString(buffer, BufferSize)
      [] OTHER -> << >>

Editor == INSTANCE LineEditor WITH
    Capacity <- Byte,
    Room <- UserSize,
    state <- EditorState,
    line <- EditorLine,
    taken <- CString(userBuf, UserSize)

\* Whatever keys overlap, repeat or come while nobody reads, what the shell
\* gets from system call 4 is one line: the letters the handler took in since
\* the call began, less those erased, and nothing of a line before.
ImplementsLineEditor == Editor!Spec

\* A line that the user has ended reaches the shell, whatever is typed next.
EndedLineReachesShell == Editor!DeliveryIsFair

\* No keyboard interrupt will ever be handled again: the timer's was never
\* acknowledged, or a scancode that nobody has read holds back the next edge.
Stuck == timerInService \/ (scan # << >> /\ ~irr)

\* A user who presses one key at a time and Enter from time to time ends the
\* wait of system call 4, but for the two ways in which interrupts are lost.
WaitsEndUnlessStuck == pc = "wait" ~> (pc # "wait" \/ Stuck)

=============================================================================
