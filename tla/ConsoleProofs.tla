--------------------------- MODULE ConsoleProofs ---------------------------
(***************************************************************************)
(* Proofs about Console, for every screen, every set of keys and every     *)
(* buffer: the driver's state keeps its shape, the safety part of what     *)
(* LineEditor promises, and that the cursor follows the line.              *)
(***************************************************************************)
EXTENDS MCConsoleCursor, SequenceTheorems, FiniteSetTheorems, WellFoundedInduction, TLAPS

-----------------------------------------------------------------------------
(* The cursor.                                                             *)

\* What division by a natural number gives.
LEMMA DivMod ==
    ASSUME NEW a \in Nat, NEW b \in Nat \ {0}
    PROVE  /\ a \div b \in Nat /\ a % b \in 0 .. b - 1
           /\ a = b * (a \div b) + (a % b)
  OBVIOUS

\* Rows and columns are numbers that fit.
LEMMA RowAndCol ==
    ASSUME NEW p \in Nat
    PROVE  /\ RowOf(p) \in 0 .. Byte - 1
           /\ ColOf(p) \in 0 .. Cols - 1
<1>1. Byte \in Nat \ {0} /\ Cols \in Nat \ {0}
  BY ScreenAssumption
<1>2. p \div Cols \in Nat /\ p % Cols \in 0 .. Cols - 1
  BY <1>1, DivMod
<1>3. (p \div Cols) % Byte \in 0 .. Byte - 1
  BY <1>1, <1>2, DivMod
<1>4. QED
  BY <1>2, <1>3 DEF RowOf, ColOf

\* Wherever the cursor is set, it is where an 8 bit row and column take it.
LEMMA CursorIsSet ==
    ASSUME NEW r \in Nat, NEW c \in Nat
    PROVE  SetCursor(r, c) \in Positions
<1> DEFINE x == r % Byte
           y == c % Byte
<1>1. Byte \in Nat \ {0} /\ Cols \in Nat \ {0}
  BY ScreenAssumption
<1>2. x \in 0 .. Byte - 1 /\ y \in 0 .. Byte - 1
  BY <1>1, DivMod
<1> HIDE DEF x, y
<1>3. x * Cols \in Nat /\ (Byte - 1) * Cols \in Nat
  BY <1>1, <1>2
<1>4. x * Cols =< (Byte - 1) * Cols
  BY <1>1, <1>2
<1>5. x * Cols + y \in 0 .. (((Byte - 1) * Cols) + (Byte - 1))
  BY <1>1, <1>2, <1>3, <1>4
<1>6. QED
  BY <1>5 DEF x, y, SetCursor, Positions

\* No way of moving the cursor takes it elsewhere.
LEMMA CursorMoves ==
    ASSUME NEW p \in Positions, NEW n \in Nat
    PROVE  /\ AfterText(p, n) \in Positions
           /\ AfterEcho(p) \in Positions
           /\ BeforeEcho(p) \in Positions
           /\ NextRow(p) \in Positions
           /\ RightOf(p, n) \in Positions
           /\ LeftOf(p, n) \in Positions
           /\ SameCursor(p) \in Positions
<1>1. /\ Positions \subseteq Nat /\ Cols \in Nat /\ 1 < Cols /\ Rows \in Nat
  BY ScreenAssumption DEF Positions
<1>2. RowOf(p) \in Nat /\ ColOf(p) \in Nat /\ ColOf(p) =< Cols - 1
  BY <1>1, RowAndCol, ScreenAssumption
<1>3. AfterText(p, n) \in Positions
  BY <1>2, CursorIsSet DEF AfterText
<1>4. AfterEcho(p) \in Positions
  BY <1>2, CursorIsSet DEF AfterEcho
<1>5. BeforeEcho(p) \in Positions
  <2>1. CASE ColOf(p) # 0
    BY <1>2, <2>1, CursorIsSet DEF BeforeEcho
  <2>2. CASE ColOf(p) = 0 /\ RowOf(p) > 0
    BY <1>1, <1>2, <2>2, CursorIsSet DEF BeforeEcho
  <2>3. QED
    BY <1>2, <2>1, <2>2 DEF BeforeEcho
<1>6. NextRow(p) \in Positions
  BY <1>2, CursorIsSet DEF NextRow
<1>7. SetCursor(RowOf(p), ColOf(p) + 1) \in Positions
  BY <1>2, CursorIsSet
<1>8. SameCursor(p) \in Positions
  BY <1>2, CursorIsSet DEF SameCursor
<1>9. RightOf(p, n) \in Positions
  <2>1. CASE n > Cols - 1
    <3>1. n \div Cols \in Nat
      BY <1>1, Cols \in Nat \ {0}, DivMod
    <3>2. CASE RowOf(p) < n \div Cols
      BY <1>2, <2>1, <3>1, <3>2 DEF RightOf
    <3>3. CASE RowOf(p) >= n \div Cols /\ ColOf(p) < Cols - 1
      BY <1>2, <1>7, <2>1, <3>1, <3>3 DEF RightOf
    <3>4. CASE RowOf(p) >= n \div Cols /\ ColOf(p) = Cols - 1
      BY <1>2, <1>6, <2>1, <3>1, <3>4 DEF RightOf
    <3>5. QED
      BY <1>1, <1>2, <3>1, <3>2, <3>3, <3>4
  <2>2. CASE ~ n > Cols - 1
    BY <1>7, <1>8, <2>2 DEF RightOf, SameCursor
  <2>3. QED
    BY <2>1, <2>2
<1>10. LeftOf(p, n) \in Positions
  <2>1. CASE n > Cols
    BY <1>5, <2>1 DEF LeftOf
  <2>2. CASE ~ n > Cols /\ ColOf(p) > 0
    BY <1>2, <2>2, CursorIsSet DEF LeftOf
  <2>3. CASE ~ n > Cols /\ ~ ColOf(p) > 0
    BY <1>2, <2>3, CursorIsSet DEF LeftOf
  <2>4. QED
    BY <2>1, <2>2, <2>3
<1>11. QED
  BY <1>3, <1>4, <1>5, <1>6, <1>8, <1>9, <1>10

\* Nor does a code that moves it sideways.
LEMMA MovedCursor ==
    ASSUME NEW p \in Positions, NEW n \in Nat, NEW code
    PROVE  Moved(code, p, n) \in Positions
  BY CursorMoves DEF Moved

-----------------------------------------------------------------------------
(* The invariant.                                                          *)

\* The PIC has latched an interrupt only while there is a code to read.
LatchedIsThere == irr => scan # << >>

\* What the next code that maps to nothing lets act is a key.
Remembered == make => last \in Chars

\* keyboard_state_activate() is called by the one who waits.
OnWhileWaiting == on => pc = "wait"

\* A line begins with an empty buffer.
OffIsEmpty == ~on => index = 0

\* What lies before the index was typed.
LineIsLetters == \A i \in 0 .. index - 1 : buffer[i] \in Letters

IInv ==
    /\ TypeOK
    /\ IsFiniteSet(down)
    /\ LatchedIsThere
    /\ Remembered
    /\ OnWhileWaiting
    /\ OffIsEmpty
    /\ LineIsLetters

\* A buffer cell holds a letter or nothing.
Cells == Letters \cup {Nul}

\* An empty buffer.
LEMMA EmptyBufferType == EmptyBuffer \in [Places -> Cells]
  BY DEF EmptyBuffer, Cells

\* The start keeps the invariant.
LEMMA InitialState == Init => IInv
<1> SUFFICES ASSUME Init PROVE IInv
  OBVIOUS
<1>1. /\ Byte \in Nat /\ 0 < Byte /\ Cols \in Nat /\ PromptLens \in Seq(0 .. Byte - 1)
      /\ UserSize \in Nat /\ MaxDown \in Nat /\ MaxScan \in Nat
  BY ScreenAssumption, ConsoleAssumption
<1>2. Len(PromptLens) \in Nat
  BY <1>1
<1>3. IsFiniteSet({}) /\ Cardinality({}) = 0
  BY FS_EmptySet
<1>4. 0 \in Places
  BY <1>1 DEF Places, BufferSize
<1>5. 0 \in Positions
  <2>1. (Byte - 1) * Cols \in Nat
    BY <1>1
  <2>2. QED
    BY <1>1, <2>1 DEF Positions
<1>6. scan \in Seq(Scancodes) /\ Len(scan) = 0
  BY EmptySeq DEF Init
<1>7. TypeOK
  BY <1>1, <1>2, <1>3, <1>4, <1>5, <1>6, EmptyBufferType
  DEF Init, TypeOK, Control, ShowCall, Cells
<1>8. QED
  BY <1>1, <1>3, <1>7
  DEF Init, IInv, LatchedIsThere, Remembered, OnWhileWaiting, OffIsEmpty, LineIsLetters

-----------------------------------------------------------------------------
(* The hardware.                                                           *)

\* A key sends one or two codes.
LEMMA CodesAreCodes ==
    ASSUME NEW k \in Keys
    PROVE  /\ MakeCodes(k) \in Seq(Scancodes) /\ MakeCodes(k) # << >>
           /\ BreakCodes(k) \in Seq(Scancodes) /\ BreakCodes(k) # << >>
<1>1. Arrows \cap Chars = {}
  BY ConsoleAssumption DEF Chars
<1>2. CASE k \in Chars
  BY <1>1, <1>2 DEF MakeCodes, BreakCodes, Scancodes
<1>3. CASE k \in Arrows
  BY <1>1, <1>3 DEF MakeCodes, BreakCodes, Scancodes
<1>4. CASE k \notin Chars \cup Arrows
  BY <1>4 DEF MakeCodes, BreakCodes, Scancodes
<1>5. QED
  BY <1>2, <1>3, <1>4

\* What is sent is there and announced.
LEMMA SendKeeps ==
    ASSUME IInv, NEW codes \in Seq(Scancodes), codes # << >>, Send(codes),
           down' \subseteq Keys, IsFiniteSet(down'), Cardinality(down') =< MaxDown
    PROVE  IInv'
<1>1. /\ scan \in Seq(Scancodes) /\ scan' = scan \o codes
      /\ Len(scan) + Len(codes) =< MaxScan
      /\ UNCHANGED <<pc, call, timerInService, on, index, buffer, last, make, cursor, userBuf>>
  BY DEF IInv, TypeOK, Send, driver
<1>2. /\ scan' \in Seq(Scancodes) /\ Len(scan') = Len(scan) + Len(codes)
      /\ scan' # << >>
  BY <1>1, ConcatProperties, ConcatEqualIffEmpty
<1>3. irr' \in BOOLEAN
  BY DEF IInv, TypeOK, Send
<1>4. TypeOK'
  BY <1>1, <1>2, <1>3 DEF IInv, TypeOK
<1>5. QED
  BY <1>1, <1>2, <1>4
  DEF IInv, LatchedIsThere, Remembered, OnWhileWaiting, OffIsEmpty, LineIsLetters

\* A key goes down.
LEMMA PressKeeps ==
    ASSUME IInv, NEW k \in Keys, Press(k)
    PROVE  IInv'
<1>1. down \subseteq Keys /\ IsFiniteSet(down) /\ Cardinality(down) =< MaxDown
      /\ MaxDown \in Nat /\ down' = down \cup {k}
  BY ConsoleAssumption DEF IInv, TypeOK, Press
<1>2. /\ IsFiniteSet(down \cup {k})
      /\ Cardinality(down) \in Nat
      /\ Cardinality(down \cup {k}) = IF k \in down THEN Cardinality(down)
                                      ELSE Cardinality(down) + 1
  BY <1>1, FS_AddElement, FS_CardinalityType
<1>3. Cardinality(down') =< MaxDown
  BY <1>1, <1>2 DEF Press
<1>4. QED
  BY <1>1, <1>2, <1>3, SendKeeps, CodesAreCodes DEF Press

\* A key comes up.
LEMMA ReleaseKeeps ==
    ASSUME IInv, NEW k \in Keys, Release(k)
    PROVE  IInv'
<1>1. down \subseteq Keys /\ IsFiniteSet(down) /\ Cardinality(down) =< MaxDown
      /\ MaxDown \in Nat /\ down' = down \ {k} /\ k \in down
  BY ConsoleAssumption DEF IInv, TypeOK, Release
<1>2. /\ IsFiniteSet(down \ {k}) /\ Cardinality(down) \in Nat
      /\ Cardinality(down \ {k}) = Cardinality(down) - 1
  BY <1>1, FS_RemoveElement, FS_CardinalityType
<1>3. Cardinality(down') =< MaxDown
  BY <1>1, <1>2
<1>4. QED
  BY <1>1, <1>2, <1>3, SendKeeps, CodesAreCodes DEF Release

-----------------------------------------------------------------------------
(* The handler.                                                            *)

\* A code is read: there is one.
LEMMA CodeIsRead ==
    ASSUME IInv, ReadCode
    PROVE  /\ Head(scan) \in Scancodes
           /\ scan' \in Seq(Scancodes) /\ Len(scan') =< MaxScan
           /\ irr' = (scan' # << >>) /\ pc = "wait"
           /\ UNCHANGED <<pc, call, down, timerInService, userBuf>>
<1>1. scan \in Seq(Scancodes) /\ scan # << >> /\ Len(scan) =< MaxScan /\ MaxScan \in Nat
  BY ConsoleAssumption
  DEF IInv, TypeOK, LatchedIsThere, ReadCode, KeyboardInterrupt
<1>2. /\ Head(scan) \in Scancodes /\ Tail(scan) \in Seq(Scancodes)
      /\ Len(Tail(scan)) = Len(scan) - 1
  BY <1>1, HeadTailProperties
<1>3. Len(Tail(scan)) =< MaxScan
  BY <1>1, <1>2
<1>4. QED
  BY <1>2, <1>3 DEF IInv, OnWhileWaiting, ReadCode, KeyboardInterrupt

\* The buffer of a line holds what was typed before the index.
LEMMA LineBufferType ==
    ASSUME IInv
    PROVE  /\ LineBuffer \in [Places -> Cells]
           /\ \A i \in 0 .. index - 1 :
                LineBuffer[i] \in Letters /\ LineBuffer[i] = buffer[i]
  BY EmptyBufferType DEF IInv, TypeOK, LineBuffer, LineIsLetters, Cells

\* What the handler may do to the driver's state once it has read a code.
LEMMA HandlerKeeps ==
    ASSUME IInv, ReadCode,
           index' \in Places, buffer' \in [Places -> Cells],
           \A i \in 0 .. index' - 1 : buffer'[i] \in Letters,
           last' \in Chars \cup {Nul}, make' \in BOOLEAN, make' => last' \in Chars,
           on' \in BOOLEAN, ~on' => index' = 0,
           cursor' \in Positions
    PROVE  IInv'
<1>1. /\ scan' \in Seq(Scancodes) /\ Len(scan') =< MaxScan
      /\ irr' = (scan' # << >>) /\ pc = "wait"
      /\ UNCHANGED <<pc, call, down, timerInService, userBuf>>
  BY CodeIsRead
<1>2. TypeOK'
  BY <1>1 DEF IInv, TypeOK, Cells
<1>3. QED
  BY <1>1, <1>2
  DEF IInv, LatchedIsThere, Remembered, OnWhileWaiting, OffIsEmpty, LineIsLetters

\* Nobody reads: the index stays at the beginning.
LEMMA IgnoreKeyKeeps ==
    ASSUME IInv, IgnoreKey
    PROVE  IInv'
<1>1. /\ index = 0 /\ index' = 0 /\ irr' = FALSE
      /\ UNCHANGED <<pc, call, down, timerInService, userBuf,
                     scan, on, buffer, last, make, cursor>>
  BY DEF IInv, OffIsEmpty, IgnoreKey, KeyboardInterrupt
<1>2. QED
  BY <1>1
  DEF IInv, TypeOK, LatchedIsThere, Remembered, OnWhileWaiting, OffIsEmpty, LineIsLetters

\* A key is remembered.
LEMMA TakeKeyKeeps ==
    ASSUME IInv, TakeKey
    PROVE  IInv'
<1>1. /\ ReadCode /\ last' \in Chars /\ make' = TRUE /\ buffer' = LineBuffer
      /\ UNCHANGED <<on, index, cursor>>
  BY DEF TakeKey
<1>2. index \in Places /\ on \in BOOLEAN /\ cursor \in Positions /\ (~on => index = 0)
  BY DEF IInv, TypeOK, OffIsEmpty
<1>3. QED
  BY <1>1, <1>2, LineBufferType, HandlerKeeps

\* No key is remembered.
LEMMA PassCodeKeeps ==
    ASSUME IInv, PassCode
    PROVE  IInv'
<1>1. /\ ReadCode /\ buffer' = LineBuffer /\ cursor' = Moved(Head(scan), cursor, index)
      /\ UNCHANGED <<on, index, last, make>> /\ ~make
  BY DEF PassCode
<1>2. /\ index \in Places /\ on \in BOOLEAN /\ cursor \in Positions /\ (~on => index = 0)
      /\ last \in Chars \cup {Nul} /\ make \in BOOLEAN
  BY DEF IInv, TypeOK, OffIsEmpty
<1>3. cursor' \in Positions
  BY <1>1, <1>2, MovedCursor DEF Places
<1>4. QED
  BY <1>1, <1>2, <1>3, LineBufferType, HandlerKeeps

\* The remembered key is one.
LEMMA KeyThatActs ==
    ASSUME IInv, KeyActs
    PROVE  /\ ReadCode /\ make' = FALSE /\ last' = last /\ last \in Chars /\ on
           /\ index \in Places /\ Places \subseteq Nat /\ 0 \in Places
           /\ cursor \in Positions
<1>1. Byte \in Nat /\ 0 < Byte
  BY ScreenAssumption
<1>2. QED
  BY <1>1 DEF IInv, TypeOK, Remembered, KeyActs, ReadCode, Places, BufferSize

\* Enter ends the line.
LEMMA EndLineKeeps ==
    ASSUME IInv, EndLine
    PROVE  IInv'
<1>1. /\ ReadCode /\ make' = FALSE /\ last' = last /\ last \in Chars
      /\ index \in Places /\ 0 \in Places /\ cursor \in Positions
  BY KeyThatActs DEF EndLine
<1>2. /\ buffer' = [LineBuffer EXCEPT ![index] = Nul] /\ index' = 0 /\ on' = FALSE
      /\ cursor' = Moved(Head(scan), NextRow(cursor), 0)
  BY DEF EndLine
<1>3. buffer' \in [Places -> Cells]
  BY <1>1, <1>2, LineBufferType DEF Cells
<1>4. cursor' \in Positions
  BY <1>1, <1>2, CursorMoves, MovedCursor
<1>5. \A i \in 0 .. index' - 1 : buffer'[i] \in Letters
  BY <1>2
<1>6. make' \in BOOLEAN /\ (make' => last' \in Chars) /\ on' \in BOOLEAN
      /\ last' \in Chars \cup {Nul} /\ index' \in Places /\ (~on' => index' = 0)
  BY <1>1, <1>2
<1>7. QED
  BY <1>1, <1>3, <1>4, <1>5, <1>6, HandlerKeeps

\* Backspace takes a letter away, or there is none.
LEMMA EraseLetterKeeps ==
    ASSUME IInv, EraseLetter
    PROVE  IInv'
<1> DEFINE p == IF index > 0 THEN BeforeEcho(cursor) ELSE cursor
           n == IF index > 0 THEN index - 1 ELSE index
<1>1. /\ ReadCode /\ make' = FALSE /\ last' = last /\ last \in Chars
      /\ index \in Places /\ Places \subseteq Nat /\ cursor \in Positions /\ on
  BY KeyThatActs DEF EraseLetter
<1>2. /\ buffer' = LineBuffer /\ index' = n /\ on' = on
      /\ cursor' = Moved(Head(scan), p, n)
  BY DEF EraseLetter
<1>3. p \in Positions
  BY <1>1, CursorMoves
<1>4. n \in Places /\ n =< index
  BY <1>1, ScreenAssumption DEF Places, BufferSize
<1> HIDE DEF p, n
<1>5. cursor' \in Positions
  BY <1>1, <1>2, <1>3, <1>4, MovedCursor
<1>6. \A i \in 0 .. n - 1 : LineBuffer[i] \in Letters
  BY <1>1, <1>4, LineBufferType
<1>7. QED
  BY <1>1, <1>2, <1>4, <1>5, <1>6, LineBufferType, HandlerKeeps

\* The place after the last one is the first.
LEMMA NextIndex ==
    ASSUME NEW i \in Places
    PROVE  /\ i + 1 = Byte => (i + 1) % Byte = 0
           /\ i + 1 # Byte => (i + 1) % Byte = i + 1
           /\ (i + 1) % Byte \in Places
<1>1. Byte \in Nat \ {0} /\ i \in 0 .. Byte - 1
  BY ScreenAssumption DEF Places, BufferSize
<1>2. (i + 1) % Byte \in 0 .. Byte - 1
  BY <1>1, DivMod
<1>3. i + 1 = Byte => (i + 1) % Byte = 0
  BY <1>1
<1>4. i + 1 < Byte => (i + 1) % Byte = i + 1
  BY <1>1
<1>5. QED
  BY <1>1, <1>2, <1>3, <1>4 DEF Places, BufferSize

\* A letter goes behind the others, or, in the last place, replaces all.
LEMMA AddLetterKeeps ==
    ASSUME IInv, AddLetter
    PROVE  IInv'
<1> DEFINE n == (index + 1) % Byte
<1>1. /\ ReadCode /\ make' = FALSE /\ last' = last /\ last \in Chars
      /\ index \in Places /\ Places \subseteq Nat /\ cursor \in Positions /\ on
  BY KeyThatActs DEF AddLetter
<1>2. /\ buffer' = [LineBuffer EXCEPT ![index] = last] /\ index' = n /\ on' = on
      /\ cursor' = Moved(Head(scan), AfterEcho(cursor), n) /\ last \in Letters
  BY <1>1 DEF AddLetter, Chars
<1>3. /\ index + 1 = Byte => n = 0
      /\ index + 1 # Byte => n = index + 1
      /\ n \in Places
  BY <1>1, NextIndex
<1> HIDE DEF n
<1>4. buffer' \in [Places -> Cells]
  BY <1>1, <1>2, LineBufferType DEF Cells
<1>5. \A i \in 0 .. n - 1 : buffer'[i] \in Letters
  <2> SUFFICES ASSUME NEW i \in 0 .. n - 1 PROVE buffer'[i] \in Letters
    OBVIOUS
  <2>1. n = index + 1 /\ i \in Places
    BY <1>1, <1>3, ScreenAssumption DEF Places, BufferSize
  <2>2. CASE i = index
    BY <1>1, <1>2, <2>2, LineBufferType
  <2>3. CASE i # index
    BY <1>1, <1>2, <2>1, <2>3, LineBufferType
  <2>4. QED
    BY <2>2, <2>3
<1>6. cursor' \in Positions
  BY <1>1, <1>2, <1>3, CursorMoves, MovedCursor
<1>7. QED
  BY <1>1, <1>2, <1>3, <1>4, <1>5, <1>6, HandlerKeeps

-----------------------------------------------------------------------------
(* The kernel's start and the shell.                                       *)

\* Nobody reads outside of system call 4.
LEMMA BootKeeps ==
    ASSUME IInv, Boot
    PROVE  IInv'
<1>1. /\ UNCHANGED <<call, hardware, driver, userBuf>> /\ ~on
      /\ pc' \in Control
  BY DEF IInv, OnWhileWaiting, Boot, InitializeIdt, ActivateKeyboardInterrupt, StartShell,
         Control
<1>2. cursor' \in Positions
  BY CursorIsSet
  DEF IInv, TypeOK, Boot, InitializeIdt, ActivateKeyboardInterrupt, StartShell
<1>3. QED
  BY <1>1, <1>2
  DEF IInv, TypeOK, LatchedIsThere, Remembered, OnWhileWaiting, OffIsEmpty, LineIsLetters,
      hardware, driver

\* Texts move the cursor.
LEMMA ShowKeeps ==
    ASSUME IInv, ShowPrompt \/ ShowLine
    PROVE  IInv'
<1>1. /\ UNCHANGED <<pc, hardware, driver, userBuf>> /\ cursor \in Positions
      /\ PromptLens \in Seq(0 .. Byte - 1) /\ Byte \in Nat /\ call \in 1 .. ShowCall
  BY ScreenAssumption, ConsoleAssumption DEF IInv, TypeOK, ShowPrompt, ShowLine
<1>2. call' \in 1 .. ShowCall /\ cursor' \in Positions
  <2>1. Len(PromptLens) \in Nat
    BY <1>1
  <2>2. CASE ShowPrompt
    <3>1. call \in 1 .. Len(PromptLens)
      BY <1>1, <2>1, <2>2 DEF ShowPrompt, ShowCall
    <3>2. PromptLens[call] \in Nat
      BY <1>1, <3>1, ElementOfSeq
    <3>3. call' \in 1 .. ShowCall
      BY <2>1, <2>2, <3>1 DEF ShowPrompt, ShowCall
    <3>4. QED
      BY <1>1, <2>2, <3>2, <3>3, CursorMoves DEF ShowPrompt
  <2>3. CASE ShowLine
    BY <1>1, <2>1, <2>3, CursorMoves DEF ShowLine, ShowCall
  <2>4. QED
    BY <2>2, <2>3
<1>3. QED
  BY <1>1, <1>2
  DEF IInv, TypeOK, LatchedIsThere, Remembered, OnWhileWaiting, OffIsEmpty, LineIsLetters,
      hardware, driver

\* System call 4 starts, ends and copies.
LEMMA ReadLineKeeps ==
    ASSUME IInv, BeginLine \/ SeeLine \/ TakeLine
    PROVE  IInv'
<1>1. /\ UNCHANGED <<hardware, index, buffer, last, make, cursor>>
      /\ pc' \in Control /\ on' \in BOOLEAN /\ (on' => pc' = "wait") /\ index = 0
  BY DEF IInv, TypeOK, OnWhileWaiting, OffIsEmpty, BeginLine, SeeLine, TakeLine, driver,
         Control
<1>2. call' \in 1 .. ShowCall
  <2>1. Len(PromptLens) \in Nat
    BY ConsoleAssumption
  <2>2. QED
    BY <2>1 DEF IInv, TypeOK, BeginLine, SeeLine, TakeLine, ShowCall
<1>3. userBuf' \in [0 .. UserSize - 1 -> Letters \cup {Nul}]
  <2>1. \A i \in 0 .. UserSize - 1 : i \in Places
    BY ScreenAssumption, ConsoleAssumption DEF Places, BufferSize
  <2>2. QED
    BY <2>1 DEF IInv, TypeOK, BeginLine, SeeLine, TakeLine
<1>4. QED
  BY <1>1, <1>2, <1>3
  DEF IInv, TypeOK, LatchedIsThere, Remembered, OnWhileWaiting, OffIsEmpty, LineIsLetters,
      hardware

-----------------------------------------------------------------------------

\* No step leaves the invariant.
LEMMA NextKeeps == IInv /\ [Next]_vars => IInv'
<1> SUFFICES ASSUME IInv, [Next]_vars PROVE IInv'
  OBVIOUS
<1>1. CASE Boot
  BY <1>1, BootKeeps
<1>2. CASE Shell
  BY <1>2, ShowKeeps, ReadLineKeeps DEF Shell
<1>3. CASE KeyboardIsr
  BY <1>3, IgnoreKeyKeeps, TakeKeyKeeps, PassCodeKeeps, EndLineKeeps, EraseLetterKeeps,
     AddLetterKeeps DEF KeyboardIsr
<1>4. CASE TimerInterrupt
  BY <1>4 DEF TimerInterrupt, driver, IInv, TypeOK, LatchedIsThere, Remembered,
     OnWhileWaiting, OffIsEmpty, LineIsLetters
<1>5. CASE User
  BY <1>5, PressKeeps, ReleaseKeeps DEF User
<1>6. CASE UNCHANGED vars
  BY <1>6 DEF vars, hardware, driver, IInv, TypeOK, LatchedIsThere, Remembered,
     OnWhileWaiting, OffIsEmpty, LineIsLetters
<1>7. QED
  BY <1>1, <1>2, <1>3, <1>4, <1>5, <1>6 DEF Next

\* The strengthened invariant of the keyboard driver: a latched interrupt has
\* a code to read, the remembered key is one, the driver is on only while
\* system call 4 waits, and everything before the index was typed.
THEOREM InductiveInvariant == Spec => []IInv
<1>1. Init => IInv
  BY InitialState
<1>2. IInv /\ [Next]_vars => IInv'
  BY NextKeeps
<1>3. QED
  BY <1>1, <1>2, PTL DEF Spec

\* Whatever keys are held, repeated or let go, the 8 bit index stays in the
\* buffer, only letters come into it, and the cursor is where an 8 bit row and
\* column can take it.
THEOREM TypeCorrect == Spec => []TypeOK
<1>1. IInv => TypeOK
  BY DEF IInv
<1>2. QED
  BY <1>1, InductiveInvariant, PTL

-----------------------------------------------------------------------------
(* The line.                                                               *)

\* The first n characters of a buffer.
Typed(buf, n) == [i \in 1 .. n |-> buf[i - 1]]

\* They are a sequence.
LEMMA TypedIsSeq ==
    ASSUME NEW S, NEW n \in Nat, NEW buf, \A i \in 0 .. n - 1 : buf[i] \in S
    PROVE  /\ Typed(buf, n) \in Seq(S) /\ Len(Typed(buf, n)) = n
           /\ \A i \in 1 .. n : Typed(buf, n)[i] = buf[i - 1]
<1>1. Typed(buf, n) \in [1 .. n -> S]
  BY DEF Typed
<1>2. QED
  BY <1>1, IsASeq, LenProperties DEF Typed

\* Only they matter.
LEMMA TypedSame ==
    ASSUME NEW n \in Nat, NEW a, NEW b, \A i \in 0 .. n - 1 : a[i] = b[i]
    PROVE  Typed(a, n) = Typed(b, n)
<1>1. \A i \in 1 .. n : a[i - 1] = b[i - 1]
  OBVIOUS
<1>2. QED
  BY ONLY <1>1, Zenon DEF Typed

\* None of none.
LEMMA TypedNone ==
    ASSUME NEW buf
    PROVE  Typed(buf, 0) = << >>
<1>1. \A i \in 0 .. 0 - 1 : buf[i] \in {}
  OBVIOUS
<1>2. Typed(buf, 0) \in Seq({}) /\ Len(Typed(buf, 0)) = 0
  BY <1>1, 0 \in Nat, TypedIsSeq
<1>3. QED
  BY <1>2, EmptySeq

\* One more.
LEMMA TypedMore ==
    ASSUME NEW n \in Nat, NEW buf, \A i \in 0 .. n - 1 : buf[i] \in Letters,
           NEW c \in Letters, NEW new, new[n] = c, \A i \in 0 .. n - 1 : new[i] = buf[i]
    PROVE  Typed(new, n + 1) = Append(Typed(buf, n), c)
<1>1. n \in Nat /\ \A i \in 0 .. n - 1 : buf[i] \in Letters
  OBVIOUS
<1>2. /\ Typed(buf, n) \in Seq(Letters) /\ Len(Typed(buf, n)) = n
      /\ \A i \in 1 .. n : Typed(buf, n)[i] = buf[i - 1]
  BY ONLY <1>1, TypedIsSeq
<1>3. \A i \in 0 .. (n + 1) - 1 : new[i] \in Letters
  OBVIOUS
<1>4. /\ Typed(new, n + 1) \in Seq(Letters) /\ Len(Typed(new, n + 1)) = n + 1
      /\ \A i \in 1 .. n + 1 : Typed(new, n + 1)[i] = new[i - 1]
  BY <1>3, n + 1 \in Nat, TypedIsSeq
<1>5. \A old \in Seq(Letters) :
        /\ Append(old, c) \in Seq(Letters) /\ Len(Append(old, c)) = Len(old) + 1
        /\ \A i \in 1 .. Len(old) : Append(old, c)[i] = old[i]
        /\ Append(old, c)[Len(old) + 1] = c
  BY AppendProperties
<1>6. /\ Append(Typed(buf, n), c) \in Seq(Letters)
      /\ Len(Append(Typed(buf, n), c)) = n + 1
      /\ \A i \in 1 .. n : Append(Typed(buf, n), c)[i] = buf[i - 1]
      /\ Append(Typed(buf, n), c)[n + 1] = c
  BY <1>2, <1>5
<1>7. \A i \in 1 .. n + 1 : Typed(new, n + 1)[i] = Append(Typed(buf, n), c)[i]
  BY <1>4, <1>6
<1>8. QED
  BY <1>4, <1>6, <1>7, SeqEqual

\* Fewer.
LEMMA TypedFewer ==
    ASSUME NEW n \in Nat, NEW m \in 0 .. n, NEW buf
    PROVE  SubSeq(Typed(buf, n), 1, m) = Typed(buf, m)
<1> DEFINE S == {buf[i] : i \in 0 .. n - 1}
<1>1. n \in Nat /\ \A i \in 0 .. n - 1 : buf[i] \in S
  OBVIOUS
<1>2. m \in Nat /\ m =< n /\ \A i \in 0 .. m - 1 : buf[i] \in S
  OBVIOUS
<1> HIDE DEF S
<1>3. /\ Typed(buf, n) \in Seq(S) /\ Len(Typed(buf, n)) = n
      /\ \A i \in 1 .. n : Typed(buf, n)[i] = buf[i - 1]
  BY ONLY <1>1, TypedIsSeq
<1>4. /\ Typed(buf, m) \in Seq(S) /\ Len(Typed(buf, m)) = m
      /\ \A i \in 1 .. m : Typed(buf, m)[i] = buf[i - 1]
  BY ONLY <1>2, TypedIsSeq
<1>5. /\ SubSeq(Typed(buf, n), 1, m) \in Seq(S) /\ Len(SubSeq(Typed(buf, n), 1, m)) = m
      /\ \A i \in 1 .. m : SubSeq(Typed(buf, n), 1, m)[i] = Typed(buf, n)[i]
  BY <1>3, SubSeqProperties
<1>6. \A i \in 1 .. m : SubSeq(Typed(buf, n), 1, m)[i] = Typed(buf, m)[i]
  BY ONLY <1>2, <1>3, <1>4, <1>5
<1>7. QED
  BY <1>4, <1>5, <1>6, SeqEqual

\* Where a string ends.
EndsAt(buf, size, n) ==
    /\ n \in 0 .. size
    /\ \A i \in 0 .. n - 1 : buf[i] # Nul
    /\ n < size => buf[n] = Nul

\* It ends there.
LEMMA CStringIs ==
    ASSUME NEW size \in Nat, NEW buf, NEW n, EndsAt(buf, size, n)
    PROVE  CString(buf, size) = Typed(buf, n)
<1> DEFINE ends == {i \in 0 .. size - 1 : buf[i] = Nul}
           len == IF ends = {} THEN size
                  ELSE CHOOSE i \in ends : \A j \in ends : i =< j
<1>1. CASE n = size
  <2>1. ends = {}
    BY <1>1 DEF EndsAt
  <2>2. len = n
    BY <1>1, <2>1
  <2>3. QED
    BY <2>2 DEF CString, Typed
<1>2. CASE n < size
  <2>1. n \in ends /\ \A i \in ends : n =< i
    BY <1>2 DEF EndsAt
  <2>2. len \in ends /\ \A j \in ends : len =< j
    BY <2>1
  <2>3. len = n
    <3>1. len =< n /\ n =< len /\ len \in Int /\ n \in Int
      BY <2>1, <2>2
    <3> HIDE DEF len
    <3>2. QED
      BY <3>1
  <2> HIDE DEF len
  <2>4. CString(buf, size) = [i \in 1 .. len |-> buf[i - 1]]
    BY DEF CString, len
  <2>5. QED
    BY <2>3, <2>4 DEF Typed
<1>3. QED
  BY <1>1, <1>2 DEF EndsAt

\* A set of numbers has a least one.
LEMMA LeastOf ==
    ASSUME NEW S, S \subseteq Nat, S # {}
    PROVE  \E m \in S : \A y \in S : m =< y
<1>1. PICK m \in S : \A y \in S : ~ (<<y, m>> \in OpToRel(<, Nat))
  BY WFMin, NatLessThanWellFounded
<1>2. \A y \in S : ~ (y < m)
  BY <1>1, Zenon DEF OpToRel
<1>3. QED
  BY <1>2

\* Every string ends.
LEMMA StringEnds ==
    ASSUME NEW size \in Nat, NEW buf
    PROVE  \E n : EndsAt(buf, size, n)
<1> DEFINE ends == {i \in 0 .. size - 1 : buf[i] = Nul}
<1>1. CASE ends = {}
  <2>1. EndsAt(buf, size, size)
    BY <1>1 DEF EndsAt
  <2>2. QED
    BY <2>1
<1>2. CASE ends # {}
  <2>1. PICK n \in ends : \A y \in ends : n =< y
    BY <1>2, ends \subseteq Nat, LeastOf
  <2>3. EndsAt(buf, size, n)
    BY <2>1 DEF EndsAt
  <2>4. QED
    BY <2>3
<1>3. QED
  BY <1>1, <1>2

-----------------------------------------------------------------------------
(* The driver implements LineEditor.                                       *)

\* The line while it is read, once it is ended, and when there is none.
LEMMA TheLine ==
    /\ Reading => EditorState = "reading" /\ EditorLine = Typed(buffer, index)
    /\ HaveRead => EditorState = "read" /\ EditorLine = CString(buffer, BufferSize)
    /\ ~ Reading /\ ~ HaveRead => EditorState = "idle" /\ EditorLine = << >>
<1>1. ~ (Reading /\ HaveRead)
  BY DEF Reading, HaveRead
<1>2. QED
  BY <1>1 DEF EditorState, EditorLine, Typed

\* The same in the next state.
LEMMA TheLineAfter ==
    /\ Reading' => EditorState' = "reading" /\ EditorLine' = Typed(buffer', index')
    /\ HaveRead' => EditorState' = "read" /\ EditorLine' = CString(buffer', BufferSize)
    /\ ~ Reading' /\ ~ HaveRead' => EditorState' = "idle" /\ EditorLine' = << >>
<1>1. ~ (Reading' /\ HaveRead')
  BY DEF Reading, HaveRead
<1>2. QED
  BY <1>1 DEF EditorState, EditorLine, Typed

\* What is typed so far are letters.
LEMMA LineSoFar ==
    ASSUME IInv
    PROVE  /\ index \in Nat /\ index \in 0 .. Byte - 1 /\ Byte \in Nat
           /\ Typed(buffer, index) \in Seq(Letters) /\ Len(Typed(buffer, index)) = index
           /\ Typed(LineBuffer, index) = Typed(buffer, index)
<1>1. index \in Nat /\ index \in 0 .. Byte - 1 /\ Byte \in Nat
  BY ScreenAssumption DEF IInv, TypeOK, Places, BufferSize
<1>2. \A i \in 0 .. index - 1 : buffer[i] \in Letters
  BY DEF IInv, LineIsLetters
<1>3. \A i \in 0 .. index - 1 : LineBuffer[i] = buffer[i]
  BY LineBufferType
<1>4. Typed(buffer, index) \in Seq(Letters) /\ Len(Typed(buffer, index)) = index
  BY ONLY <1>1, <1>2, TypedIsSeq
<1>5. Typed(LineBuffer, index) = Typed(buffer, index)
  BY ONLY <1>1, <1>3, TypedSame
<1>6. QED
  BY <1>1, <1>4, <1>5

\* The shell's buffer is empty in the beginning, and nobody reads.
LEMMA InitRefines == Init => Editor!Init
<1> SUFFICES ASSUME Init PROVE Editor!Init
  OBVIOUS
<1>1. EditorState = "idle" /\ EditorLine = << >>
  BY TheLine DEF Init, Reading, HaveRead
<1>2. UserSize \in Nat /\ 0 < UserSize
  BY ScreenAssumption, ConsoleAssumption
<1>3. EndsAt(userBuf, UserSize, 0)
  BY <1>2 DEF EndsAt, Init
<1>4. CString(userBuf, UserSize) = << >>
  BY ONLY <1>2, <1>3, CStringIs, TypedNone
<1>5. QED
  BY <1>1, <1>4 DEF Editor!Init

\* Steps that touch neither the driver's line nor the shell's.
LEMMA QuietSteps ==
    ASSUME IInv, IInv', UNCHANGED <<on, index, buffer, userBuf>>,
           pc' = pc \/ (pc \notin {"wait", "copy"} /\ pc' \notin {"wait", "copy"})
    PROVE  UNCHANGED Editor!vars
<1>1. CString(userBuf, UserSize)' = CString(userBuf, UserSize)
  BY DEF CString
<1>2. CASE pc' = pc
  BY <1>1, <1>2 DEF Editor!vars, EditorState, EditorLine, Reading, HaveRead, CString
<1>3. CASE pc \notin {"wait", "copy"} /\ pc' \notin {"wait", "copy"}
  BY <1>1, <1>3, TheLine, TheLineAfter DEF Editor!vars, Reading, HaveRead
<1>4. QED
  BY <1>2, <1>3

\* The shell begins to read: what is typed is not yet anything.
LEMMA BeginLineRefines ==
    ASSUME IInv, BeginLine
    PROVE  Editor!Begin
<1>1. /\ pc = "user" /\ pc' = "wait" /\ on' = TRUE /\ index = 0
      /\ UNCHANGED <<index, buffer, userBuf>>
  BY DEF IInv, OnWhileWaiting, OffIsEmpty, BeginLine
<1>2. EditorState = "idle" /\ EditorLine = << >>
  BY <1>1, TheLine DEF Reading, HaveRead
<1>3. EditorState' = "reading" /\ EditorLine' = Typed(buffer, 0)
  BY <1>1, TheLineAfter DEF Reading
<1>4. CString(userBuf, UserSize)' = CString(userBuf, UserSize)
  BY <1>1 DEF CString
<1>5. QED
  BY <1>2, <1>3, <1>4, TypedNone DEF Editor!Begin

\* A key is remembered, or a code passes: the line stays as it is.
LEMMA TakeOrPassRefines ==
    ASSUME IInv, TakeKey \/ PassCode
    PROVE  UNCHANGED Editor!vars
<1>1. /\ ReadCode /\ on /\ UNCHANGED <<on, index>> /\ buffer' = LineBuffer
  BY DEF TakeKey, PassCode, ReadCode
<1>2. pc = "wait" /\ UNCHANGED <<pc, userBuf>>
  BY <1>1, CodeIsRead
<1>3. Reading /\ Reading'
  BY <1>1, <1>2 DEF Reading
<1>4. EditorLine' = EditorLine /\ EditorState' = EditorState
  BY <1>1, <1>3, TheLine, TheLineAfter, LineSoFar
<1>5. QED
  BY <1>2, <1>4 DEF Editor!vars, CString

\* The remembered key acts while the line is read.
LEMMA WhenAKeyActs ==
    ASSUME IInv, KeyActs
    PROVE  /\ Reading /\ pc' = "wait" /\ last \in Chars
           /\ EditorState = "reading" /\ EditorLine = Typed(buffer, index)
           /\ CString(userBuf, UserSize)' = CString(userBuf, UserSize)
<1>1. ReadCode /\ on /\ last \in Chars
  BY KeyThatActs
<1>2. pc = "wait" /\ UNCHANGED <<pc, userBuf>>
  BY <1>1, CodeIsRead
<1>3. Reading
  BY <1>1, <1>2 DEF Reading
<1>4. QED
  BY <1>1, <1>2, <1>3, TheLine DEF CString

\* Enter: the string that ends where the index was is the line.
LEMMA EndLineRefines ==
    ASSUME IInv, EndLine
    PROVE  Editor!End
<1>1. /\ pc' = "wait" /\ EditorState = "reading" /\ EditorLine = Typed(buffer, index)
      /\ CString(userBuf, UserSize)' = CString(userBuf, UserSize)
  BY WhenAKeyActs DEF EndLine
<1>2. /\ on' = FALSE /\ buffer' = [LineBuffer EXCEPT ![index] = Nul]
  BY DEF EndLine
<1>3. /\ index \in Nat /\ index \in 0 .. Byte - 1 /\ Byte \in Nat
      /\ Typed(LineBuffer, index) = Typed(buffer, index)
  BY LineSoFar
<1>4. EditorState' = "read" /\ EditorLine' = CString(buffer', BufferSize)
  BY <1>1, <1>2, TheLineAfter DEF HaveRead
<1>5. /\ buffer'[index] = Nul
      /\ \A i \in 0 .. index - 1 : buffer'[i] = LineBuffer[i] /\ LineBuffer[i] \in Letters
  BY <1>2, <1>3, LineBufferType DEF Places, BufferSize
<1>6. EndsAt(buffer', BufferSize, index)
  BY <1>3, <1>5, ConsoleAssumption DEF EndsAt, BufferSize
<1>7. Typed(buffer', index) = Typed(LineBuffer, index)
  BY ONLY <1>3, <1>5, TypedSame
<1>8. CString(buffer', BufferSize) = Typed(buffer', index)
  BY <1>3, <1>6, CStringIs DEF BufferSize
<1>9. QED
  BY <1>1, <1>3, <1>4, <1>7, <1>8 DEF Editor!End

\* Backspace erases the last letter, or there is none.
LEMMA EraseLetterRefines ==
    ASSUME IInv, EraseLetter
    PROVE  Editor!Erase \/ UNCHANGED Editor!vars
<1> DEFINE n == IF index > 0 THEN index - 1 ELSE index
<1>1. /\ pc' = "wait" /\ EditorState = "reading" /\ EditorLine = Typed(buffer, index)
      /\ CString(userBuf, UserSize)' = CString(userBuf, UserSize) /\ Reading
  BY WhenAKeyActs DEF EraseLetter
<1>2. /\ on' = on /\ buffer' = LineBuffer /\ index' = n
  BY DEF EraseLetter
<1>3. /\ index \in Nat
      /\ Typed(buffer, index) \in Seq(Letters) /\ Len(Typed(buffer, index)) = index
      /\ Typed(LineBuffer, index) = Typed(buffer, index)
  BY LineSoFar
<1>4. EditorState' = "reading" /\ EditorLine' = Typed(LineBuffer, n)
  BY <1>1, <1>2, TheLineAfter DEF Reading
<1>5. CASE index = 0
  BY <1>1, <1>3, <1>4, <1>5 DEF Editor!vars
<1>6. CASE index > 0
  <2>1. n = index - 1 /\ n \in 0 .. index
    BY <1>3, <1>6
  <2>3. SubSeq(Typed(LineBuffer, index), 1, n) = Typed(LineBuffer, n)
    <3> HIDE DEF n
    <3>1. index \in Nat /\ n \in 0 .. index
      BY <1>3, <2>1
    <3>2. QED
      BY ONLY <3>1, TypedFewer
  <2>4. EditorLine # << >>
    BY <1>1, <1>3, <1>6, EmptySeq
  <2>5. EditorLine' = SubSeq(EditorLine, 1, Len(EditorLine) - 1)
    BY <1>1, <1>3, <1>4, <2>1, <2>3
  <2>6. QED
    BY <1>1, <1>4, <2>4, <2>5 DEF Editor!Erase
<1>7. QED
  BY <1>3, <1>5, <1>6

\* A letter goes to the end of the line, which is lost when that fills the
\* buffer.
LEMMA AddLetterRefines ==
    ASSUME IInv, AddLetter
    PROVE  \E c \in Letters : Editor!Insert(c)
<1> DEFINE n == (index + 1) % Byte
<1>1. /\ pc' = "wait" /\ EditorState = "reading" /\ EditorLine = Typed(buffer, index)
      /\ CString(userBuf, UserSize)' = CString(userBuf, UserSize) /\ Reading
      /\ last \in Chars
  BY WhenAKeyActs DEF AddLetter
<1>2. /\ on' = on /\ buffer' = [LineBuffer EXCEPT ![index] = last] /\ index' = n
      /\ last \in Letters
  BY <1>1 DEF AddLetter, Chars
<1>3. /\ index \in Nat /\ index \in Places /\ Len(Typed(buffer, index)) = index
      /\ Typed(LineBuffer, index) = Typed(buffer, index) /\ Byte \in Nat
  BY LineSoFar DEF IInv, TypeOK
<1>4. EditorState' = "reading" /\ EditorLine' = Typed(buffer', n)
  BY <1>1, <1>2, TheLineAfter DEF Reading
<1>5. EditorLine' = IF index + 1 = Byte THEN << >> ELSE Append(EditorLine, last)
  <2>1. CASE index + 1 = Byte
    <3>1. n = 0
      BY <1>3, <2>1, NextIndex
    <3>2. QED
      BY <1>4, <2>1, <3>1, TypedNone
  <2>2. CASE index + 1 # Byte
    <3>1. n = index + 1
      BY <1>3, <2>2, NextIndex
    <3>2. \A i \in 0 .. index - 1 : LineBuffer[i] \in Letters
      BY LineBufferType
    <3>3. /\ buffer'[index] = last
          /\ \A i \in 0 .. index - 1 : buffer'[i] = LineBuffer[i]
      BY <1>2, <1>3, LineBufferType DEF Places, BufferSize
    <3>4. Typed(buffer', index + 1) = Append(Typed(LineBuffer, index), last)
      <4>1. index \in Nat /\ last \in Letters
        BY <1>2, <1>3
      <4>2. QED
        BY ONLY <3>2, <3>3, <4>1, TypedMore
    <3>5. QED
      BY <1>1, <1>3, <1>4, <2>2, <3>1, <3>4
  <2>3. QED
    BY <2>1, <2>2
<1>6. Editor!Insert(last)
  BY <1>1, <1>3, <1>4, <1>5 DEF Editor!Insert
<1>7. QED
  BY <1>2, <1>6

\* The shell sees that the line is there.
LEMMA SeeLineRefines ==
    ASSUME IInv, SeeLine
    PROVE  UNCHANGED Editor!vars
<1>1. /\ HaveRead /\ HaveRead' /\ UNCHANGED <<buffer, userBuf>>
  BY DEF SeeLine, HaveRead, driver
<1>2. CString(userBuf, UserSize)' = CString(userBuf, UserSize)
  BY <1>1 DEF CString
<1>3. QED
  BY <1>1, <1>2, TheLine, TheLineAfter DEF Editor!vars

\* The shell's buffer gets the line, or as much of it as it has room for.
LEMMA TakeLineRefines ==
    ASSUME IInv, TakeLine
    PROVE  Editor!Deliver
<1>1. /\ pc = "copy" /\ pc' = "user" /\ UNCHANGED <<on, index, buffer>>
      /\ userBuf' = [i \in 0 .. UserSize - 1 |-> buffer[i]]
  BY DEF TakeLine, driver
<1>2. EditorState = "read" /\ EditorLine = CString(buffer, BufferSize)
  BY <1>1, TheLine DEF HaveRead
<1>3. EditorState' = "idle" /\ EditorLine' = << >>
  BY <1>1, TheLineAfter DEF Reading, HaveRead
<1>4. BufferSize \in Nat /\ UserSize \in Nat /\ UserSize < BufferSize
  BY ScreenAssumption, ConsoleAssumption DEF BufferSize
<1>5. PICK n : EndsAt(buffer, BufferSize, n)
  BY <1>4, StringEnds
<1>6. /\ n \in Nat /\ n =< BufferSize
      /\ \A i \in 0 .. n - 1 : buffer[i] # Nul
      /\ n < BufferSize => buffer[n] = Nul
  BY <1>4, <1>5 DEF EndsAt
<1>7. EditorLine = Typed(buffer, n)
  BY <1>2, <1>4, <1>5, CStringIs
<1>8. \A i \in 0 .. n - 1 : buffer[i] \in Cells
  BY <1>4, <1>6 DEF IInv, TypeOK, Places, Cells
<1>9. Len(EditorLine) = n
  BY ONLY <1>6, <1>7, <1>8, TypedIsSeq
<1> DEFINE m == IF n < UserSize THEN n ELSE UserSize
<1>10. m \in 0 .. n /\ m \in 0 .. UserSize /\ (m < UserSize => m = n)
  BY <1>4, <1>6
<1> HIDE DEF m
<1>11. \A i \in 0 .. UserSize - 1 : userBuf'[i] = buffer[i]
  BY <1>1
<1>12. EndsAt(userBuf', UserSize, m)
  <2>1. \A i \in 0 .. m - 1 : userBuf'[i] # Nul
    BY <1>4, <1>6, <1>10, <1>11
  <2>2. m < UserSize => userBuf'[m] = Nul
    BY <1>4, <1>6, <1>10, <1>11
  <2>3. QED
    BY <1>10, <2>1, <2>2 DEF EndsAt
<1>13. CString(userBuf', UserSize) = Typed(userBuf', m)
  BY <1>4, <1>12, CStringIs
<1>14. Typed(userBuf', m) = Typed(buffer, m)
  <2>1. m \in Nat /\ \A i \in 0 .. m - 1 : userBuf'[i] = buffer[i]
    BY <1>4, <1>10, <1>11
  <2>2. QED
    BY ONLY <2>1, TypedSame
<1>15. SubSeq(Typed(buffer, n), 1, m) = Typed(buffer, m)
  <2>1. n \in Nat /\ m \in 0 .. n
    BY <1>6, <1>10
  <2>2. QED
    BY ONLY <2>1, TypedFewer
<1>16. CString(userBuf', UserSize) = SubSeq(EditorLine, 1, m)
  BY <1>7, <1>13, <1>14, <1>15
<1>17. m = IF Len(EditorLine) < UserSize THEN Len(EditorLine) ELSE UserSize
  BY <1>9 DEF m
<1>18. CString(userBuf, UserSize)' = CString(userBuf', UserSize)
  BY DEF CString
<1>19. QED
  BY <1>2, <1>3, <1>16, <1>17, <1>18 DEF Editor!Deliver

\* Every step is a step of LineEditor or changes nothing of it.
LEMMA NextRefines == IInv /\ IInv' /\ [Next]_vars => [Editor!Next]_(Editor!vars)
<1> SUFFICES ASSUME IInv, IInv', [Next]_vars
             PROVE  Editor!Next \/ UNCHANGED Editor!vars
  OBVIOUS
<1>1. CASE Boot
  BY <1>1, QuietSteps
  DEF Boot, InitializeIdt, ActivateKeyboardInterrupt, StartShell, driver
<1>2. CASE Shell
  <2>1. CASE ShowPrompt \/ ShowLine
    BY <2>1, QuietSteps DEF ShowPrompt, ShowLine, driver
  <2>2. CASE BeginLine
    BY <2>2, BeginLineRefines DEF Editor!Next
  <2>3. CASE SeeLine
    BY <2>3, SeeLineRefines
  <2>4. CASE TakeLine
    BY <2>4, TakeLineRefines DEF Editor!Next
  <2>5. QED
    BY <1>2, <2>1, <2>2, <2>3, <2>4 DEF Shell
<1>3. CASE KeyboardIsr
  <2>1. CASE IgnoreKey
    <3>1. UNCHANGED <<on, index, buffer, userBuf, pc>>
      BY <2>1 DEF IgnoreKey, KeyboardInterrupt, IInv, OffIsEmpty
    <3>2. QED
      BY <3>1, QuietSteps
  <2>2. CASE TakeKey \/ PassCode
    BY <2>2, TakeOrPassRefines
  <2>3. CASE EndLine
    BY <2>3, EndLineRefines DEF Editor!Next
  <2>4. CASE EraseLetter
    BY <2>4, EraseLetterRefines DEF Editor!Next
  <2>5. CASE AddLetter
    BY <2>5, AddLetterRefines DEF Editor!Next
  <2>6. QED
    BY <1>3, <2>1, <2>2, <2>3, <2>4, <2>5 DEF KeyboardIsr
<1>4. CASE TimerInterrupt
  BY <1>4, QuietSteps DEF TimerInterrupt, driver
<1>5. CASE User
  <2>1. UNCHANGED <<on, index, buffer, userBuf, pc>>
    BY <1>5 DEF User, Press, Release, Send, driver
  <2>2. QED
    BY <2>1, QuietSteps
<1>6. CASE UNCHANGED vars
  BY <1>6, QuietSteps DEF vars, driver
<1>7. QED
  BY <1>1, <1>2, <1>3, <1>4, <1>5, <1>6 DEF Next

\* Whatever keys overlap, repeat or come while nobody reads, for every size
\* of the buffers: what the shell gets is one line, the letters taken in since
\* the call began less those erased, and nothing of a line before.
THEOREM LineEditorIsImplemented == Spec => ImplementsLineEditor
<1>1. Init => Editor!Init
  BY InitRefines
<1>2. IInv /\ IInv' /\ [Next]_vars => [Editor!Next]_(Editor!vars)
  BY NextRefines
<1>3. Spec => Editor!Spec
  BY <1>1, <1>2, InductiveInvariant, PTL DEF Spec, Editor!Spec
<1>4. QED
  BY <1>3 DEF ImplementsLineEditor

-----------------------------------------------------------------------------
(* Positions, rows and columns.                                            *)

\* The next multiple is a whole divisor away.
LEMMA NextMultiple ==
    ASSUME NEW b \in Nat \ {0}, NEW p \in Int, NEW q \in Int, p < q
    PROVE  p * b + b =< q * b
  OBVIOUS

\* A position is its row and its column, as long as the row fits 8 bits.
LEMMA PositionIs ==
    ASSUME NEW p \in Nat, p < Byte * Cols
    PROVE  /\ RowOf(p) \in 0 .. Byte - 1 /\ ColOf(p) \in 0 .. Cols - 1
           /\ p = RowOf(p) * Cols + ColOf(p)
<1> DEFINE r == p \div Cols
           c == p % Cols
<1>1. Byte \in Nat \ {0} /\ Cols \in Nat \ {0}
  BY ScreenAssumption
<1>2. r \in Nat /\ c \in 0 .. Cols - 1 /\ p = Cols * r + c
  BY <1>1, DivMod
<1>3. c = ColOf(p) /\ r % Byte = RowOf(p)
  BY DEF RowOf, ColOf
<1> HIDE DEF r, c
<1>4. Cols * r = r * Cols /\ r * Cols \in Nat /\ Byte * Cols \in Nat
  BY <1>1, <1>2
<1>5. r < Byte
  <2>1. SUFFICES ASSUME Byte =< r PROVE FALSE
    BY <1>1, <1>2
  <2>2. Byte * Cols =< r * Cols
    BY <1>1, <1>2, <2>1
  <2>3. QED
    BY <1>2, <1>4, <2>2
<1>6. r % Byte = r
  BY <1>1, <1>2, <1>5
<1>7. QED
  BY <1>1, <1>2, <1>3, <1>4, <1>5, <1>6

\* The cursor is set where row and column say.
LEMMA SetsPosition ==
    ASSUME NEW r \in 0 .. Byte - 1, NEW c \in 0 .. Cols - 1
    PROVE  SetCursor(r, c) = r * Cols + c
<1>1. /\ r \in Nat /\ c \in Nat /\ r < Byte /\ c < Byte
      /\ Byte \in Nat \ {0}
  BY ScreenAssumption
<1>2. r % Byte = r /\ c % Byte = c
  BY <1>1
<1>3. QED
  BY <1>2 DEF SetCursor

\* Reading the cursor and setting it again leaves it where it is.
LEMMA SameIsSame ==
    ASSUME NEW p \in Nat, p < Byte * Cols
    PROVE  SameCursor(p) = p
  BY PositionIs, SetsPosition DEF SameCursor

\* What is on the screen, and the place behind it, have rows that fit 8 bits.
LEMMA ScreenFits ==
    ASSUME NEW p \in Nat, OnScreen(p)
    PROVE  p < Byte * Cols /\ p + 1 < Byte * Cols
<1>1. Rows \in Int /\ Byte \in Int /\ Rows < Byte /\ Cols \in Nat \ {0} /\ 1 < Cols
  BY ScreenAssumption
<1>2. Rows * Cols + Cols =< Byte * Cols
  BY <1>1, NextMultiple
<1>3. Rows * Cols \in Int /\ Byte * Cols \in Int
  BY <1>1
<1>4. QED
  BY <1>1, <1>2, <1>3 DEF OnScreen

\* On the screen an echoed character takes the cursor one place on, over the
\* end of a row too.
LEMMA EchoIsOneOn ==
    ASSUME NEW p \in Nat, OnScreen(p)
    PROVE  AfterEcho(p) = p + 1
<1> DEFINE r == RowOf(p)
           c == ColOf(p)
<1>1. Byte \in Nat /\ Cols \in Nat /\ 1 < Cols
  BY ScreenAssumption
<1>2. p < Byte * Cols /\ p + 1 < Byte * Cols
  BY ScreenFits
<1>3. r \in 0 .. Byte - 1 /\ c \in 0 .. Cols - 1 /\ p = r * Cols + c
  BY <1>2, PositionIs
<1>4. AfterEcho(p) = IF c = Cols - 1 THEN SetCursor(r + 1, 0) ELSE SetCursor(r, c + 1)
  BY DEF AfterEcho
<1> HIDE DEF r, c
<1>5. CASE c # Cols - 1
  <2>1. c + 1 \in 0 .. Cols - 1
    BY <1>1, <1>3, <1>5
  <2>2. SetCursor(r, c + 1) = r * Cols + (c + 1)
    BY <1>3, <2>1, SetsPosition
  <2>3. r * Cols \in Int
    BY <1>1, <1>3
  <2>4. QED
    BY <1>3, <1>4, <1>5, <2>2, <2>3
<1>6. CASE c = Cols - 1
  <2>1. /\ (r + 1) * Cols = r * Cols + Cols
        /\ r * Cols \in Int /\ Byte * Cols \in Int
    BY <1>1, <1>3
  <2>2. p + 1 = (r + 1) * Cols
    BY <1>1, <1>3, <1>6, <2>1
  <2>3. r + 1 < Byte
    BY <1>1, <1>2, <1>3, <2>2
  <2>4. r + 1 \in 0 .. Byte - 1 /\ 0 \in 0 .. Cols - 1
    BY <1>1, <1>3, <2>3
  <2>5. SetCursor(r + 1, 0) = (r + 1) * Cols + 0
    BY <2>4, SetsPosition
  <2>6. (r + 1) * Cols \in Int
    BY <1>1, <1>3
  <2>7. QED
    BY <1>4, <1>6, <2>2, <2>5, <2>6
<1>7. QED
  BY <1>5, <1>6

\* And a backspace one place back, over the beginning of a row too.
LEMMA BackIsOneBack ==
    ASSUME NEW p \in Nat, OnScreen(p), p # 0
    PROVE  BeforeEcho(p) = p - 1
<1> DEFINE r == RowOf(p)
           c == ColOf(p)
<1>1. Byte \in Nat /\ Cols \in Nat /\ 1 < Cols
  BY ScreenAssumption
<1>2. p < Byte * Cols
  BY ScreenFits
<1>3. r \in 0 .. Byte - 1 /\ c \in 0 .. Cols - 1 /\ p = r * Cols + c
  BY <1>2, PositionIs
<1>4. BeforeEcho(p) = IF c # 0 THEN SetCursor(r, c - 1)
                      ELSE IF r > 0 THEN SetCursor(r - 1, Cols - 1) ELSE p
  BY DEF BeforeEcho
<1> HIDE DEF r, c
<1>5. r * Cols \in Int
  BY <1>1, <1>3
<1>6. CASE c # 0
  <2>1. c - 1 \in 0 .. Cols - 1
    BY <1>1, <1>3, <1>6
  <2>2. SetCursor(r, c - 1) = r * Cols + (c - 1)
    BY <1>3, <2>1, SetsPosition
  <2>3. QED
    BY <1>3, <1>4, <1>5, <1>6, <2>2
<1>7. CASE c = 0
  <2>1. r > 0
    <3>1. r = 0 => r * Cols = 0
      BY <1>1
    <3>2. QED
      BY <1>3, <1>7, <3>1
  <2>2. r - 1 \in 0 .. Byte - 1 /\ Cols - 1 \in 0 .. Cols - 1
    BY <1>1, <1>3, <2>1
  <2>3. SetCursor(r - 1, Cols - 1) = (r - 1) * Cols + (Cols - 1)
    BY <2>2, SetsPosition
  <2>4. (r - 1) * Cols = r * Cols - Cols
    BY <1>1, <1>3
  <2>5. QED
    BY <1>1, <1>3, <1>4, <1>5, <1>7, <2>1, <2>3, <2>4
<1>8. QED
  BY <1>6, <1>7

-----------------------------------------------------------------------------
(* The cursor's invariant.                                                 *)

\* A line whose start is known is read and on the screen, and the cursor is
\* behind it.
KnownStart ==
    start # Lost =>
        /\ on
        /\ OnScreen(cursor)
        /\ cursor = start + index

StartType == start \in Nat \cup {Lost}

CursorInv == IInv /\ StartType /\ KnownStart

\* The code that is read when a code moves the cursor.
LEMMA NotSideways ==
    ASSUME IInv, ReadCode, NEW p \in Nat, NEW n,
           ~ MovedSideways, p < Byte * Cols
    PROVE  Moved(Head(scan), p, n) = p
<1>1. scan # << >> /\ scan' = Tail(scan)
  BY DEF IInv, LatchedIsThere, ReadCode, KeyboardInterrupt
<1>2. Head(scan) \notin {"left", "right"}
  BY <1>1 DEF MovedSideways
<1>3. SameCursor(p) = p
  BY SameIsSame
<1>4. QED
  BY <1>2, <1>3 DEF Moved

\* What a step must do for the invariant to hold after it.
LEMMA StartKeeps ==
    ASSUME CursorInv, IInv', MCNext,
           start' # Lost => \/ /\ cursor' = start + index'
                               /\ ~ index' < index - 1
                               /\ ~ (pc = "user" /\ pc' = "wait")
                            \/ /\ cursor' = (start + Byte) + index'
                               /\ index' < index - 1
                               /\ ~ (pc = "user" /\ pc' = "wait")
                            \/ /\ pc = "user" /\ pc' = "wait"
                               /\ cursor' = cursor /\ index' = 0
    PROVE  CursorInv'
<1>1. /\ start' = IF on' /\ OnScreen(cursor') THEN LineStart ELSE Lost
      /\ start \in Nat \cup {Lost} /\ cursor \in Nat /\ Byte \in Nat
  BY ScreenAssumption DEF MCNext, CursorInv, StartType, IInv, TypeOK, Positions
<1>2. CASE start' = Lost
  BY <1>2 DEF CursorInv, StartType, KnownStart
<1>3. CASE start' # Lost
  <2>1. on' /\ OnScreen(cursor') /\ start' = LineStart /\ ~ MovedSideways
    BY <1>1, <1>3 DEF LineStart
  <2>2. start' = IF pc = "user" /\ pc' = "wait" THEN cursor
                 ELSE IF start # Lost /\ index' < index - 1 THEN start + Byte
                 ELSE start
    BY <2>1 DEF LineStart
  <2>3. start' \in Nat /\ cursor' = start' + index'
    <3>1. CASE pc = "user" /\ pc' = "wait"
      <4>1. start' = cursor /\ cursor' = cursor /\ index' = 0
        BY <1>3, <2>2, <3>1
      <4>2. QED
        BY <1>1, <4>1
    <3>2. CASE ~ (pc = "user" /\ pc' = "wait")
      <4>1. start # Lost /\ start \in Nat
        BY <1>1, <1>3, <2>2, <3>2
      <4>2. CASE index' < index - 1
        <5>1. start' = start + Byte /\ cursor' = (start + Byte) + index'
          BY <1>3, <2>2, <3>2, <4>1, <4>2
        <5>2. QED
          BY <1>1, <4>1, <5>1
      <4>3. CASE ~ index' < index - 1
        BY <1>3, <2>2, <3>2, <4>1, <4>3
      <4>4. QED
        BY <4>2, <4>3
    <3>3. QED
      BY <3>1, <3>2
  <2>4. QED
    BY <2>1, <2>3 DEF CursorInv, StartType, KnownStart, OnScreen
<1>4. QED
  BY <1>2, <1>3

\* Steps that leave the driver's state and the cursor alone, or switch it off.
LEMMA OtherKeeps ==
    ASSUME CursorInv, IInv', MCNext, ~ (pc = "user" /\ pc' = "wait"),
           ~ on' \/ UNCHANGED <<index, cursor>>
    PROVE  CursorInv'
<1>1. start' # Lost => on' /\ start # Lost
  BY DEF MCNext, LineStart
<1>2. (start # Lost => cursor = start + index) /\ index \in Int
  BY ScreenAssumption DEF CursorInv, KnownStart, IInv, TypeOK, Places, BufferSize
<1>3. QED
  BY <1>1, <1>2, StartKeeps

\* A line begins where the cursor is.
LEMMA BeginKeepsCursor ==
    ASSUME CursorInv, IInv', MCNext, BeginLine
    PROVE  CursorInv'
<1>1. pc = "user" /\ pc' = "wait" /\ cursor' = cursor /\ index' = index
  BY DEF BeginLine
<1>2. index = 0
  BY <1>1 DEF CursorInv, IInv, OnWhileWaiting, OffIsEmpty
<1>3. QED
  BY <1>1, <1>2, StartKeeps

\* What holds when the start stays known over a step of the handler.
LEMMA StaysKnown ==
    ASSUME CursorInv, MCNext, ReadCode, start' # Lost
    PROVE  /\ pc = "wait" /\ ~ MovedSideways /\ OnScreen(cursor') /\ start # Lost
           /\ on /\ OnScreen(cursor) /\ cursor \in Nat /\ index \in Nat /\ Byte \in Nat
           /\ start \in Nat /\ cursor = start + index
<1>1. on' /\ OnScreen(cursor') /\ start' = LineStart /\ ~ MovedSideways
  BY DEF MCNext, LineStart
<1>2. pc = "wait"
  BY CodeIsRead DEF CursorInv
<1>3. start # Lost
  BY <1>1, <1>2 DEF LineStart
<1>4. cursor \in Nat /\ index \in Nat /\ Byte \in Nat
  BY ScreenAssumption DEF CursorInv, IInv, TypeOK, Places, BufferSize, Positions
<1>5. QED
  BY <1>1, <1>2, <1>3, <1>4 DEF CursorInv, StartType, KnownStart

\* No key acts.
LEMMA TakeOrPassKeepsCursor ==
    ASSUME CursorInv, IInv', MCNext, TakeKey \/ PassCode
    PROVE  CursorInv'
<1>1. ReadCode /\ index' = index /\ IInv
  BY DEF TakeKey, PassCode, CursorInv
<1>2. ASSUME start' # Lost PROVE cursor' = cursor
  <2>1. /\ ~ MovedSideways /\ OnScreen(cursor) /\ cursor \in Nat
    BY <1>1, <1>2, StaysKnown
  <2>2. cursor < Byte * Cols
    BY <2>1, ScreenFits
  <2>3. CASE TakeKey
    BY <2>3 DEF TakeKey
  <2>4. CASE PassCode
    BY <1>1, <2>1, <2>2, <2>4, NotSideways DEF PassCode
  <2>5. QED
    BY <2>3, <2>4
<1>3. ASSUME start' # Lost
      PROVE  pc # "user" /\ cursor = start + index /\ index \in Int
  BY <1>1, <1>3, StaysKnown
<1>4. QED
  BY <1>1, <1>2, <1>3, StartKeeps

\* Backspace takes both the cursor and the index one back.
LEMMA EraseKeepsCursor ==
    ASSUME CursorInv, IInv', MCNext, EraseLetter
    PROVE  CursorInv'
<1> DEFINE p == IF index > 0 THEN BeforeEcho(cursor) ELSE cursor
           n == IF index > 0 THEN index - 1 ELSE index
<1>1. ReadCode /\ index' = n /\ cursor' = Moved(Head(scan), p, n) /\ IInv
  BY DEF EraseLetter, KeyActs, CursorInv
<1>2. ASSUME start' # Lost
      PROVE  /\ cursor' = start + index'
             /\ pc # "user" /\ ~ index' < index - 1
  <2>1. /\ ~ MovedSideways /\ OnScreen(cursor) /\ cursor \in Nat /\ index \in Nat
        /\ pc = "wait" /\ start \in Nat /\ cursor = start + index
    BY <1>1, <1>2, StaysKnown
  <2>2. cursor < Byte * Cols
    BY <2>1, ScreenFits
  <2>3. p = IF index > 0 THEN cursor - 1 ELSE cursor
    BY <2>1, BackIsOneBack
  <2>4. p \in Nat /\ p < Byte * Cols
    <3>1. Byte * Cols \in Int
      BY ScreenAssumption
    <3>2. QED
      BY <2>1, <2>2, <2>3, <3>1
  <2>5. cursor' = p
    <3> HIDE DEF p, n
    <3>1. QED
      BY <1>1, <2>1, <2>4, NotSideways
  <2>6. QED
    BY <1>1, <2>1, <2>3, <2>5
<1>3. QED
  BY <1>2, StartKeeps

\* A letter takes the cursor one on, and the index, which wraps after the
\* last place of the buffer.
LEMMA AddKeepsCursor ==
    ASSUME CursorInv, IInv', MCNext, AddLetter
    PROVE  CursorInv'
<1> DEFINE n == (index + 1) % Byte
<1>1. /\ ReadCode /\ index' = n /\ cursor' = Moved(Head(scan), AfterEcho(cursor), n)
      /\ IInv /\ index \in Places
  BY DEF AddLetter, KeyActs, CursorInv, IInv, TypeOK
<1>2. /\ index + 1 = Byte => n = 0
      /\ index + 1 # Byte => n = index + 1
  BY <1>1, NextIndex
<1> HIDE DEF n
<1>3. ASSUME start' # Lost
      PROVE  /\ pc # "user"
             /\ \/ cursor' = start + index' /\ ~ index' < index - 1
                \/ cursor' = (start + Byte) + index' /\ index' < index - 1
  <2>1. /\ ~ MovedSideways /\ OnScreen(cursor) /\ cursor \in Nat /\ index \in Nat
        /\ pc = "wait" /\ start \in Nat /\ cursor = start + index
    BY <1>1, <1>3, StaysKnown
  <2>2. cursor + 1 \in Nat /\ cursor + 1 < Byte * Cols
    BY <2>1, ScreenFits
  <2>3. AfterEcho(cursor) = cursor + 1
    BY <2>1, EchoIsOneOn
  <2>4. cursor' = cursor + 1
    BY <1>1, <2>1, <2>2, <2>3, NotSideways
  <2>5. Byte \in Nat /\ 2 < Byte
    BY ScreenAssumption
  <2>6. CASE index + 1 = Byte
    BY <1>1, <1>2, <2>1, <2>4, <2>5, <2>6
  <2>7. CASE index + 1 # Byte
    BY <1>1, <1>2, <2>1, <2>4, <2>7
  <2>8. QED
    BY <2>1, <2>6, <2>7
<1>4. QED
  BY <1>3, StartKeeps

-----------------------------------------------------------------------------

\* No step leaves the invariant.
LEMMA MCNextKeeps ==
    CursorInv /\ IInv' /\ [MCNext]_<<vars, start>> => CursorInv'
<1> SUFFICES ASSUME CursorInv, IInv', [MCNext]_<<vars, start>> PROVE CursorInv'
  OBVIOUS
<1>1. CASE UNCHANGED <<vars, start>>
  BY <1>1 DEF vars, driver, CursorInv, StartType, KnownStart, OnScreen
<1>2. CASE MCNext
  <2>1. CASE Boot
    <3>1. ~ on' /\ ~ (pc = "user")
      BY <2>1 DEF Boot, InitializeIdt, ActivateKeyboardInterrupt, StartShell, driver,
                  CursorInv, IInv, OnWhileWaiting
    <3>2. QED
      BY <1>2, <3>1, OtherKeeps
  <2>2. CASE Shell
    <3>1. CASE BeginLine
      BY <1>2, <3>1, BeginKeepsCursor
    <3>2. CASE ShowPrompt \/ ShowLine \/ SeeLine \/ TakeLine
      <4>1. ~ on' /\ ~ (pc = "user" /\ pc' = "wait")
        BY <3>2 DEF ShowPrompt, ShowLine, SeeLine, TakeLine, driver,
                    CursorInv, IInv, OnWhileWaiting
      <4>2. QED
        BY <1>2, <4>1, OtherKeeps
    <3>3. QED
      BY <2>2, <3>1, <3>2 DEF Shell
  <2>3. CASE KeyboardIsr
    <3>1. CASE IgnoreKey \/ EndLine
      <4>1. ~ on' /\ pc' = pc
        BY <3>1 DEF IgnoreKey, EndLine, KeyActs, ReadCode, KeyboardInterrupt
      <4>2. QED
        BY <1>2, <4>1, OtherKeeps
    <3>2. QED
      BY <1>2, <2>3, <3>1, TakeOrPassKeepsCursor, EraseKeepsCursor, AddKeepsCursor
      DEF KeyboardIsr
  <2>4. CASE TimerInterrupt \/ User
    <3>1. UNCHANGED <<pc, index, cursor>>
      BY <2>4 DEF TimerInterrupt, User, Press, Release, Send, driver
    <3>2. QED
      BY <1>2, <3>1, OtherKeeps
  <2>5. QED
    BY <1>2, <2>1, <2>2, <2>3, <2>4 DEF MCNext, Next
<1>3. QED
  BY <1>1, <1>2

\* For every screen, buffer and text, and whatever is typed: on the screen,
\* and until a key moves it sideways, the cursor is behind the last letter of
\* the line, over the ends of rows in both directions and after the index has
\* wrapped.
THEOREM CursorStaysBehindLine == MCSpec => []CursorFollowsLine
<1>1. MCInit => CursorInv
  BY InitialState DEF MCInit, CursorInv, StartType, KnownStart
<1>2. CursorInv /\ [MCNext]_<<vars, start>> => CursorInv'
  <2> SUFFICES ASSUME CursorInv, [MCNext]_<<vars, start>> PROVE CursorInv'
    OBVIOUS
  <2>1. IInv /\ [Next]_vars
    BY DEF CursorInv, MCNext
  <2>2. IInv'
    BY <2>1, NextKeeps
  <2>3. QED
    BY <2>2, MCNextKeeps
<1>3. CursorInv => CursorFollowsLine
  BY DEF CursorInv, KnownStart, CursorFollowsLine
<1>4. QED
  BY <1>1, <1>2, <1>3, PTL DEF MCSpec

=============================================================================
