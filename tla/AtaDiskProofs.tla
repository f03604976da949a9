--------------------------- MODULE AtaDiskProofs ---------------------------
(***************************************************************************)
(* Proofs about AtaDisk, for every geometry of the disk, every width of    *)
(* the drive's registers that can hold its addresses, and every data: the  *)
(* driver and the drive stay in step, and the driver implements            *)
(* BlockStore.                                                             *)
(***************************************************************************)
EXTENDS AtaDisk, SequenceTheorems, TLAPS

-----------------------------------------------------------------------------
(* Division.                                                               *)

\* What division by a natural number gives.
LEMMA DivMod ==
    ASSUME NEW a \in Nat, NEW b \in Nat \ {0}
    PROVE  /\ a \div b \in Nat /\ a % b \in 0 .. b - 1
           /\ a = b * (a \div b) + (a % b)
  OBVIOUS

\* The next multiple is a whole divisor away.
LEMMA NextMultiple ==
    ASSUME NEW b \in Nat \ {0}, NEW p \in Int, NEW q \in Int, p < q
    PROVE  b * p + b =< b * q
  OBVIOUS

\* A quotient and a remainder are the ones.
LEMMA DivUnique ==
    ASSUME NEW a \in Nat, NEW b \in Nat \ {0},
           NEW q \in Nat, NEW r \in 0 .. b - 1, a = b * q + r
    PROVE  a \div b = q /\ a % b = r
<1> DEFINE p == a \div b
<1>1. /\ p \in Nat /\ a % b \in 0 .. b - 1
      /\ a = b * p + (a % b)
  BY DivMod
<1> HIDE DEF p
<1>2. ~ p < q
  BY <1>1, NextMultiple
<1>3. ~ q < p
  BY <1>1, NextMultiple
<1>4. p = q
  BY <1>1, <1>2, <1>3
<1>5. QED
  BY <1>1, <1>4 DEF p

\* Dividing twice is dividing by the product.
LEMMA DivDiv ==
    ASSUME NEW a \in Nat, NEW b \in Nat \ {0}, NEW c \in Nat \ {0}
    PROVE  a \div (b * c) = (a \div b) \div c
<1> DEFINE q == a \div b
           r == a % b
           p == q \div c
           s == q % c
<1>1. q \in Nat /\ r \in 0 .. b - 1 /\ a = b * q + r
  BY DivMod
<1>2. p \in Nat /\ s \in 0 .. c - 1 /\ q = c * p + s
  BY <1>1, DivMod
<1> HIDE DEF q, r, p, s
<1>3. a = (b * c) * p + (b * s + r)
  BY <1>1, <1>2
<1>4. b * s + r \in 0 .. b * c - 1
  <2>1. b * s + b =< b * c
    BY <1>2, NextMultiple
  <2>2. b * s \in Nat /\ b * c \in Nat
    BY <1>2
  <2>3. QED
    BY <1>1, <2>1, <2>2
<1>5. b * c \in Nat \ {0}
  OBVIOUS
<1>6. a \div (b * c) = p
  BY <1>2, <1>3, <1>4, <1>5, DivUnique
<1>7. QED
  BY <1>6 DEF p, q

-----------------------------------------------------------------------------
(* The calls.                                                              *)

\* The drive puts the address together that the driver has split up, as long
\* as the four registers can hold it.
LEMMA RegistersHoldTheAddress ==
    ASSUME NEW c, c.lba \in Nat, c.lba < NumBlocks
    PROVE  AddressIn(Registers(c)) = c.lba
<1> DEFINE L == c.lba
           q1 == L \div Byte
           q2 == q1 \div Byte
           q3 == q2 \div Byte
<1>1. Byte \in Nat \ {0} /\ Nibble \in Nat \ {0} /\ L \in Nat
      /\ L < Nibble * Byte * Byte * Byte
  BY DiskAssumption
<1>2. q1 \in Nat /\ L % Byte \in 0 .. Byte - 1 /\ L = Byte * q1 + (L % Byte)
  BY <1>1, DivMod
<1>3. q2 \in Nat /\ q1 % Byte \in 0 .. Byte - 1 /\ q1 = Byte * q2 + (q1 % Byte)
  BY <1>1, <1>2, DivMod
<1>4. q3 \in Nat /\ q2 % Byte \in 0 .. Byte - 1 /\ q2 = Byte * q3 + (q2 % Byte)
  BY <1>1, <1>3, DivMod
<1>5. L \div (Byte * Byte) = q2
  BY <1>1, DivDiv
<1>6. L \div (Byte * Byte * Byte) = q3
  <2>1. Byte * Byte \in Nat \ {0}
    BY <1>1
  <2>2. L \div ((Byte * Byte) * Byte) = (L \div (Byte * Byte)) \div Byte
    BY <1>1, <2>1, DivDiv
  <2>3. QED
    BY <2>2, <1>5
<1> HIDE DEF q1, q2, q3, L
<1>7. q3 \in 0 .. Nibble - 1
  <2> DEFINE cube == Byte * Byte * Byte
  <2>1. cube \in Nat \ {0} /\ L \div cube = q3
    BY <1>1, <1>6
  <2>2. Nibble * Byte * Byte * Byte = cube * Nibble
    BY <1>1
  <2> HIDE DEF cube
  <2>3. cube * q3 =< L
    <3>1. L % cube \in 0 .. cube - 1 /\ L = cube * q3 + (L % cube)
      BY <1>1, <2>1, DivMod
    <3>2. cube * q3 \in Int
      BY <1>4, <2>1
    <3>3. QED
      BY <2>1, <3>1, <3>2
  <2>4. ~ Nibble =< q3
    <3>1. SUFFICES ASSUME Nibble =< q3 PROVE cube * Nibble =< cube * q3
      BY <1>1, <1>4, <2>1, <2>2, <2>3
    <3>2. QED
      BY <1>1, <1>4, <2>1, <3>1, NextMultiple
  <2>5. QED
    BY <1>1, <1>4, <2>4
<1>8. q3 % Nibble = q3
  BY <1>1, <1>7, DivUnique
<1>9. (HeadBits * Nibble + (q3 % Nibble)) % Nibble = q3
  <2> DEFINE h == HeadBits * Nibble + q3
  <2>1. h \in Nat /\ h = Nibble * 14 + q3
    BY <1>1, <1>7 DEF HeadBits
  <2> HIDE DEF h
  <2>2. h % Nibble = q3
    BY <1>1, <1>7, <2>1, DivUnique
  <2>3. QED
    BY <1>8, <2>2 DEF h
<1>10. AddressIn(Registers(c))
         = ((q3 * Byte + (q2 % Byte)) * Byte + (q1 % Byte)) * Byte + (L % Byte)
  BY <1>5, <1>6, <1>9 DEF AddressIn, Registers, q1, L
<1>11. q3 * Byte + (q2 % Byte) = q2
  BY <1>1, <1>4
<1>12. q2 * Byte + (q1 % Byte) = q1
  BY <1>1, <1>3
<1>13. q1 * Byte + (L % Byte) = L
  BY <1>1, <1>2
<1>14. QED
  BY <1>10, <1>11, <1>12, <1>13 DEF L

\* What every caller of the driver asks for lies on the disk.
LEMMA CallShape ==
    ASSUME NEW c \in Calls
    PROVE  /\ c.op \in {"read", "write"}
           /\ c.lba \in Nat /\ c.count \in Nat \ {0}
           /\ c.lba + c.count =< NumBlocks
           /\ c.op = "write" => c.data \in Data /\ c.count = ClusterBlocks
<1>1. CASE c = ReadBlocks(0, 1)
  BY <1>1, DiskAssumption DEF ReadBlocks
<1>2. ASSUME NEW k \in UsedClusters
      PROVE  /\ ClusterToLba(k) \in Nat
             /\ ClusterToLba(k) + ClusterBlocks =< NumBlocks
  BY DiskAssumption DEF ClusterToLba
<1>3. ASSUME NEW k \in UsedClusters,
             c = ReadBlocks(ClusterToLba(k), ClusterBlocks)
      PROVE  c.op = "read" /\ c.lba = ClusterToLba(k) /\ c.count = ClusterBlocks
  BY <1>3 DEF ReadBlocks
<1>4. ASSUME NEW k \in UsedClusters, NEW d \in Data,
             c = WriteBlocks(d, ClusterToLba(k), ClusterBlocks)
      PROVE  /\ c.op = "write" /\ c.lba = ClusterToLba(k)
             /\ c.count = ClusterBlocks /\ c.data \in Data
  BY <1>4 DEF WriteBlocks
<1>5. QED
  BY <1>1, <1>2, <1>3, <1>4, DiskAssumption DEF Calls

-----------------------------------------------------------------------------
(* The inductive invariant: where driver and drive are, and what words are *)
(* on their way between them.                                              *)

\* The drive is at the block that the driver is at.
AtSameBlock == at = call.lba + i /\ left = call.count - i

\* The drive still has to store the block before that.
OneBehind ==
    /\ call.op = "write" /\ i > 0 /\ Len(sector) = Words
    /\ at = call.lba + i - 1 /\ left = call.count - i + 1
    /\ pc = "idle" => i = call.count

Position ==
    /\ pc # "move" => j = 0
    /\ status = "ready" => pc = "idle"
    /\ status = "busy" =>
            /\ pc # "move"
            /\ (sector = << >> /\ pc = "wait" /\ AtSameBlock) \/ OneBehind
    /\ status = "data" =>
            /\ pc # "idle" /\ AtSameBlock
            /\ Len(sector) = IF call.op = "read" THEN Words - j ELSE j

\* The words in the drive's buffer and the last ones in the reader's are those
\* of the block.
Content ==
    /\ call.op = "read" /\ status = "data" =>
            /\ \A n \in 1 .. j : buf[Words * i + n] = media[at][n]
            /\ \A n \in 1 .. Words - j : sector[n] = media[at][j + n]
    /\ call.op = "write" /\ status # "error" =>
            \A n \in 1 .. Len(sector) :
                sector[n] = Word(call.data, Words * (at - call.lba) + n - 1)

IInv == TypeOK /\ Position /\ Content

-----------------------------------------------------------------------------
(* Each step keeps it.                                                     *)

\* The start.
LEMMA InitialState == Init => IInv
<1> SUFFICES ASSUME Init PROVE IInv
  OBVIOUS
<1> USE DiskAssumption DEF Init
<1>1. call \in Calls /\ call.op = "read" /\ call.count = 1
  BY DEF Calls, ReadBlocks
<1>2. FreshBlock \in [1 .. Words -> AllWords]
  BY DEF FreshBlock, AllWords
<1>3. TypeOK
  BY <1>1, <1>2, EmptySeq DEF TypeOK, Blocks
<1>4. Position /\ Content
  BY <1>1 DEF Position, Content
<1>5. QED
  BY <1>3, <1>4 DEF IInv

\* A command puts the drive at the first block of the call.
LEMMA IssueCommandStep ==
    ASSUME IInv, NEW c \in Calls, IssueCommand(c)
    PROVE  IInv'
<1> USE DiskAssumption DEF IInv, IssueCommand
<1>1. /\ c.lba \in Nat /\ c.count \in Nat \ {0} /\ c.lba + c.count =< NumBlocks
      /\ c.op \in {"read", "write"}
  BY CallShape
<1>2. at' = c.lba
  BY <1>1, RegistersHoldTheAddress
<1>3. TypeOK'
  BY <1>1, <1>2, EmptySeq DEF TypeOK
<1>4. Position'
  BY <1>1, <1>2 DEF Position, AtSameBlock
<1>5. Content'
  BY <1>1, <1>2 DEF Content
<1>6. QED
  BY <1>3, <1>4, <1>5

\* The wait ends with the drive asking for the next block, or in error.
LEMMA WaitForBlockStep ==
    ASSUME IInv, WaitForBlock
    PROVE  IInv'
<1> USE DEF IInv, WaitForBlock, drive
<1>1. TypeOK'
  BY DEF TypeOK
<1>2. Position'
  BY DEF TypeOK, Position, AtSameBlock, OneBehind, AtaBusyWaitEnds
<1>3. Content'
  BY DEF Content
<1>4. QED
  BY <1>1, <1>2, <1>3

\* What the two loops do to the counters.
LEMMA NextWordResult ==
    ASSUME TypeOK, pc = "move", NextWord, UNCHANGED call
    PROVE  /\ i \in Nat /\ j \in Nat /\ j < Words /\ i < call.count
           /\ call.count \in Nat \ {0}
           /\ \/ j + 1 < Words /\ j' = j + 1 /\ i' = i /\ pc' = "move"
              \/ /\ j + 1 = Words /\ j' = 0 /\ i' = i + 1
                 /\ pc' = IF i + 1 = call.count THEN "idle" ELSE "wait"
           /\ i' \in 0 .. call.count /\ j' \in 0 .. Words - 1
           /\ pc' # "idle" => i' < call.count
           /\ Words * i' + j' = Words * i + j + 1
<1>1. call.count \in Nat \ {0} /\ Words \in Nat \ {0}
  BY CallShape, DiskAssumption DEF TypeOK
<1>2. i \in Nat /\ j \in Nat /\ j < Words /\ i < call.count
  BY <1>1 DEF TypeOK
<1>3. \/ j + 1 < Words /\ j' = j + 1 /\ i' = i /\ pc' = "move"
      \/ /\ j + 1 = Words /\ j' = 0 /\ i' = i + 1
         /\ pc' = IF i + 1 = call.count THEN "idle" ELSE "wait"
  BY <1>1, <1>2 DEF NextWord
<1>4. Words * (i + 1) = Words * i + Words
  BY <1>1, <1>2
<1>5. Words * i' + j' = Words * i + j + 1
  <2>1. CASE j' = j + 1 /\ i' = i
    <3>1. Words * i \in Int
      BY <1>1, <1>2
    <3>2. QED
      BY <1>2, <2>1, <3>1
  <2>2. CASE j' = 0 /\ i' = i + 1 /\ j + 1 = Words
    <3>1. Words * i \in Int
      BY <1>1, <1>2
    <3>2. Words * i' = Words * i + Words
      BY <1>4, <2>2
    <3>3. QED
      BY <1>1, <1>2, <2>2, <3>1, <3>2
  <2>3. QED
    BY <1>3, <2>1, <2>2
<1>6. QED
  BY <1>1, <1>2, <1>3, <1>5

\* A word fetched; after the last one of a block both are at the next.
LEMMA ReadWordStep ==
    ASSUME IInv, ReadWord
    PROVE  IInv'
<1> USE DEF IInv, ReadWord
<1>1. UNCHANGED call /\ call \in Calls /\ call.op = "read"
  BY DEF TypeOK
<1>2. /\ call.lba \in Nat /\ call.lba + call.count =< NumBlocks
      /\ NumBlocks \in Nat /\ Words \in Nat \ {0}
  BY <1>1, CallShape, DiskAssumption
<1> DEFINE w == IF status = "data" THEN Head(sector) ELSE Junk
<1>3. buf' = Append(buf, w)
  OBVIOUS
<1>4. /\ sector \in Seq(AllWords) /\ Len(sector) \in Nat
      /\ buf \in Seq(AllWords) /\ Len(buf) \in Nat /\ Junk \in AllWords
  BY LenProperties DEF TypeOK, AllWords
<1>5. CASE status = "data"
  <2>1. /\ AtSameBlock /\ Len(sector) = Words - j
    BY <1>1, <1>5 DEF Position
  <2>0. at = call.lba + i /\ left = call.count - i
    BY <2>1 DEF AtSameBlock
  <2>2. sector # << >>
    BY <2>1, <1>2, <1>4, EmptySeq DEF TypeOK
  <2>3. /\ Head(sector) \in AllWords /\ Tail(sector) \in Seq(AllWords)
        /\ Len(Tail(sector)) = Len(sector) - 1
        /\ \A n \in 1 .. Len(sector) - 1 : Tail(sector)[n] = sector[n + 1]
    BY <1>4, <2>2, HeadTailProperties
  <2>4. /\ buf' \in Seq(AllWords) /\ Len(buf') = Len(buf) + 1
        /\ \A n \in 1 .. Len(buf) : buf'[n] = buf[n]
        /\ buf'[Len(buf) + 1] = sector[1]
    BY <1>3, <1>4, <1>5, <2>2, <2>3, AppendProperties
  <2>5. sector' = Tail(sector)
    BY <1>5
  <2>6. CASE j + 1 < Words
    <3>1. /\ Len(sector) > 1 /\ UNCHANGED <<status, at, left>>
          /\ j' = j + 1 /\ i' = i /\ pc' = "move"
      BY <1>1, <1>2, <1>5, <2>1, <2>6, NextWordResult DEF TypeOK
    <3>2. TypeOK'
      <4>1. Len(sector') =< Words
        BY <1>2, <2>1, <2>3, <2>5 DEF TypeOK
      <4>2. /\ i' \in 0 .. call'.count /\ j' \in 0 .. Words - 1
            /\ pc' # "idle" => i' < call'.count
            /\ Words * i' + j' = Words * i + j + 1
        BY <1>1, NextWordResult
      <4>3. Len(buf') = Words * i' + j'
        BY <1>1, <2>4, <4>2 DEF TypeOK
      <4>4. QED
        BY <1>1, <2>3, <2>4, <2>5, <3>1, <4>1, <4>2, <4>3 DEF TypeOK
    <3>3. Position'
      BY <1>1, <1>2, <1>5, <2>1, <2>3, <2>5, <3>1 DEF TypeOK, Position, AtSameBlock
    <3>4. Content'
      <4> DEFINE k == Words * i
      <4>1. k \in Nat /\ Len(buf) = k + j /\ j \in Nat /\ j + 1 < Words
        BY <1>1, <1>2, <2>6, NextWordResult DEF TypeOK
      <4> HIDE DEF k
      <4>2. /\ \A n \in 1 .. j : buf[k + n] = media[at][n]
            /\ \A n \in 1 .. Words - j : sector[n] = media[at][j + n]
        BY <1>1, <1>5 DEF Content, k
      <4>3. ASSUME NEW n \in 1 .. j + 1 PROVE buf'[k + n] = media[at][n]
        <5>1. CASE n = j + 1
          BY <1>2, <2>4, <4>1, <4>2, <5>1
        <5>2. CASE n \in 1 .. j
          <6>1. k + n \in 1 .. Len(buf) /\ n \in 1 .. j
            BY ONLY <4>1, <5>2
          <6>2. QED
            BY ONLY <2>4, <4>2, <6>1
        <5>3. QED
          BY <4>1, <5>1, <5>2
      <4>4. ASSUME NEW n \in 1 .. Words - (j + 1)
            PROVE  Tail(sector)[n] = media[at][(j + 1) + n]
        <5>1. n \in 1 .. Len(sector) - 1 /\ n + 1 \in 1 .. Words - j
          BY <1>2, <2>1, <4>1
        <5>2. sector[n + 1] = media[at][j + (n + 1)]
          BY <4>2, <5>1
        <5>3. j + (n + 1) = (j + 1) + n
          BY <4>1
        <5>4. QED
          BY <2>3, <5>1, <5>2, <5>3
      <4>5. QED
        BY <1>1, <2>5, <3>1, <4>3, <4>4 DEF Content, k
    <3>5. QED
      BY <3>2, <3>3, <3>4
  <2>7. CASE j + 1 = Words
    <3>0. i \in Nat /\ i < call.count /\ call.count \in Nat
      BY <1>1, NextWordResult
    <3>1. Len(sector) = 1
      BY <1>2, <2>1, <2>7 DEF TypeOK
    <3>2. /\ status' = IF left = 1 THEN "ready" ELSE "busy"
          /\ at' = at + 1 /\ left' = left - 1
          /\ j' = 0 /\ i' = i + 1
          /\ pc' = IF i + 1 = call.count THEN "idle" ELSE "wait"
      BY <1>1, <1>5, <2>7, <3>1, NextWordResult
    <3>3. left = 1 <=> i + 1 = call.count
      BY <1>1, <2>1, NextWordResult DEF AtSameBlock
    <3>4. sector' = << >>
      BY <2>3, <2>5, <3>1, EmptySeq
    <3>5. TypeOK'
      <4>1. at' \in 0 .. NumBlocks /\ left' \in Nat
        BY ONLY <1>2, <2>0, <3>0, <3>2
      <4>2. sector' \in Seq(AllWords) /\ Len(sector') =< Words
        BY <1>2, <3>4, EmptySeq
      <4>3. /\ pc' \in {"idle", "wait", "move"}
            /\ status' \in {"busy", "data", "ready", "error"}
        BY <3>2
      <4>4. /\ i' \in 0 .. call'.count /\ j' \in 0 .. Words - 1
            /\ pc' # "idle" => i' < call'.count
            /\ Words * i' + j' = Words * i + j + 1
        BY <1>1, NextWordResult
      <4>5. Len(buf') = Words * i' + j'
        BY <1>1, <2>4, <4>4 DEF TypeOK
      <4>6. QED
        BY <1>1, <2>4, <4>1, <4>2, <4>3, <4>4, <4>5 DEF TypeOK
    <3>6. Position'
      <4>1. AtSameBlock'
        BY ONLY <1>1, <1>2, <2>0, <3>0, <3>2 DEF AtSameBlock
      <4>2. QED
        BY <1>1, <3>2, <3>3, <3>4, <4>1 DEF Position
    <3>7. Content'
      BY <1>1, <3>2, <3>3 DEF Content
    <3>8. QED
      BY <3>5, <3>6, <3>7
  <2>8. QED
    BY <1>1, <2>6, <2>7, NextWordResult
<1>6. CASE status # "data"
  <2>1. UNCHANGED <<status, at, left, sector>>
    BY <1>6 DEF drive
  <2>2. status = "error"
    BY <1>6 DEF TypeOK, Position
  <2>3. buf' \in Seq(AllWords) /\ Len(buf') = Len(buf) + 1
    BY <1>3, <1>4, <1>6, AppendProperties
  <2>4. TypeOK'
    BY <1>1, <1>2, <1>4, <2>1, <2>2, <2>3, NextWordResult DEF TypeOK
  <2>5. Position'
    BY <1>1, <2>1, <2>2, NextWordResult DEF Position
  <2>6. Content'
    BY <1>1, <2>1, <2>2 DEF Content
  <2>7. QED
    BY <2>4, <2>5, <2>6
<1>7. QED
  BY <1>5, <1>6

\* The words of a call's data, by their place in it.
LEMMA WordIsWord ==
    ASSUME TypeOK, call.op = "write", NEW k \in Nat, k < call.count,
           NEW n \in 0 .. Words - 1
    PROVE  Word(call.data, Words * k + n) \in AllWords
<1>1. /\ call.data \in Data /\ call.count = ClusterBlocks
      /\ ClusterBlocks \in Nat /\ Words \in Nat \ {0}
  BY CallShape, DiskAssumption DEF TypeOK
<1>2. Words * k + Words =< Words * ClusterBlocks
  BY <1>1, NextMultiple
<1>3. Words * k \in Nat /\ Words * ClusterBlocks \in Nat
  BY <1>1
<1>4. Words * k + n \in 0 .. Words * ClusterBlocks - 1
  BY <1>1, <1>2, <1>3
<1>5. QED
  BY <1>1, <1>4 DEF AllWords

\* A word handed over; after the last one of a block the drive is one behind.
LEMMA WriteWordStep ==
    ASSUME IInv, WriteWord
    PROVE  IInv'
<1> USE DEF IInv, WriteWord
<1>1. UNCHANGED <<call, media, buf, at, left>> /\ call \in Calls /\ call.op = "write"
  BY DEF TypeOK
<1>2. /\ call.lba \in Nat /\ call.lba + call.count =< NumBlocks
      /\ NumBlocks \in Nat /\ Words \in Nat \ {0} /\ call.count \in Nat
  BY <1>1, CallShape, DiskAssumption
<1>3. /\ i \in Nat /\ j \in Nat /\ j < Words /\ i < call.count
      /\ \/ j + 1 < Words /\ j' = j + 1 /\ i' = i /\ pc' = "move"
         \/ /\ j + 1 = Words /\ j' = 0 /\ i' = i + 1
            /\ pc' = IF i + 1 = call.count THEN "idle" ELSE "wait"
      /\ i' \in 0 .. call.count /\ j' \in 0 .. Words - 1
      /\ pc' # "idle" => i' < call.count
  BY <1>1, NextWordResult
<1>4. CASE status = "data"
  <2> DEFINE w == Word(call.data, Words * i + j)
  <2>1. at = call.lba + i /\ left = call.count - i /\ Len(sector) = j
    BY <1>1, <1>4 DEF Position, AtSameBlock
  <2>2. w \in AllWords
    <3>1. TypeOK /\ j \in 0 .. Words - 1
      BY <1>2, <1>3
    <3>2. QED
      BY ONLY <1>1, <1>3, <3>1, WordIsWord
  <2>3. sector \in Seq(AllWords) /\ sector' = Append(sector, w)
    BY <1>4 DEF TypeOK
  <2>4. /\ sector' \in Seq(AllWords) /\ Len(sector') = j + 1
        /\ \A n \in 1 .. j : sector'[n] = sector[n]
        /\ sector'[j + 1] = w
    BY <2>1, <2>2, <2>3, AppendProperties
  <2>5. status' = IF j + 1 = Words THEN "busy" ELSE "data"
    BY <1>4, <2>4
  <2>6. TypeOK'
    <3>1. /\ at \in 0 .. NumBlocks /\ left \in Nat /\ buf \in Seq(AllWords)
          /\ media \in [Blocks -> [1 .. Words -> AllWords]]
      BY DEF TypeOK
    <3>2. pc' \in {"idle", "wait", "move"} /\ status' \in {"busy", "data"}
      BY <1>3, <2>5
    <3>3. Len(sector') =< Words
      BY <1>2, <1>3, <2>4
    <3>4. QED
      BY ONLY <1>1, <1>3, <2>4, <3>1, <3>2, <3>3 DEF TypeOK
  <2>7. Position'
    <3>1. CASE j + 1 < Words
      BY ONLY <1>1, <1>2, <1>3, <2>1, <2>4, <2>5, <3>1 DEF Position, AtSameBlock
    <3>2. CASE j + 1 = Words
      <4>1. /\ j' = 0 /\ i' = i + 1 /\ status' = "busy" /\ Len(sector') = Words
            /\ pc' = IF i' = call.count THEN "idle" ELSE "wait"
        BY ONLY <1>2, <1>3, <2>4, <2>5, <3>2
      <4>2. at' = call.lba + i' - 1 /\ left' = call.count - i' + 1 /\ i' > 0
        BY ONLY <1>1, <1>2, <1>3, <2>1, <4>1
      <4>3. OneBehind'
        BY ONLY <1>1, <4>1, <4>2 DEF OneBehind
      <4>4. QED
        BY ONLY <4>1, <4>3 DEF Position
    <3>3. QED
      BY <1>3, <3>1, <3>2
  <2>8. Content'
    <3> DEFINE k == Words * i
    <3>1. k \in Int
      BY <1>2, <1>3
    <3>2. at - call.lba = i
      BY <1>2, <1>3, <2>1
    <3>3. \A n \in 1 .. j : sector[n] = Word(call.data, k + n - 1)
      BY <1>1, <1>4, <2>1, <3>2 DEF Content
    <3> HIDE DEF k
    <3>4. w = Word(call.data, k + (j + 1) - 1)
      BY <1>3, <3>1 DEF k
    <3>5. \A n \in 1 .. j + 1 : sector'[n] = Word(call.data, k + n - 1)
      <4>1. ASSUME NEW n \in 1 .. j + 1, n # j + 1 PROVE n \in 1 .. j
        BY ONLY <1>3, <4>1
      <4>2. QED
        BY ONLY <2>4, <3>3, <3>4, <4>1
    <3>6. QED
      BY <1>1, <2>4, <3>2, <3>5 DEF Content, k
  <2>9. QED
    BY <2>6, <2>7, <2>8
<1>5. CASE status # "data"
  <2>1. UNCHANGED <<sector, status>>
    BY <1>5
  <2>2. status = "error"
    BY <1>5 DEF TypeOK, Position
  <2>3. TypeOK'
    BY <1>1, <1>3, <2>1 DEF TypeOK
  <2>4. Position'
    BY <1>3, <2>1, <2>2 DEF Position
  <2>5. Content'
    BY <1>1, <2>1, <2>2 DEF Content
  <2>6. QED
    BY <2>3, <2>4, <2>5
<1>6. QED
  BY <1>4, <1>5

\* The drive is at a block of the disk when it fetches or stores one.
LEMMA AtABlock ==
    ASSUME IInv, status = "busy"
    PROVE  /\ at \in Blocks /\ left \in Nat \ {0}
           /\ sector # << >> => OneBehind
           /\ sector = << >> => pc = "wait" /\ j = 0 /\ AtSameBlock
           /\ call.op = "read" => sector = << >>
           /\ call.op # "read" => call.op = "write"
           /\ call.lba \in Nat /\ call.count \in Nat /\ i \in Nat
           /\ Words \in Nat \ {0}
<1>1. /\ call.lba \in Nat /\ call.lba + call.count =< NumBlocks
      /\ NumBlocks \in Nat /\ Words \in Nat \ {0} /\ call.count \in Nat
      /\ call.op \in {"read", "write"}
  BY CallShape, DiskAssumption DEF IInv, TypeOK
<1>2. i \in Nat /\ i =< call.count /\ (pc # "idle" => i < call.count)
  BY <1>1 DEF IInv, TypeOK
<1>3. (sector = << >> /\ pc = "wait" /\ j = 0 /\ AtSameBlock) \/ OneBehind
  BY DEF IInv, Position
<1>4. OneBehind => sector # << >> /\ call.op = "write"
  BY <1>1, EmptySeq DEF OneBehind
<1>5. at \in Blocks /\ left \in Nat \ {0}
  <2>1. CASE AtSameBlock /\ pc = "wait"
    <3>1. at = call.lba + i /\ left = call.count - i
      BY ONLY <2>1 DEF AtSameBlock
    <3>2. QED
      BY ONLY <1>1, <1>2, <2>1, <3>1 DEF Blocks
  <2>2. CASE OneBehind
    <3>1. i > 0 /\ at = call.lba + i - 1 /\ left = call.count - i + 1
      BY ONLY <2>2 DEF OneBehind
    <3>2. QED
      BY ONLY <1>1, <1>2, <3>1 DEF Blocks
  <2>3. QED
    BY <1>3, <2>1, <2>2
<1>6. QED
  BY <1>1, <1>2, <1>3, <1>4, <1>5

\* The drive has the driver's block in its buffer.
LEMMA FetchStep ==
    ASSUME IInv, Fetch
    PROVE  IInv'
<1> USE DEF IInv, Fetch, driver
<1>1. /\ pc = "wait" /\ j = 0 /\ AtSameBlock /\ at \in Blocks
      /\ Words \in Nat \ {0}
  BY AtABlock
<1>2. media[at] \in [1 .. Words -> AllWords]
  BY <1>1 DEF TypeOK
<1>3. sector' \in Seq(AllWords) /\ Len(sector') = Words
  BY <1>1, <1>2
<1>4. TypeOK'
  BY <1>1, <1>3 DEF TypeOK
<1>5. Position'
  BY <1>1, <1>3 DEF Position, AtSameBlock
<1>6. Content'
  BY <1>1 DEF Content
<1>7. QED
  BY <1>4, <1>5, <1>6

\* The drive asks for the driver's block.
LEMMA AcceptStep ==
    ASSUME IInv, Accept
    PROVE  IInv'
<1> USE DEF IInv, Accept, driver
<1>1. pc = "wait" /\ j = 0 /\ AtSameBlock
  BY AtABlock
<1>2. TypeOK'
  BY DEF TypeOK
<1>3. Position'
  BY <1>1, EmptySeq DEF Position, AtSameBlock
<1>4. Content'
  BY DEF Content
<1>5. QED
  BY <1>2, <1>3, <1>4

\* The drive catches up.
LEMMA StoreStep ==
    ASSUME IInv, Store
    PROVE  IInv'
<1> USE DEF IInv, Store, driver
<1>1. /\ OneBehind /\ at \in Blocks /\ left \in Nat \ {0}
      /\ call.lba \in Nat /\ call.count \in Nat /\ i \in Nat
      /\ Words \in Nat \ {0}
  BY AtABlock
<1>2. sector \in [1 .. Words -> AllWords]
  BY <1>1, LenProperties DEF TypeOK, OneBehind
<1>3. media' \in [Blocks -> [1 .. Words -> AllWords]]
  BY <1>1, <1>2 DEF TypeOK
<1>4. sector' \in Seq(AllWords) /\ Len(sector') = 0
  BY EmptySeq
<1>5. at' \in 0 .. NumBlocks /\ left' \in Nat
  BY <1>1, DiskAssumption DEF Blocks
<1>6. TypeOK'
  BY <1>1, <1>3, <1>4, <1>5 DEF TypeOK
<1>7. AtSameBlock' /\ (left = 1 <=> i = call.count)
  <2>1. at = call.lba + i - 1 /\ left = call.count - i + 1
    BY <1>1 DEF OneBehind
  <2>2. at' = at + 1 /\ left' = left - 1 /\ UNCHANGED <<call, i>>
    OBVIOUS
  <2>3. at + 1 = call.lba + i /\ left - 1 = call.count - i
    BY ONLY <1>1, <2>1
  <2>4. left = 1 <=> i = call.count
    BY ONLY <1>1, <2>1
  <2>5. QED
    BY ONLY <2>2, <2>3, <2>4, Zenon DEF AtSameBlock
<1>8. pc # "move" /\ j = 0
  BY DEF Position
<1>9. pc = "idle" <=> i = call.count
  <2>1. i \in 0 .. call.count /\ (pc # "idle" => i < call.count)
    BY DEF TypeOK
  <2>2. pc = "idle" => i = call.count
    BY <1>1 DEF OneBehind
  <2>3. ~ call.count < call.count
    BY ONLY <1>1
  <2>4. QED
    BY ONLY <2>1, <2>2, <2>3
<1>10. Position'
  BY <1>1, <1>4, <1>7, <1>8, <1>9 DEF Position
<1>11. Content'
  BY <1>4 DEF Content
<1>12. QED
  BY <1>6, <1>10, <1>11

\* After an error nothing is said of the rest of the call.
LEMMA FailStep ==
    ASSUME IInv, Fail
    PROVE  IInv'
<1> USE DEF IInv, Fail, driver
<1>1. TypeOK'
  BY EmptySeq, DiskAssumption DEF TypeOK
<1>2. Position' /\ Content'
  BY DEF Position, Content
<1>3. QED
  BY <1>1, <1>2

\* Nothing is on its way when the power is back.
LEMMA PowerFailsStep ==
    ASSUME IInv, PowerFails
    PROVE  IInv'
<1> USE DEF IInv, PowerFails
<1>1. call.count \in Nat \ {0} /\ Words \in Nat \ {0}
  BY CallShape, DiskAssumption DEF TypeOK
<1>2. TypeOK'
  BY <1>1, EmptySeq DEF TypeOK
<1>3. Position' /\ Content'
  BY EmptySeq DEF Position, Content
<1>4. QED
  BY <1>2, <1>3

\* Every step keeps the invariant.
LEMMA NextStep == IInv /\ [Next]_vars => IInv'
<1> SUFFICES ASSUME IInv, [Next]_vars PROVE IInv'
  OBVIOUS
<1>1. ASSUME NEW c \in Calls, IssueCommand(c) PROVE IInv'
  BY <1>1, IssueCommandStep
<1>2. CASE WaitForBlock
  BY <1>2, WaitForBlockStep
<1>3. CASE ReadWord
  BY <1>3, ReadWordStep
<1>4. CASE WriteWord
  BY <1>4, WriteWordStep
<1>5. CASE Fetch
  BY <1>5, FetchStep
<1>6. CASE Accept
  BY <1>6, AcceptStep
<1>7. CASE Store
  BY <1>7, StoreStep
<1>8. CASE Fail
  BY <1>8, FailStep
<1>9. CASE PowerFails
  BY <1>9, PowerFailsStep
<1>10. CASE UNCHANGED vars
  BY <1>10 DEF vars, driver, drive, IInv, TypeOK, Position, Content,
               AtSameBlock, OneBehind
<1>11. QED
  BY <1>1, <1>2, <1>3, <1>4, <1>5, <1>6, <1>7, <1>8, <1>9, <1>10
  DEF Next, DriverStep, DriveStep

\* The strengthened invariant holds in every reachable state.
THEOREM InductiveInvariant == Spec => []IInv
<1>1. Init => IInv
  BY InitialState
<1>2. IInv /\ [Next]_vars => IInv'
  BY NextStep
<1>3. QED
  BY <1>1, <1>2, PTL DEF Spec

\* The counters stay in the call and the drive on the disk.
THEOREM TypeCorrect == Spec => []TypeOK
<1>1. IInv => TypeOK
  BY DEF IInv
<1>2. QED
  BY <1>1, InductiveInvariant, PTL

\* The driver moves the word that the drive asks for, whatever their speeds,
\* although it never looks at the data request bit.
THEOREM DriverAndDriveInStep == Spec => []InStep
<1>1. IInv => InStep
  BY DEF IInv, TypeOK, Position, AtSameBlock, InStep
<1>2. QED
  BY <1>1, InductiveInvariant, PTL

-----------------------------------------------------------------------------
(* Blocks and their words.                                                 *)

BlockContents == [1 .. Words -> AllWords]

\* A block of a sequence of words.
LEMMA SubSeqOfBlock ==
    ASSUME NEW words \in Seq(AllWords), NEW b \in Nat \ {0}, Words * b =< Len(words)
    PROVE  /\ SubSeq(words, (b - 1) * Words + 1, b * Words)
                = [n \in 1 .. Words |-> words[Words * (b - 1) + n]]
           /\ SubSeq(words, (b - 1) * Words + 1, b * Words) \in BlockContents
<1> DEFINE k == Words * (b - 1)
<1>1. /\ Words \in Nat \ {0} /\ k \in Nat
      /\ (b - 1) * Words = k /\ b * Words = k + Words /\ Words * b = k + Words
  BY DiskAssumption
<1> HIDE DEF k
<1>2. \A n \in 1 .. Words : words[k + n] \in AllWords
  BY <1>1, LenProperties, ElementOfSeq
<1>3. SubSeq(words, k + 1, k + Words) = [n \in 1 .. Words |-> words[k + n]]
  BY <1>1
<1>4. QED
  BY <1>1, <1>2, <1>3 DEF BlockContents, k

\* A sequence of words has the blocks that are complete.
LEMMA BlocksOfWords ==
    ASSUME NEW words \in Seq(AllWords), NEW b \in Nat, NEW r \in 0 .. Words - 1,
           Len(words) = Words * b + r
    PROVE  /\ InBlocks(words)
                = [k \in 1 .. b |-> [n \in 1 .. Words |-> words[Words * (k - 1) + n]]]
           /\ InBlocks(words) \in Seq(BlockContents) /\ Len(InBlocks(words)) = b
<1>1. Words \in Nat \ {0} /\ Len(words) \in Nat /\ Words * b \in Nat
  BY DiskAssumption, LenProperties
<1>2. Len(words) \div Words = b
  BY <1>1, DivUnique
<1>3. ASSUME NEW k \in 1 .. b
      PROVE  /\ SubSeq(words, (k - 1) * Words + 1, k * Words)
                    = [n \in 1 .. Words |-> words[Words * (k - 1) + n]]
             /\ SubSeq(words, (k - 1) * Words + 1, k * Words) \in BlockContents
  <2>1. Words * k =< Words * b
    BY <1>1, NextMultiple
  <2>2. Words * k \in Nat /\ k \in Nat \ {0}
    BY <1>1
  <2>3. Words * k =< Len(words)
    BY <1>1, <2>1, <2>2
  <2>4. QED
    BY <2>2, <2>3, SubSeqOfBlock
<1>4. InBlocks(words) \in [1 .. b -> BlockContents]
  BY <1>2, <1>3 DEF InBlocks
<1>5. InBlocks(words)
        = [k \in 1 .. b |-> [n \in 1 .. Words |-> words[Words * (k - 1) + n]]]
  BY <1>2, <1>3, Zenon DEF InBlocks
<1>6. InBlocks(words) \in Seq(BlockContents) /\ Len(InBlocks(words)) = b
  BY ONLY <1>4
<1>7. QED
  BY <1>5, <1>6, Zenon

\* The blocks of a write.
LEMMA BlocksOfCall ==
    ASSUME NEW c \in Calls, c.op = "write"
    PROVE  /\ CallBlocks(c) \in Seq(BlockContents) /\ Len(CallBlocks(c)) = c.count
           /\ \A k \in 1 .. c.count :
                CallBlocks(c)[k]
                    = [n \in 1 .. Words |-> Word(c.data, Words * (k - 1) + n - 1)]
<1> DEFINE size == Words * c.count
           ws == [m \in 1 .. size |-> Word(c.data, m - 1)]
<1>1. /\ c.count \in Nat \ {0} /\ c.count = ClusterBlocks /\ c.data \in Data
      /\ Words \in Nat \ {0} /\ size \in Nat
  BY CallShape, DiskAssumption
<1>2. \A n \in 1 .. size : Word(c.data, n - 1) \in AllWords
  BY <1>1 DEF AllWords
<1>3. CallBlocks(c) = InBlocks(ws)
  BY DEF CallBlocks
<1>4. size = Words * c.count + 0 /\ 0 \in 0 .. Words - 1
  BY <1>1
<1>5. ASSUME NEW k \in 1 .. c.count, NEW n \in 1 .. Words
      PROVE  /\ Words * (k - 1) + n \in 1 .. size
             /\ ws[Words * (k - 1) + n] = Word(c.data, Words * (k - 1) + n - 1)
  <2>1. Words * (k - 1) + Words =< size
    BY <1>1, NextMultiple
  <2>2. Words * (k - 1) \in Nat
    BY <1>1
  <2>3. Words * (k - 1) + n \in 1 .. size
    <3> HIDE DEF size
    <3>1. QED
      BY <1>1, <2>1, <2>2
  <2> HIDE DEF size
  <2>4. QED
    <3> DEFINE p == Words * (k - 1) + n
    <3>1. p \in 1 .. size
      BY <2>3
    <3>2. p - 1 = Words * (k - 1) + n - 1
      BY ONLY <2>2
    <3> HIDE DEF p
    <3>3. ws[p] = Word(c.data, p - 1)
      BY ONLY <3>1
    <3>4. QED
      BY ONLY <3>1, <3>2, <3>3, Zenon DEF p
<1>6. ws \in Seq(AllWords) /\ Len(ws) = size
  <2> HIDE DEF size
  <2>1. QED
    BY <1>1, <1>2
<1> HIDE DEF size, ws
<1>7. /\ InBlocks(ws)
            = [k \in 1 .. c.count |-> [n \in 1 .. Words |-> ws[Words * (k - 1) + n]]]
      /\ InBlocks(ws) \in Seq(BlockContents) /\ Len(InBlocks(ws)) = c.count
  BY <1>1, <1>4, <1>6, BlocksOfWords
<1>8. ASSUME NEW k \in 1 .. c.count
      PROVE  InBlocks(ws)[k]
                = [n \in 1 .. Words |-> Word(c.data, Words * (k - 1) + n - 1)]
  <2>1. InBlocks(ws)[k] = [n \in 1 .. Words |-> ws[Words * (k - 1) + n]]
    BY ONLY <1>7
  <2>2. \A n \in 1 .. Words :
            ws[Words * (k - 1) + n] = Word(c.data, Words * (k - 1) + n - 1)
    BY <1>5
  <2>3. QED
    BY ONLY <2>1, <2>2
<1>9. QED
  BY <1>3, <1>7, <1>8

-----------------------------------------------------------------------------
(* The refinement.                                                         *)

\* What BlockStore's "done" stands for.
Done == IF call.op = "read" THEN InBlocks(buf) ELSE SubSeq(CallBlocks(call), 1, i)

\* The driver has moved i blocks.
LEMMA DoneLength ==
    ASSUME IInv
    PROVE  Done \in Seq(BlockContents) /\ Len(Done) = i
<1>1. /\ call \in Calls /\ call.op \in {"read", "write"}
      /\ i \in Nat /\ i =< call.count /\ call.count \in Nat
  BY CallShape DEF IInv, TypeOK
<1>2. CASE call.op = "read"
  <2>1. /\ buf \in Seq(AllWords) /\ Len(buf) = Words * i + j
        /\ j \in 0 .. Words - 1
    BY <1>2 DEF IInv, TypeOK
  <2>2. QED
    BY <1>1, <1>2, <2>1, BlocksOfWords DEF Done
<1>3. CASE call.op = "write"
  <2>1. /\ CallBlocks(call) \in Seq(BlockContents)
        /\ Len(CallBlocks(call)) = call.count
    BY <1>1, <1>3, BlocksOfCall
  <2>2. \A k \in 1 .. i : CallBlocks(call)[k] \in BlockContents
    BY <1>1, <2>1, ElementOfSeq
  <2>3. QED
    BY <1>1, <1>3, <2>2, SubSeqProperties DEF Done
<1>4. QED
  BY <1>1, <1>2, <1>3

\* The same after a step.
LEMMA DoneLengthAfter == IInv' => Done' \in Seq(BlockContents) /\ Len(Done') = i'
<1> DEFINE P == Done \in Seq(BlockContents) /\ Len(Done) = i
<1>1. IInv => P
  BY DoneLength
<1> HIDE DEF P
<1>2. IInv' => P'
  BY <1>1, PTL
<1>3. QED
  BY <1>2 DEF P, BlockContents

\* A read has done one more block once the last word of the block is in.
LEMMA BlockRead ==
    ASSUME IInv, call.op = "read", NEW w \in AllWords, buf' = Append(buf, w)
    PROVE  /\ j + 1 < Words => InBlocks(buf') = InBlocks(buf)
           /\ j + 1 = Words =>
                \E content \in BlockContents :
                    /\ InBlocks(buf') = Append(InBlocks(buf), content)
                    /\ \A n \in 1 .. j : content[n] = buf[Words * i + n]
                    /\ content[Words] = w
<1> DEFINE k == Words * i
<1>1. /\ Words \in Nat \ {0} /\ i \in Nat /\ j \in 0 .. Words - 1 /\ k \in Nat
      /\ buf \in Seq(AllWords) /\ Len(buf) = k + j
  BY CallShape, DiskAssumption DEF IInv, TypeOK
<1>2. /\ buf' \in Seq(AllWords) /\ Len(buf') = k + (j + 1)
      /\ \A n \in 1 .. k + j : buf'[n] = buf[n]
      /\ buf'[k + j + 1] = w
  BY <1>1, AppendProperties
<1>3. /\ InBlocks(buf)
            = [b \in 1 .. i |-> [n \in 1 .. Words |-> buf[Words * (b - 1) + n]]]
      /\ InBlocks(buf) \in Seq(BlockContents) /\ Len(InBlocks(buf)) = i
  BY <1>1, BlocksOfWords
<1>4. ASSUME NEW b \in 1 .. i, NEW n \in 1 .. Words
      PROVE  buf'[Words * (b - 1) + n] = buf[Words * (b - 1) + n]
  <2>1. Words * (b - 1) + Words =< k /\ Words * (b - 1) \in Nat
    BY <1>1, NextMultiple
  <2> HIDE DEF k
  <2>2. Words * (b - 1) + n \in 1 .. k + j
    BY <1>1, <2>1
  <2>3. QED
    BY <1>2, <2>2
<1>5. CASE j + 1 < Words
  <2>1. Len(buf') = Words * i + (j + 1) /\ j + 1 \in 0 .. Words - 1
    BY <1>1, <1>2, <1>5
  <2>2. InBlocks(buf')
            = [b \in 1 .. i |-> [n \in 1 .. Words |-> buf'[Words * (b - 1) + n]]]
    BY ONLY <1>1, <1>2, <2>1, BlocksOfWords
  <2>3. InBlocks(buf') = InBlocks(buf)
    BY ONLY <1>3, <1>4, <2>2
  <2>4. QED
    BY <1>1, <1>5, <2>3
<1>6. CASE j + 1 = Words
  <2>1. Len(buf') = Words * (i + 1) + 0 /\ 0 \in 0 .. Words - 1 /\ i + 1 \in Nat
    BY <1>1, <1>2, <1>6
  <2>2. /\ InBlocks(buf')
             = [b \in 1 .. i + 1 |-> [n \in 1 .. Words |-> buf'[Words * (b - 1) + n]]]
        /\ InBlocks(buf') \in Seq(BlockContents) /\ Len(InBlocks(buf')) = i + 1
    BY ONLY <1>2, <2>1, BlocksOfWords
  <2> DEFINE content == InBlocks(buf')[i + 1]
             longer == Append(InBlocks(buf), content)
  <2>3. content \in BlockContents
    <3>1. i + 1 \in 1 .. Len(InBlocks(buf'))
      BY ONLY <1>1, <2>2
    <3>2. QED
      BY ONLY <2>2, <3>1, ElementOfSeq DEF content
  <2>4. \A n \in 1 .. Words : content[n] = buf'[k + n]
    <3>1. i + 1 \in 1 .. i + 1 /\ Words * ((i + 1) - 1) = k
      BY <1>1
    <3>2. InBlocks(buf')[i + 1]
            = [n \in 1 .. Words |-> buf'[Words * ((i + 1) - 1) + n]]
      BY ONLY <2>2, <3>1
    <3>3. QED
      BY ONLY <3>1, <3>2 DEF content
  <2> HIDE DEF k, content
  <2>5. /\ longer \in Seq(BlockContents) /\ Len(longer) = i + 1
        /\ \A b \in 1 .. i : longer[b] = InBlocks(buf)[b]
        /\ longer[i + 1] = content
    <3>1. \A old \in Seq(BlockContents) :
            /\ Append(old, content) \in Seq(BlockContents)
            /\ Len(Append(old, content)) = Len(old) + 1
            /\ \A b \in 1 .. Len(old) : Append(old, content)[b] = old[b]
            /\ Append(old, content)[Len(old) + 1] = content
      BY ONLY <2>3, AppendProperties
    <3>2. QED
      BY ONLY <1>3, <3>1
  <2> HIDE DEF longer
  <2>6. ASSUME NEW b \in 1 .. i + 1 PROVE InBlocks(buf')[b] = longer[b]
    <3>1. CASE b \in 1 .. i
      <4>1. InBlocks(buf')[b] = [n \in 1 .. Words |-> buf'[Words * (b - 1) + n]]
        BY ONLY <2>2, <2>6
      <4>2. InBlocks(buf)[b] = [n \in 1 .. Words |-> buf[Words * (b - 1) + n]]
        BY ONLY <1>3, <3>1
      <4>3. QED
        BY ONLY <1>4, <2>5, <3>1, <4>1, <4>2
    <3>2. CASE b = i + 1
      BY <2>5, <3>2 DEF content
    <3>3. QED
      BY ONLY <1>1, <2>6, <3>1, <3>2
  <2>7. InBlocks(buf') = longer
    BY ONLY <2>2, <2>5, <2>6, SeqEqual
  <2>8. /\ \A n \in 1 .. j : content[n] = buf[k + n]
        /\ content[Words] = w
    BY ONLY <1>1, <1>2, <1>6, <2>4
  <2>9. QED
    <3>1. \E b \in BlockContents :
            /\ InBlocks(buf') = Append(InBlocks(buf), b)
            /\ \A n \in 1 .. j : b[n] = buf[Words * i + n]
            /\ b[Words] = w
      <4>1. WITNESS content \in BlockContents
      <4>2. QED
        BY ONLY <2>7, <2>8 DEF longer, k
    <3>2. ~ j + 1 < Words
      BY ONLY <1>1, <1>6
    <3>3. QED
      BY ONLY <3>1, <3>2, Zenon
<1>7. QED
  BY <1>1, <1>5, <1>6

\* A write has done one more block once its last word is handed over.
LEMMA BlockWritten ==
    ASSUME IInv, call.op = "write", i < call.count
    PROVE  /\ CallBlocks(call)[i + 1] \in BlockContents
           /\ CallBlocks(call)[i + 1]
                = [n \in 1 .. Words |-> Word(call.data, Words * i + n - 1)]
           /\ SubSeq(CallBlocks(call), 1, i + 1)
                = Append(SubSeq(CallBlocks(call), 1, i), CallBlocks(call)[i + 1])
<1> DEFINE blocks == CallBlocks(call)
<1>1. call \in Calls /\ call.count \in Nat /\ i \in Nat
  BY CallShape DEF IInv, TypeOK
<1>2. /\ blocks \in Seq(BlockContents) /\ Len(blocks) = call.count
      /\ \A k \in 1 .. call.count :
            blocks[k] = [n \in 1 .. Words |-> Word(call.data, Words * (k - 1) + n - 1)]
  BY <1>1, BlocksOfCall
<1> HIDE DEF blocks
<1>3. i + 1 \in 1 .. call.count /\ (i + 1) - 1 = i
  BY <1>1
<1>4. \A k \in 1 .. i + 1 : blocks[k] \in BlockContents
  BY <1>1, <1>2, <1>3, ElementOfSeq
<1>5. blocks[i + 1] = [n \in 1 .. Words |-> Word(call.data, Words * i + n - 1)]
  BY <1>2, <1>3
<1>6. /\ SubSeq(blocks, 1, i) \in Seq(BlockContents) /\ Len(SubSeq(blocks, 1, i)) = i
      /\ \A k \in 1 .. i : SubSeq(blocks, 1, i)[k] = blocks[k]
  BY <1>1, <1>4, SubSeqProperties
<1>7. /\ SubSeq(blocks, 1, i + 1) \in Seq(BlockContents)
      /\ Len(SubSeq(blocks, 1, i + 1)) = i + 1
      /\ \A k \in 1 .. i + 1 : SubSeq(blocks, 1, i + 1)[k] = blocks[k]
  BY <1>1, <1>4, SubSeqProperties
<1>8. /\ Append(SubSeq(blocks, 1, i), blocks[i + 1]) \in Seq(BlockContents)
      /\ Len(Append(SubSeq(blocks, 1, i), blocks[i + 1])) = i + 1
      /\ \A k \in 1 .. i + 1 :
            Append(SubSeq(blocks, 1, i), blocks[i + 1])[k] = blocks[k]
  BY <1>1, <1>4, <1>6, AppendProperties
<1>9. SubSeq(blocks, 1, i + 1) = Append(SubSeq(blocks, 1, i), blocks[i + 1])
  BY <1>7, <1>8, SeqEqual
<1>10. QED
  BY <1>3, <1>4, <1>5, <1>9 DEF blocks

\* Nothing is late or done in the beginning.
LEMMA InitRefines == Init => Abstract!Init
<1> SUFFICES ASSUME Init PROVE Abstract!Init
  OBVIOUS
<1>1. IInv
  BY InitialState
<1>2. Done \in Seq(BlockContents) /\ Len(Done) = 0
  BY <1>1, DoneLength DEF Init
<1>3. Done = << >>
  BY <1>2, EmptySeq
<1>4. Late = {} /\ pc = "idle" /\ status # "error"
  BY DEF Init, Late
<1>5. QED
  BY <1>3, <1>4 DEF Init, Abstract!Init, Done

\* A call is never NoCall.
LEMMA CallIsCall ==
    ASSUME NEW c \in Calls
    PROVE  AbstractCall(c) # NoCall
  BY CallShape DEF AbstractCall, NoCall

\* A call begins with nothing done and nothing late.
LEMMA IssueCommandRefines ==
    ASSUME IInv, IInv', NEW c \in Calls, IssueCommand(c)
    PROVE  Abstract!Begin(AbstractCall(c))
<1>1. pc = "idle" /\ status # "busy" /\ Late = {}
  BY DEF IssueCommand, AtaBusyWaitEnds, Late
<1>2. pc' = "wait" /\ call' = c /\ status' = "busy" /\ media' = media
  BY DEF IssueCommand
<1>3. Late' = {}
  BY DiskAssumption, EmptySeq DEF IssueCommand, Late
<1>4. Done' = << >>
  <2>1. Done' \in Seq(BlockContents) /\ Len(Done') = 0
    BY DoneLengthAfter DEF IssueCommand
  <2>2. QED
    BY <2>1, EmptySeq
<1>5. QED
  BY <1>1, <1>2, <1>3, <1>4 DEF Abstract!Begin, Done

\* The mapping of a call.
LEMMA CallFields ==
    ASSUME NEW c
    PROVE  /\ AbstractCall(c).op = c.op /\ AbstractCall(c).lba = c.lba
           /\ AbstractCall(c).count = c.count /\ AbstractCall(c).data = CallBlocks(c)
  BY DEF AbstractCall

\* A read leaves no block behind.
LEMMA AtABlockAfter == IInv' /\ status' = "busy" /\ call'.op = "read" => sector' = << >>
<1> DEFINE P == status = "busy" /\ call.op = "read" => sector = << >>
<1>1. IInv => P
  BY AtABlock
<1> HIDE DEF P
<1>2. IInv' => P'
  BY <1>1, PTL
<1>3. QED
  BY <1>2 DEF P

\* The last word of a block gets or, after an error, skips it; the others do nothing.
LEMMA ReadWordRefines ==
    ASSUME IInv, IInv', ReadWord
    PROVE  Abstract!Next \/ UNCHANGED Abstract!vars
<1> DEFINE w == IF status = "data" THEN Head(sector) ELSE Junk
<1>1. /\ pc = "move" /\ call.op = "read" /\ UNCHANGED <<call, media>>
      /\ buf' = Append(buf, w) /\ call \in Calls /\ status \in {"data", "error"}
      /\ Words \in Nat \ {0} /\ j \in Nat
  BY DiskAssumption DEF ReadWord, drive, IInv, TypeOK, Position
<1>2. /\ i \in Nat /\ j \in Nat /\ j < Words /\ i < call.count
      /\ \/ j + 1 < Words /\ j' = j + 1 /\ i' = i /\ pc' = "move"
         \/ /\ j + 1 = Words /\ j' = 0 /\ i' = i + 1
            /\ pc' = IF i + 1 = call.count THEN "idle" ELSE "wait"
  BY <1>1, NextWordResult DEF ReadWord, IInv
<1>3. Done = InBlocks(buf) /\ Done' = InBlocks(buf') /\ Len(Done) = i
  BY <1>1, DoneLength DEF Done
<1>4. status = "data" =>
        /\ at = call.lba + i /\ Len(sector) = Words - j
        /\ sector \in Seq(AllWords) /\ sector # << >>
        /\ \A n \in 1 .. j : buf[Words * i + n] = media[at][n]
        /\ sector[1] = media[at][j + 1]
        /\ media[at] \in BlockContents
  <2> SUFFICES ASSUME status = "data" PROVE
        /\ at = call.lba + i /\ Len(sector) = Words - j
        /\ sector \in Seq(AllWords) /\ sector # << >>
        /\ \A n \in 1 .. j : buf[Words * i + n] = media[at][n]
        /\ sector[1] = media[at][j + 1]
        /\ media[at] \in BlockContents
    OBVIOUS
  <2>1. at = call.lba + i /\ Len(sector) = Words - j
    BY <1>1 DEF IInv, Position, AtSameBlock
  <2>2. sector \in Seq(AllWords) /\ sector # << >>
    BY <1>1, <1>2, <2>1, EmptySeq DEF IInv, TypeOK
  <2>3. /\ \A n \in 1 .. j : buf[Words * i + n] = media[at][n]
        /\ \A n \in 1 .. Words - j : sector[n] = media[at][j + n]
    BY <1>1 DEF IInv, Content
  <2>4. sector[1] = media[at][j + 1]
    BY <1>1, <1>2, <2>3
  <2>5. at \in Blocks
    <3>1. call.lba \in Nat /\ call.lba + call.count =< NumBlocks /\ call.count \in Nat
      BY <1>1, CallShape
    <3>2. NumBlocks \in Nat
      BY DiskAssumption
    <3>3. QED
      BY ONLY <1>2, <2>1, <3>1, <3>2 DEF Blocks
  <2>6. media[at] \in BlockContents
    BY <2>5 DEF IInv, TypeOK, BlockContents
  <2>7. QED
    BY <2>1, <2>2, <2>3, <2>4, <2>6
<1>5. w \in AllWords
  BY <1>1, <1>4, HeadTailProperties DEF AllWords
<1>6. /\ j + 1 < Words => InBlocks(buf') = InBlocks(buf)
      /\ j + 1 = Words =>
            \E content \in BlockContents :
                /\ InBlocks(buf') = Append(InBlocks(buf), content)
                /\ \A n \in 1 .. j : content[n] = buf[Words * i + n]
                /\ content[Words] = w
  BY <1>1, <1>5, BlockRead
<1>7. Late = {}
  BY <1>1 DEF Late
<1>8. /\ Late' = {} /\ (status' = "error" <=> status = "error")
  <2>1. status = "error" => status' = "error"
    BY DEF ReadWord, drive
  <2>2. status' = "busy" => sector' = << >>
    BY <1>1, AtABlockAfter
  <2>3. Late' = {}
    BY <1>1, <2>2, EmptySeq DEF Late
  <2>4. status = "data" => status' # "error"
    BY DEF ReadWord
  <2>5. QED
    BY <1>1, <2>1, <2>3, <2>4
<1>9. CASE j + 1 < Words
  <2>1. Done' = Done /\ pc' = "move"
    BY <1>1, <1>2, <1>3, <1>6, <1>9
  <2>2. QED
    BY <1>1, <1>7, <1>8, <2>1 DEF Abstract!vars, Done
<1>10. CASE j + 1 = Words
  <2>1. PICK content \in BlockContents :
            /\ InBlocks(buf') = Append(InBlocks(buf), content)
            /\ \A n \in 1 .. j : content[n] = buf[Words * i + n]
            /\ content[Words] = w
    BY <1>6, <1>10
  <2>2. Done' = Append(Done, content)
    BY <1>3, <2>1
  <2>3. pc' = IF i + 1 = call.count THEN "idle" ELSE "wait"
    BY <1>1, <1>2, <1>10
  <2>4. Abstract!Move(content)
    BY <1>1, <1>3, <1>8, <2>2, <2>3, CallIsCall, CallFields
    DEF Abstract!Move, Done
  <2>5. CASE status = "data"
    <3>1. w = media[at][Words]
      BY <1>1, <1>4, <1>10, <2>5
    <3>2. \A n \in 1 .. Words : content[n] = media[at][n]
      BY <1>1, <1>4, <1>10, <2>1, <2>5, <3>1
    <3>3. content = media[at]
      <4>1. /\ content = [n \in 1 .. Words |-> content[n]]
            /\ media[at] = [n \in 1 .. Words |-> media[at][n]]
        BY <1>4, <2>1, <2>5 DEF BlockContents
      <4>2. [n \in 1 .. Words |-> content[n]] = [n \in 1 .. Words |-> media[at][n]]
        BY ONLY <3>2, Zenon
      <4>3. QED
        BY ONLY <4>1, <4>2
    <3>4. content = media[AbstractCall(call).lba + Len(Done)]
      BY <1>3, <1>4, <2>5, <3>3, CallFields
    <3>5. Abstract!Get
      BY <1>1, <1>7, <1>8, <2>4, <2>5, <3>4, CallIsCall, CallFields
      DEF Abstract!Get, Done
    <3>6. QED
      BY <3>5 DEF Abstract!Next
  <2>6. CASE status = "error"
    <3>1. Abstract!Skip
      BY <1>7, <1>8, <2>4, <2>6 DEF Abstract!Skip, BlockContents
    <3>2. QED
      BY <3>1 DEF Abstract!Next
  <2>7. QED
    BY <1>1, <2>5, <2>6
<1>11. QED
  BY <1>1, <1>2, <1>9, <1>10

\* The last word of a block puts or, after an error, skips it; the others do nothing.
LEMMA WriteWordRefines ==
    ASSUME IInv, IInv', WriteWord
    PROVE  Abstract!Next \/ UNCHANGED Abstract!vars
<1>1. /\ pc = "move" /\ call.op = "write" /\ UNCHANGED <<call, media, buf, at>>
      /\ call \in Calls /\ status \in {"data", "error"} /\ Words \in Nat \ {0}
  BY DiskAssumption DEF WriteWord, IInv, TypeOK, Position
<1>2. /\ i \in Nat /\ j \in Nat /\ j < Words /\ i < call.count
      /\ \/ j + 1 < Words /\ j' = j + 1 /\ i' = i /\ pc' = "move"
         \/ /\ j + 1 = Words /\ j' = 0 /\ i' = i + 1
            /\ pc' = IF i + 1 = call.count THEN "idle" ELSE "wait"
  BY <1>1, NextWordResult DEF WriteWord, IInv
<1>3. /\ Done = SubSeq(CallBlocks(call), 1, i)
      /\ Done' = SubSeq(CallBlocks(call), 1, i') /\ Len(Done) = i
  BY <1>1, DoneLength DEF Done
<1>4. status = "data" =>
        /\ at = call.lba + i /\ call.lba \in Nat
        /\ sector' \in Seq(AllWords) /\ Len(sector') = j + 1
        /\ status' = IF j + 1 = Words THEN "busy" ELSE "data"
  <2> SUFFICES ASSUME status = "data" PROVE
        /\ at = call.lba + i /\ call.lba \in Nat
        /\ sector' \in Seq(AllWords) /\ Len(sector') = j + 1
        /\ status' = IF j + 1 = Words THEN "busy" ELSE "data"
    OBVIOUS
  <2>1. at = call.lba + i /\ Len(sector) = j /\ sector \in Seq(AllWords)
    BY <1>1 DEF IInv, TypeOK, Position, AtSameBlock
  <2>2. Word(call.data, Words * i + j) \in AllWords
    <3>1. TypeOK /\ j \in 0 .. Words - 1
      BY <1>1, <1>2 DEF IInv
    <3>2. QED
      BY ONLY <1>1, <1>2, <3>1, WordIsWord
  <2>3. sector' \in Seq(AllWords) /\ Len(sector') = j + 1
    BY <2>1, <2>2, AppendProperties DEF WriteWord
  <2>4. QED
    BY <1>1, <2>1, <2>3, CallShape DEF WriteWord
<1>5. status = "error" => status' = "error"
  BY DEF WriteWord
<1>6. Late = {} /\ (status' = "error" <=> status = "error")
  BY <1>1, <1>4, <1>5 DEF Late
<1>7. CASE j + 1 < Words
  <2>1. Done' = Done /\ pc' = "move" /\ status' = status
    BY <1>1, <1>2, <1>3, <1>4, <1>5, <1>7
  <2>2. Late' = {}
    BY <1>1, <2>1 DEF Late
  <2>3. QED
    BY <1>1, <1>6, <2>1, <2>2 DEF Abstract!vars, Done
<1>8. CASE j + 1 = Words
  <2> DEFINE content == CallBlocks(call)[i + 1]
  <2>1. /\ content \in BlockContents
        /\ content = [n \in 1 .. Words |-> Word(call.data, Words * i + n - 1)]
        /\ SubSeq(CallBlocks(call), 1, i + 1)
                = Append(SubSeq(CallBlocks(call), 1, i), content)
    BY <1>1, <1>2, BlockWritten
  <2>2. i' = i + 1 /\ pc' = IF i + 1 = call.count THEN "idle" ELSE "wait"
    BY <1>1, <1>2, <1>8
  <2>3. Done' = Append(Done, content)
    BY <1>3, <2>1, <2>2
  <2>4. content = CallBlocks(call)[Len(Done) + 1]
    BY <1>3
  <2> HIDE DEF content
  <2>5. Abstract!Move(content)
    BY <1>1, <1>3, <1>6, <2>2, <2>3, CallIsCall, CallFields
    DEF Abstract!Move, Done
  <2>6. CASE status = "data"
    <3>1. /\ at = call.lba + i /\ at - call.lba = i /\ status' = "busy"
          /\ sector' \in Seq(AllWords) /\ Len(sector') = Words
      BY <1>2, <1>4, <1>8, <2>6
    <3>2. \A n \in 1 .. Words :
            sector'[n] = Word(call.data, Words * (at - call.lba) + n - 1)
      BY <1>1, <3>1 DEF IInv, Content
    <3>3. \A n \in 1 .. Words : sector'[n] = content[n]
      BY ONLY <2>1, <3>1, <3>2
    <3>4. sector' = content
      BY ONLY <1>1, <2>1, <3>1, <3>3, LenProperties
    <3>5. Late' = {<<AbstractCall(call).lba + Len(Done), content>>}
      BY <1>1, <1>3, <3>1, <3>4, CallFields DEF Late
    <3>6. Abstract!Put
      BY <1>1, <1>6, <2>4, <2>5, <2>6, <3>5, CallIsCall, CallFields
      DEF Abstract!Put, Done
    <3>7. QED
      BY <3>6 DEF Abstract!Next
  <2>7. CASE status = "error"
    <3>1. Late' = {}
      BY <1>5, <2>7 DEF Late
    <3>2. Abstract!Skip
      BY <1>6, <2>1, <2>5, <2>7, <3>1 DEF Abstract!Skip, BlockContents
    <3>3. QED
      BY <3>2 DEF Abstract!Next
  <2>8. QED
    BY <1>1, <2>6, <2>7
<1>9. QED
  BY <1>1, <1>2, <1>7, <1>8

\* Steps that move no word and end no call.
LEMMA QuietSteps ==
    ASSUME IInv, WaitForBlock \/ Fetch \/ Accept
    PROVE  UNCHANGED Abstract!vars
<1>1. /\ UNCHANGED <<call, i, buf, media>> /\ pc # "idle" /\ pc' # "idle"
  <2>1. CASE WaitForBlock
    BY <2>1 DEF WaitForBlock
  <2>2. CASE Fetch \/ Accept
    <3>1. pc = "wait"
      BY <2>2, AtABlock DEF Fetch, Accept
    <3>2. QED
      BY <2>2, <3>1 DEF Fetch, Accept, driver
  <2>3. QED
    BY <2>1, <2>2
<1>2. status # "error" <=> status' # "error"
  BY DEF WaitForBlock, Fetch, Accept, drive
<1>3. Late' = Late
  <2>1. CASE WaitForBlock
    BY <2>1 DEF WaitForBlock, Late, drive
  <2>2. CASE Fetch \/ Accept
    <3>1. sector = << >> /\ Words # 0
      BY <2>2, AtABlock DEF Fetch, Accept
    <3>2. Late = {}
      BY <3>1, EmptySeq DEF Late
    <3>3. Late' = {}
      BY <2>2 DEF Fetch, Accept, Late
    <3>4. QED
      BY <3>2, <3>3
  <2>3. QED
    BY <2>1, <2>2
<1>4. QED
  BY <1>1, <1>2, <1>3 DEF Abstract!vars

\* The late block settles.
LEMMA StoreRefines ==
    ASSUME IInv, Store
    PROVE  Abstract!Settle
<1>1. status = "busy" /\ Len(sector) = Words /\ Words # 0
  BY AtABlock DEF Store, OneBehind
<1>2. Late = {<<at, sector>>}
  BY <1>1 DEF Late
<1>3. Late' = {} /\ status' # "error"
  BY <1>1, EmptySeq DEF Store, Late
<1>4. UNCHANGED <<call, pc, i, buf>> /\ media' = [media EXCEPT ![at] = sector]
  BY DEF Store, driver
<1>5. \E w \in Late : media' = [media EXCEPT ![w[1]] = w[2]]
  BY <1>2, <1>4
<1>6. QED
  BY <1>1, <1>3, <1>4, <1>5 DEF Abstract!Settle

\* An error of the drive loses the late block.
LEMMA FailRefines ==
    ASSUME IInv, Fail
    PROVE  Abstract!DriveFails
<1>1. UNCHANGED <<call, pc, i, buf, media>> /\ status' = "error"
  BY DEF Fail, driver
<1>2. Late' = {}
  BY <1>1 DEF Late
<1>3. QED
  BY <1>1, <1>2 DEF Abstract!DriveFails

\* So does a power failure.
LEMMA PowerFailsRefines ==
    ASSUME IInv, IInv', PowerFails
    PROVE  Abstract!PowerFails
<1>1. /\ UNCHANGED media /\ pc' = "idle" /\ status' = "ready" /\ i' = 0
  BY DEF PowerFails
<1>2. Late' = {}
  BY <1>1 DEF Late
<1>3. Done' = << >>
  <2>1. Done' \in Seq(BlockContents) /\ Len(Done') = 0
    BY <1>1, DoneLengthAfter
  <2>2. QED
    BY <2>1, EmptySeq
<1>4. QED
  BY <1>1, <1>2, <1>3 DEF Abstract!PowerFails, Done

\* Every step is a step of BlockStore or changes nothing of it.
LEMMA NextRefines == IInv /\ IInv' /\ [Next]_vars => [Abstract!Next]_(Abstract!vars)
<1> SUFFICES ASSUME IInv, IInv', [Next]_vars
             PROVE  Abstract!Next \/ UNCHANGED Abstract!vars
  OBVIOUS
<1>1. ASSUME NEW c \in Calls, IssueCommand(c) PROVE Abstract!Next
  BY <1>1, IssueCommandRefines DEF Abstract!Next
<1>2. CASE WaitForBlock \/ Fetch \/ Accept
  BY <1>2, QuietSteps
<1>3. CASE ReadWord
  BY <1>3, ReadWordRefines
<1>4. CASE WriteWord
  BY <1>4, WriteWordRefines
<1>5. CASE Store
  BY <1>5, StoreRefines DEF Abstract!Next
<1>6. CASE Fail
  BY <1>6, FailRefines DEF Abstract!Next
<1>7. CASE PowerFails
  BY <1>7, PowerFailsRefines DEF Abstract!Next
<1>8. CASE UNCHANGED vars
  BY <1>8 DEF vars, driver, drive, Abstract!vars, Late
<1>9. QED
  BY <1>1, <1>2, <1>3, <1>4, <1>5, <1>6, <1>7, <1>8
  DEF Next, DriverStep, DriveStep

\* The driver, for every geometry and however the drive behaves, is one that
\* reads and writes blocks whole and in order, at most the last one late.
THEOREM BlockStoreIsImplemented == Spec => ImplementsBlockStore
<1>1. Init => Abstract!Init
  BY InitRefines
<1>2. IInv /\ IInv' /\ [Next]_vars => [Abstract!Next]_(Abstract!vars)
  BY NextRefines
<1>3. Spec => Abstract!Spec
  BY <1>1, <1>2, InductiveInvariant, PTL DEF Spec, Abstract!Spec
<1>4. QED
  BY <1>3 DEF ImplementsBlockStore

=============================================================================
