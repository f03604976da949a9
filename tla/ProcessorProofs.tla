--------------------------- MODULE ProcessorProofs ---------------------------
(***************************************************************************)
(* Proofs about Processor, for every set of lines, exceptions, vectors,    *)
(* numbers of system calls and lengths of texts: when the program passes   *)
(* pointers to its own page only, nothing faults, the kernel stays as it   *)
(* is, and what is interrupted goes on as it was. Nothing in the kernel    *)
(* checks the pointers, so OwnBuffers is an assumption of every theorem.   *)
(*                                                                         *)
(* What the kernel's stack holds follows from who was interrupted last:    *)
(* the start, the program, or the program's system call 4, in its wait or  *)
(* on its way back. The invariant says which words those are.              *)
(***************************************************************************)
EXTENDS Processor, SequenceTheorems, FiniteSetTheorems, TLAPS

-----------------------------------------------------------------------------
(* How far the start is.                                                   *)

NoGdt == {"loader", "identity", "higher", "invalidate", "setup"}
NoRemap == NoGdt \cup {"remap"}
NoIdt == NoRemap \cup {"idt"}
NoTss == NoIdt \cup {"mask", "mount", "mounting", "tss"}
NoTr == NoTss \cup {"ltr"}
NoPage == NoTr \cup {"allocate"}
NoStack == NoPage \cup {"address", "flush", "load", "loading", "stack"}

\* The step of the start that goes on when all handlers have returned, or
\* "user" once the program runs.
Stage(who) == IF who \in Boot THEN who ELSE "user"

TablesType == [gdt : BOOLEAN, idt : BOOLEAN, tssBase : BOOLEAN, tr : BOOLEAN,
               esp0 : Nat, picBase : Nat, masked : SUBSET Lines]

TablesInv(s) ==
    /\ tables \in TablesType
    /\ s \notin NoGdt => tables.gdt
    /\ s \notin NoRemap => tables.picBase = 32
    /\ s \notin NoIdt => tables.idt
    /\ s \notin NoTss => tables.tssBase
    /\ s \notin NoTr => tables.tr
    /\ s \notin NoStack => tables.esp0 = 1

Entries == [present : BOOLEAN, user : BOOLEAN, frame : 0 .. 1]

\* The entry of the first page, and what the TLB may still hold of it when the
\* entry was changed but invlpg is yet to come.
Low(s) == IF s \in {"loader", "identity", "higher"} THEN Mapping(FALSE, KernelFrame)
          ELSE IF s \in NoPage THEN NotPresent
          ELSE IF s = "address" THEN Mapping(TRUE, KernelFrame)
          ELSE Mapping(TRUE, LastAvailableFrame)

Stale(s) == IF s = "invalidate" THEN Mapping(FALSE, KernelFrame)
            ELSE IF s = "flush" THEN Mapping(TRUE, KernelFrame)
            ELSE NotPresent

MemoryInv(s) ==
    /\ dir = [p \in Pages |-> CASE p = "kernel" -> Mapping(FALSE, KernelFrame)
                               [] p = "other" -> NotPresent
                               [] OTHER -> Low(s)]
    /\ tlb \in [Pages -> Entries]
    /\ \A p \in Pages : tlb[p] \in {dir[p], NotPresent} \/ (p = "low" /\ tlb[p] = Stale(s))
    /\ frames \in [0 .. 1 -> {"kernel", "free", "shell", "user"}]
    /\ frames[KernelFrame] = "kernel"

\* Nobody but the start and one system call is in the driver.
DriverInv(s) ==
    inDriver = (IF s \in {"mounting", "loading"} THEN {"boot"} ELSE {})
               \cup (IF pc = "driver" THEN {"call"} ELSE {})

SegmentsInv(s) ==
    /\ cpl = IF pc = "user" THEN 3 ELSE 0
    /\ ds \in IF s = "user" THEN {UserData} ELSE {0, KernelData}

-----------------------------------------------------------------------------
(* The stack.                                                              *)

Kinds == Registers \cup {"frame", "ss", "esp", "eflags", "cs", "eip", "code", "vector"}
Owners == Control \cup {"kernel_setup", "syscall", "cpu", "stub"}
Words == Kinds \X Owners \X Int

\* What a register may hold, and that of register r of the code who.
Values == Registers \X Control \X (CallNumbers \cup {0})
ValueOf(w, r, who) == w \in Values /\ w[1] = r /\ w[2] = who

RegsOf(who) == \A r \in Registers : ValueOf(regs[r], r, who)

\* On its way back a system call has the program's registers already.
Owner(who) == IF who = "iret" THEN "user" ELSE who

\* Where an interrupt may come in.
Interruptible == (Boot \ NoIdt) \cup {"user", "wait", "exit", "iret"}

\* The processor's words for an interrupt of who, above the n-th of stack k.
CpuWords(k, n, who) ==
    /\ k[n + 1] = Word("eflags", who, 1)
    /\ k[n + 2] = Word("cs", who, IF who = "user" THEN 3 ELSE 0)
    /\ k[n + 3] = Word("eip", who, 0)

\* Those words, and the stub's.
EntryWords(k, n, who) ==
    /\ CpuWords(k, n, who)
    /\ k[n + 6] = Word("esp", "stub", n + 5)
    /\ \A j \in 1 .. 5 : ValueOf(k[n + 6 + j], Saved[j], Owner(who))

\* The words on the stack when who is interrupted, with those that belong to
\* the change of stacks.
Height(who) == CASE who = "user" -> 3 [] who = "iret" -> 6
                 [] who = "exit" -> 14 [] who = "wait" -> 15 [] OTHER -> 1

\* The words that are left when who goes on.
Left(who) == IF who = "user" THEN 1 ELSE Height(who)

\* What those words are.
Below(k, who) ==
    /\ who = "iret" => CpuWords(k, 3, "user")
    /\ who \in {"exit", "wait"} => EntryWords(k, 3, "user")
    /\ who = "wait" => k[15] = Locals

Runs(who) ==
    /\ pc = who /\ who \in Boot \cup {"user", "wait"}
    /\ Len(kstack) = Left(who)
    /\ Below(kstack, who)
    /\ RegsOf(who)
    /\ ints = (who \notin NoIdt)

\* Interrupts stay enabled at the end of a system call that has waited.
Handled(who) ==
    /\ pc \in {"handler", "driver", "puts", "exit"} /\ who \in Interruptible
    /\ Len(kstack) = Height(who) + 11
    /\ Below(kstack, who) /\ EntryWords(kstack, Height(who), who)
    /\ pc = "handler" /\ IntNumber = SystemCall => who = "user"
    /\ pc = "driver" => who = "user"
    /\ ints => who = "user" /\ pc = "exit" /\ RegsOf("exit")

Returning(who) ==
    /\ pc = "iret" /\ who \in Interruptible
    /\ Len(kstack) = Height(who) + 3
    /\ Below(kstack, who) /\ CpuWords(kstack, Height(who), who)
    /\ RegsOf(Owner(who))
    /\ ints => who = "user"

StackInv(who) ==
    /\ kstack \in Seq(Words)
    /\ kstack[1] = Word("frame", "kernel_setup", 0)
    /\ Runs(who) \/ Handled(who) \/ Returning(who)

Inv(who) ==
    /\ TablesInv(Stage(who)) /\ MemoryInv(Stage(who))
    /\ DriverInv(Stage(who)) /\ SegmentsInv(Stage(who))
    /\ StackInv(who)
    /\ ints \in BOOLEAN /\ inService \subseteq Lines
    /\ regs \in [Registers -> Values]

IInv == \E who \in Control : Inv(who)

-----------------------------------------------------------------------------
(* Words on the stack.                                                     *)

\* What a word is made of.
LEMMA WordParts ==
    ASSUME NEW a \in Kinds, NEW b \in Owners, NEW n \in Int
    PROVE  /\ Word(a, b, n) \in Words
           /\ Word(a, b, n)[1] = a
           /\ Word(a, b, n)[2] = b
           /\ Word(a, b, n)[3] = n
  BY DEF Word, Words

LEMMA ValuesAreWords == Values \subseteq Words
<1>1. CallNumbers \cup {0} \subseteq Int
  BY ProcessorAssumption
<1>2. QED
  BY <1>1 DEF Values, Words, Kinds, Owners

\* What is pushed comes on top of what is there.
OnTop(s, t, u) ==
    /\ u \in Seq(Words)
    /\ Len(u) = Len(s) + Len(t)
    /\ \A i \in 1 .. Len(s) : u[i] = s[i]
    /\ \A i \in 1 .. Len(t) : u[Len(s) + i] = t[i]

LEMMA Pushed ==
    ASSUME NEW s \in Seq(Words), NEW t \in Seq(Words)
    PROVE  OnTop(s, t, s \o t)
  BY ConcatProperties DEF OnTop

\* What is left after n words have been kept.
LEMMA Kept ==
    ASSUME NEW s \in Seq(Words), NEW n \in 0 .. Len(s)
    PROVE  /\ SubSeq(s, 1, n) \in Seq(Words)
           /\ Len(SubSeq(s, 1, n)) = n
           /\ \A i \in 1 .. n : SubSeq(s, 1, n)[i] = s[i]
<1>1. \A i \in 1 .. n : s[i] \in Words
  BY LenProperties
<1>2. QED
  BY <1>1, SubSeqProperties

\* The five registers as they are pushed.
LEMMA SavedValues ==
    ASSUME NEW r \in [Registers -> Values]
    PROVE  /\ [k \in 1 .. 5 |-> r[Saved[k]]] \in Seq(Words)
           /\ Len([k \in 1 .. 5 |-> r[Saved[k]]]) = 5
<1>1. \A k \in 1 .. 5 : Saved[k] \in Registers
  BY DEF Saved, Registers
<1>2. \A k \in 1 .. 5 : r[Saved[k]] \in Words
  BY <1>1, ValuesAreWords
<1>3. QED
  BY <1>2

\* Stack k is the kernel's with the words of an interrupt on it, the first of
\* them above the h-th, of code that runs with r in its registers.
Entered(k, h, v, r) ==
    /\ k \in Seq(Words) /\ Len(k) = h + 11
    /\ \A i \in 1 .. Len(kstack) : k[i] = kstack[i]
    /\ k[h + 1] = Word("eflags", pc, 1)
    /\ k[h + 2] = Word("cs", pc, cpl)
    /\ k[h + 3] = Word("eip", pc, 0)
    /\ k[h + 5] = Word("vector", "stub", v)
    /\ k[h + 6] = Word("esp", "stub", h + 5)
    /\ \A j \in 1 .. 5 : k[h + 6 + j] = r[Saved[j]]

\* What a gate, the processor and the stub put on the stack: eleven words, and
\* two more for the program's stack, whether the code comes from the processor
\* or from the stub.
LEMMA StackEntered ==
    ASSUME NEW exception \in BOOLEAN, NEW v \in Nat,
           exception \/ v \notin ErrorCodes,
           NEW r \in [Registers -> Values],
           pc \in Control, cpl \in {0, 3}, ints = TRUE,
           kstack \in Seq(Words), cpl = 3 => tables.esp0 = Len(kstack),
           NEW h, h = Len(kstack) + (IF cpl = 3 THEN 2 ELSE 0),
           NEW k, k = Stub(v, CpuFrame(exception, v), r)
    PROVE  Entered(k, h, v, r)
<1> DEFINE n == Len(kstack)
           ring == <<Word("ss", pc, UserData), Word("esp", pc, 0)>>
           three == <<Word("eflags", pc, 1), Word("cs", pc, cpl), Word("eip", pc, 0)>>
           cpu == IF exception /\ v \in ErrorCodes THEN <<Word("code", "cpu", 0)>>
                                                   ELSE << >>
           stub == IF v \in ErrorCodeStubs THEN << >> ELSE <<Word("code", "stub", 0)>>
           vector == <<Word("vector", "stub", v)>>
           esp(m) == <<Word("esp", "stub", m)>>
           five == [i \in 1 .. 5 |-> r[Saved[i]]]
           a == IF cpl = 3 THEN SubSeq(kstack, 1, tables.esp0) \o ring ELSE kstack
           b == a \o three
           c == b \o cpu
           d == c \o stub
           e == d \o vector
           f == e \o esp(Len(e))
<1>1. /\ pc \in Owners /\ "stub" \in Owners /\ "cpu" \in Owners
      /\ {"ss", "esp", "eflags", "cs", "eip", "code", "vector"} \subseteq Kinds
      /\ UserData \in Int /\ cpl \in Int /\ n \in Nat
  BY LenProperties DEF Owners, Kinds, UserData
<1>0. h \in Nat /\ n =< h
  BY ONLY <1>1, cpl \in {0, 3}, h = n + (IF cpl = 3 THEN 2 ELSE 0)
<1>2. /\ ring \in Seq(Words) /\ Len(ring) = 2
      /\ three \in Seq(Words) /\ Len(three) = 3
      /\ vector \in Seq(Words) /\ Len(vector) = 1
  <2>1. /\ Word("ss", pc, UserData) \in Words /\ Word("esp", pc, 0) \in Words
        /\ Word("eflags", pc, 1) \in Words /\ Word("cs", pc, cpl) \in Words
        /\ Word("eip", pc, 0) \in Words /\ Word("vector", "stub", v) \in Words
    BY <1>1, WordParts
  <2>2. QED
    BY <2>1
<1>3. /\ cpu \in Seq(Words) /\ stub \in Seq(Words)
      /\ Len(cpu) + Len(stub) = 1 /\ Len(cpu) \in Nat /\ Len(stub) \in Nat
  <2>1. Word("code", "cpu", 0) \in Words /\ Word("code", "stub", 0) \in Words
    BY <1>1, WordParts
  <2>2. ErrorCodes = ErrorCodeStubs
    BY DEF ErrorCodes, ErrorCodeStubs
  <2> HIDE DEF cpu, stub
  <2>3. CASE v \in ErrorCodes
    BY <2>1, <2>2, <2>3 DEF cpu, stub
  <2>4. CASE v \notin ErrorCodes
    BY <2>1, <2>2, <2>4 DEF cpu, stub
  <2>5. QED
    BY <2>3, <2>4
<1>4. five \in Seq(Words) /\ Len(five) = 5
  BY SavedValues
<1>5. k = f \o five
  BY DEF Stub, CpuFrame
<1> HIDE DEF ring, three, cpu, stub, vector, five, a, b, c, d, e, f
<1>6. /\ a \in Seq(Words) /\ Len(a) = h
      /\ \A i \in 1 .. n : a[i] = kstack[i]
  <2>1. CASE cpl = 3
    <3>1. /\ SubSeq(kstack, 1, n) \in Seq(Words) /\ Len(SubSeq(kstack, 1, n)) = n
          /\ \A i \in 1 .. n : SubSeq(kstack, 1, n)[i] = kstack[i]
      BY <1>1, Kept
    <3>2. a = SubSeq(kstack, 1, n) \o ring
      BY <2>1 DEF a
    <3>3. QED
      <4>1. /\ a \in Seq(Words) /\ Len(a) = n + 2
            /\ \A i \in 1 .. n : a[i] = SubSeq(kstack, 1, n)[i]
        <5>1. OnTop(SubSeq(kstack, 1, n), ring, a)
          BY ONLY <1>2, <3>1, <3>2, Pushed, Zenon
        <5>2. QED
          BY ONLY <1>1, <1>2, <3>1, <5>1 DEF OnTop
      <4>2. h = n + 2
        BY <2>1
      <4>3. QED
        BY ONLY <3>1, <4>1, <4>2
  <2>2. CASE cpl # 3
    BY <1>1, <2>2 DEF a
  <2>3. QED
    BY <2>1, <2>2
<1>7. /\ b \in Seq(Words) /\ Len(b) = h + 3
      /\ \A i \in 1 .. h : b[i] = a[i]
      /\ \A i \in 1 .. 3 : b[h + i] = three[i]
  <2>1. OnTop(a, three, b)
    BY ONLY <1>2, <1>6, Pushed, Zenon DEF b
  <2>2. QED
    BY ONLY <1>0, <1>2, <1>6, <2>1 DEF OnTop
<1>8. /\ c \in Seq(Words) /\ Len(c) = h + 3 + Len(cpu)
      /\ \A i \in 1 .. h + 3 : c[i] = b[i]
  <2>1. OnTop(b, cpu, c)
    BY ONLY <1>3, <1>7, Pushed, Zenon DEF c
  <2>2. QED
    BY ONLY <1>0, <1>3, <1>7, <2>1 DEF OnTop
<1>9. /\ d \in Seq(Words) /\ Len(d) = h + 4
      /\ \A i \in 1 .. h + 3 : d[i] = b[i]
  <2>1. /\ d \in Seq(Words) /\ Len(d) = Len(c) + Len(stub)
        /\ \A i \in 1 .. Len(c) : d[i] = c[i]
    <3>1. OnTop(c, stub, d)
      BY ONLY <1>3, <1>8, Pushed, Zenon DEF d
    <3>2. QED
      BY ONLY <3>1 DEF OnTop
  <2>2. h \in Nat /\ h + 3 =< Len(c)
    BY <1>1, <1>3, <1>8
  <2>3. QED
    BY <1>3, <1>8, <2>1, <2>2
<1>10. /\ e \in Seq(Words) /\ Len(e) = h + 5
       /\ \A i \in 1 .. h + 4 : e[i] = d[i]
       /\ e[h + 5] = Word("vector", "stub", v)
  <2>1. /\ e \in Seq(Words) /\ Len(e) = h + 4 + 1
        /\ \A i \in 1 .. h + 4 : e[i] = d[i]
        /\ \A i \in 1 .. 1 : e[h + 4 + i] = vector[i]
    <3>1. OnTop(d, vector, e)
      BY ONLY <1>2, <1>9, Pushed, Zenon DEF e
    <3>2. QED
      BY ONLY <1>0, <1>2, <1>9, <3>1 DEF OnTop
  <2>2. h + 4 + 1 = h + 5 /\ vector[1] = Word("vector", "stub", v)
    BY <1>1 DEF vector
  <2>3. QED
    BY <2>1, <2>2
<1>11. /\ f \in Seq(Words) /\ Len(f) = h + 6
       /\ \A i \in 1 .. h + 5 : f[i] = e[i]
       /\ f[h + 6] = Word("esp", "stub", h + 5)
  <2>1. h \in Nat /\ Word("esp", "stub", h + 5) \in Words
    BY <1>1, WordParts
  <2>2. /\ esp(h + 5) \in Seq(Words) /\ Len(esp(h + 5)) = 1
        /\ esp(h + 5)[1] = Word("esp", "stub", h + 5)
    BY <2>1
  <2>3. f = e \o esp(h + 5)
    BY <1>10 DEF f
  <2> HIDE DEF esp
  <2>4. /\ f \in Seq(Words) /\ Len(f) = h + 5 + 1
        /\ \A i \in 1 .. h + 5 : f[i] = e[i]
        /\ \A i \in 1 .. 1 : f[h + 5 + i] = esp(h + 5)[i]
    <3>1. OnTop(e, esp(h + 5), f)
      BY ONLY <1>10, <2>2, <2>3, Pushed, Zenon
    <3>2. QED
      BY ONLY <1>0, <1>10, <2>2, <3>1 DEF OnTop
  <2>5. QED
    BY <2>1, <2>2, <2>4
<1>12. /\ k \in Seq(Words) /\ Len(k) = h + 11
       /\ \A i \in 1 .. h + 6 : k[i] = f[i]
       /\ \A j \in 1 .. 5 : k[h + 6 + j] = five[j]
  <2>1. /\ k \in Seq(Words) /\ Len(k) = h + 6 + 5
        /\ \A i \in 1 .. h + 6 : k[i] = f[i]
        /\ \A j \in 1 .. 5 : k[h + 6 + j] = five[j]
    <3>1. OnTop(f, five, k)
      BY ONLY <1>4, <1>5, <1>11, Pushed, Zenon
    <3>2. QED
      BY ONLY <1>0, <1>4, <1>11, <3>1 DEF OnTop
  <2>2. h + 6 + 5 = h + 11
    BY ONLY <1>0
  <2>3. QED
    BY ONLY <2>1, <2>2
<1>13. /\ three[1] = Word("eflags", pc, 1) /\ three[2] = Word("cs", pc, cpl)
       /\ three[3] = Word("eip", pc, 0)
       /\ \A j \in 1 .. 5 : five[j] = r[Saved[j]]
  BY DEF three, five
<1>14. \A i \in 1 .. h + 3 : k[i] = b[i]
  <2>1. \A i \in 1 .. h + 3 : /\ i \in 1 .. h + 4 /\ i \in 1 .. h + 5
                              /\ i \in 1 .. h + 6
    BY ONLY <1>0
  <2>2. QED
    BY ONLY <1>9, <1>10, <1>11, <1>12, <2>1, Zenon
<1>15. /\ k[h + 1] = three[1] /\ k[h + 2] = three[2] /\ k[h + 3] = three[3]
       /\ k[h + 5] = e[h + 5] /\ k[h + 6] = f[h + 6]
  <2>1. /\ h + 1 \in 1 .. h + 3 /\ h + 2 \in 1 .. h + 3 /\ h + 3 \in 1 .. h + 3
        /\ h + 5 \in 1 .. h + 5 /\ h + 5 \in 1 .. h + 6 /\ h + 6 \in 1 .. h + 6
        /\ 1 \in 1 .. 3 /\ 2 \in 1 .. 3 /\ 3 \in 1 .. 3
    BY ONLY <1>0
  <2>2. \A i \in 1 .. 3 : b[h + i] = three[i]
    BY ONLY <1>7
  <2>3. \A i \in 1 .. h + 5 : f[i] = e[i]
    BY ONLY <1>11
  <2>4. \A i \in 1 .. h + 6 : k[i] = f[i]
    BY ONLY <1>12
  <2>5. k[h + 1] = three[1]
    BY ONLY <1>14, <2>1, <2>2, Zenon
  <2>6. k[h + 2] = three[2]
    BY ONLY <1>14, <2>1, <2>2, Zenon
  <2>7. k[h + 3] = three[3]
    BY ONLY <1>14, <2>1, <2>2, Zenon
  <2>8. k[h + 5] = e[h + 5]
    BY ONLY <2>1, <2>3, <2>4, Zenon
  <2>9. k[h + 6] = f[h + 6]
    BY ONLY <2>1, <2>4, Zenon
  <2>10. QED
    BY ONLY <2>5, <2>6, <2>7, <2>8, <2>9
<1>16. \A i \in 1 .. n : k[i] = kstack[i]
  BY ONLY <1>0, <1>1, <1>6, <1>7, <1>14
<1>17. QED
  BY <1>10, <1>11, <1>12, <1>13, <1>15, <1>16 DEF Entered

-----------------------------------------------------------------------------
(* What is interrupted.                                                    *)

\* What lies below stays below, whatever comes on top.
LEMMA BelowStays ==
    ASSUME NEW k, NEW l, NEW who, Below(k, who),
           \A i \in 1 .. Left(who) : l[i] = k[i]
    PROVE  Below(l, who)
<1>1. CASE who = "iret"
  <2>1. l[4] = k[4] /\ l[5] = k[5] /\ l[6] = k[6]
    BY <1>1 DEF Left, Height
  <2>2. QED
    BY <1>1, <2>1 DEF Below, CpuWords
<1>2. CASE who \in {"exit", "wait"}
  <2>1. /\ l[4] = k[4] /\ l[5] = k[5] /\ l[6] = k[6] /\ l[9] = k[9]
        /\ \A j \in 1 .. 5 : l[9 + j] = k[9 + j]
        /\ who = "wait" => l[15] = k[15]
    BY <1>2 DEF Left, Height
  <2>2. QED
    BY <1>2, <2>1 DEF Below, EntryWords, CpuWords
<1>3. CASE who \notin {"iret", "exit", "wait"}
  BY <1>3 DEF Below
<1>4. QED
  BY <1>1, <1>2, <1>3

\* Where interrupts are enabled, the stack is that of the code that runs.
LEMMA WhatRuns ==
    ASSUME NEW who, Inv(who), ints
    PROVE  /\ pc \in Interruptible /\ Stage(pc) = Stage(who)
           /\ Len(kstack) = Left(pc) /\ Below(kstack, pc)
           /\ RegsOf(Owner(pc))
<1>1. CASE Runs(who)
  BY <1>1 DEF Runs, Interruptible, Owner, Boot, NoIdt, NoRemap, NoGdt, Inv
<1>2. CASE Handled(who)
  BY <1>2 DEF Handled, Interruptible, Owner, Boot, NoIdt, NoRemap, NoGdt,
              Below, Left, Height, Stage
<1>3. CASE Returning(who)
  BY <1>3 DEF Returning, Interruptible, Owner, Boot, NoIdt, NoRemap, NoGdt,
              Below, Left, Height, Stage
<1>4. QED
  BY <1>1, <1>2, <1>3 DEF Inv, StackInv

\* What an interrupt needs is there.
LEMMA GateIsThere ==
    ASSUME NEW who, Inv(who), ints, NEW v \in Gates PROVE Deliverable(v)
<1>1. /\ pc \in Interruptible /\ Stage(pc) = Stage(who)
  BY WhatRuns
<1>2. Stage(pc) \notin NoIdt
  BY <1>1 DEF Interruptible, Stage, Boot, NoIdt, NoRemap, NoGdt
<1>3. tables.gdt /\ tables.idt
  BY <1>1, <1>2 DEF Inv, TablesInv, NoIdt, NoRemap
<1>4. Dpl(Gate(v).segment) = 0
  BY DEF Dpl, Gate, KernelCode, UserCode, UserData
<1>5. \A e \in Translations("kernel") : e.frame = KernelFrame
  <2>1. "kernel" \in Pages /\ dir["kernel"] = Mapping(FALSE, KernelFrame)
    BY DEF Inv, MemoryInv, Pages
  <2>2. tlb["kernel"] \in {dir["kernel"], NotPresent}
    BY <2>1 DEF Inv, MemoryInv
  <2>3. QED
    BY <2>1, <2>2 DEF Translations, Mapping, NotPresent, KernelFrame
<1>6. cpl = 3 => tables.tr /\ tables.esp0 = 1
  <2>1. SUFFICES ASSUME cpl = 3 PROVE tables.tr /\ tables.esp0 = 1
    OBVIOUS
  <2>2. pc = "user"
    BY <2>1 DEF Inv, SegmentsInv
  <2>3. Stage(pc) = "user" /\ "user" \notin NoStack
    BY <2>2 DEF Stage, Boot, NoStack, NoPage, NoTr, NoTss, NoIdt, NoRemap, NoGdt
  <2>4. QED
    BY <1>1, <2>3 DEF Inv, TablesInv, NoStack, NoPage
<1>7. QED
  BY <1>3, <1>4, <1>5, <1>6 DEF Deliverable

\* Pages, TLB and frames say the same as long as they stay.
LEMMA MemoryStays ==
    ASSUME NEW s, MemoryInv(s), UNCHANGED <<dir, tlb, frames>>
    PROVE  MemoryInv(s)'
  BY DEF MemoryInv

\* The kernel's registers, whoever runs.
LEMMA OfValues ==
    ASSUME NEW x \in Control
    PROVE  /\ Of(x) \in [Registers -> Values]
           /\ \A r \in Registers : ValueOf(Of(x)[r], r, x)
<1>1. \A r \in Registers : Word(r, x, 0) \in Values
  BY DEF Values, Word
<1>2. QED
  BY <1>1 DEF Of, ValueOf, Word

\* Whatever is interrupted, its words are on the stack and the handler runs.
LEMMA EnterKeeps ==
    ASSUME NEW who, Inv(who), ints, NEW x, x = pc,
           NEW exception \in BOOLEAN, NEW v \in Gates,
           exception \/ v \notin ErrorCodes, v = SystemCall => x = "user",
           NEW r \in [Registers -> Values],
           \A g \in Registers : ValueOf(r[g], g, Owner(x)),
           Enter(exception, v, r), inService' \subseteq Lines
    PROVE  Inv(x)'
<1>1. /\ x \in Interruptible /\ Stage(x) = Stage(who)
      /\ Len(kstack) = Left(x) /\ Below(kstack, x)
  BY WhatRuns
<1>2. /\ kstack' = Stub(v, CpuFrame(exception, v), r)
      /\ pc' = "handler" /\ cpl' = 0 /\ ints' = FALSE /\ regs' = Of("handler")
      /\ UNCHANGED <<ds, memory, tables, inDriver, on>>
  BY GateIsThere DEF Enter, Gate
<1>3. /\ kstack \in Seq(Words) /\ kstack[1] = Word("frame", "kernel_setup", 0)
      /\ cpl = IF x = "user" THEN 3 ELSE 0
      /\ x = "user" => tables.esp0 = 1
  <2>1. x = "user" => Stage(x) = "user"
    BY DEF Stage, Boot
  <2>2. "user" \notin NoStack
    BY DEF NoStack, NoPage, NoTr, NoTss, NoIdt, NoRemap, NoGdt
  <2>3. QED
    BY <1>1, <2>1, <2>2 DEF Inv, StackInv, SegmentsInv, TablesInv
<1>4. Height(x) = Len(kstack) + (IF cpl = 3 THEN 2 ELSE 0) /\ Height(x) \in Nat
      /\ 1 =< Left(x)
  BY <1>1, <1>3 DEF Left, Height
<1>5. x \in Control /\ v \in Nat /\ "handler" \in Control
  BY <1>1 DEF Interruptible, Control, Gates
<1>6. /\ kstack' \in Seq(Words) /\ Len(kstack') = Height(x) + 11
      /\ \A i \in 1 .. Len(kstack) : kstack'[i] = kstack[i]
      /\ kstack'[Height(x) + 1] = Word("eflags", x, 1)
      /\ kstack'[Height(x) + 2] = Word("cs", x, cpl)
      /\ kstack'[Height(x) + 3] = Word("eip", x, 0)
      /\ kstack'[Height(x) + 5] = Word("vector", "stub", v)
      /\ kstack'[Height(x) + 6] = Word("esp", "stub", Height(x) + 5)
      /\ \A j \in 1 .. 5 : kstack'[Height(x) + 6 + j] = r[Saved[j]]
  <2>1. cpl = 3 => tables.esp0 = Len(kstack)
    BY <1>1, <1>3 DEF Left
  <2>2. cpl \in {0, 3} /\ ints = TRUE
    BY <1>3 DEF Inv
  <2>3. exception \/ v \notin ErrorCodes
    OBVIOUS
  <2>4. x = pc
    OBVIOUS
  <2>5. Entered(Stub(v, CpuFrame(exception, v), r), Height(x), v, r)
    BY ONLY <1>3, <1>4, <1>5, <2>1, <2>2, <2>3, <2>4, StackEntered, Zenon
  <2>6. QED
    BY ONLY <1>2, <2>4, <2>5 DEF Entered
<1>7. Below(kstack', x)
  BY <1>1, <1>6, BelowStays
<1>8. EntryWords(kstack', Height(x), x)
  <2>1. \A j \in 1 .. 5 : Saved[j] \in Registers
    BY DEF Saved, Registers
  <2>2. QED
    BY <1>3, <1>6, <2>1 DEF EntryWords, CpuWords
<1>9. IntNumber' = v
  <2>1. Len(kstack') - 6 = Height(x) + 5
    BY <1>4, <1>6
  <2>2. Word("vector", "stub", v)[3] = v
    BY DEF Word
  <2>3. QED
    BY <1>6, <2>1, <2>2 DEF IntNumber
<1>10. Handled(x)'
  <2>1. pc' = "handler" /\ ~ ints' /\ Len(kstack') = Height(x) + 11
    BY <1>2, <1>6
  <2>2. IntNumber' = SystemCall => x = "user"
    BY <1>1, <1>9
  <2>3. QED
    BY ONLY <1>1, <1>7, <1>8, <2>1, <2>2 DEF Handled
<1>11. kstack'[1] = kstack[1]
  BY <1>1, <1>4, <1>6
<1>12. QED
  <2>1. pc # "driver"
    BY <1>1 DEF Interruptible, Boot
  <2>2. DriverInv(Stage(x))' /\ SegmentsInv(Stage(x))'
    BY <1>1, <1>2, <2>1 DEF Inv, DriverInv, SegmentsInv
  <2>3. TablesInv(Stage(x))' /\ MemoryInv(Stage(x))'
    <3>1. UNCHANGED <<dir, tlb, frames>> /\ tables' = tables /\ Stage(x) = Stage(who)
      BY ONLY <1>1, <1>2 DEF memory
    <3>2. TablesInv(Stage(x)) /\ MemoryInv(Stage(x))
      BY <3>1 DEF Inv
    <3>3. TablesInv(Stage(x))'
      BY ONLY <3>1, <3>2 DEF TablesInv
    <3>4. QED
      BY ONLY <3>1, <3>2, <3>3, MemoryStays
  <2>4. StackInv(x)'
    BY <1>3, <1>6, <1>10, <1>11 DEF StackInv
  <2>5. regs' \in [Registers -> Values]
    BY <1>2, <1>5, OfValues
  <2>6. QED
    BY <1>2, <2>2, <2>3, <2>4, <2>5 DEF Inv

\* The program runs with interrupts enabled.
LEMMA UserRuns ==
    ASSUME NEW who, Inv(who), pc = "user"
    PROVE  /\ who = "user" /\ Runs("user") /\ ints /\ cpl = 3
           /\ RegsOf("user")
<1>1. who = "user" /\ Runs("user")
  BY DEF Inv, StackInv, Runs, Handled, Returning
<1>2. "user" \notin NoIdt
  BY DEF NoIdt, NoRemap, NoGdt
<1>3. QED
  BY <1>1, <1>2 DEF Runs, Inv, SegmentsInv

LEMMA LineInterruptKeeps ==
    ASSUME NEW who, Inv(who), NEW l \in Lines, LineInterrupt(l)
    PROVE  IInv'
<1> DEFINE v == tables.picBase + l
<1>1. /\ ints /\ inService' = inService \cup {l}
      /\ Enter(FALSE, v, regs)
  BY DEF LineInterrupt
<1>2. /\ pc \in Interruptible /\ Stage(pc) = Stage(who)
      /\ RegsOf(Owner(pc))
  BY <1>1, WhatRuns
<1>3. Stage(pc) \notin NoRemap
  BY <1>2 DEF Interruptible, Stage, Boot, NoIdt, NoRemap, NoGdt
<1>4. v \in 32 .. 39
  BY <1>2, <1>3, ProcessorAssumption DEF Inv, TablesInv
<1>5. v \in Gates /\ v \notin ErrorCodes /\ v # SystemCall
  BY <1>4 DEF Gates, ErrorCodes, SystemCall
<1>6. inService' \subseteq Lines /\ regs \in [Registers -> Values]
  BY <1>1 DEF Inv
<1> HIDE DEF v
<1>7. \A x : x = pc => Inv(x)'
  BY <1>1, <1>2, <1>5, <1>6, EnterKeeps DEF RegsOf
<1>8. pc \in Control
  BY <1>2 DEF Interruptible, Control
<1>9. QED
  BY <1>7, <1>8 DEF IInv

LEMMA UserExceptionKeeps ==
    ASSUME NEW who, Inv(who), NEW v \in 0 .. 31, UserException(v)
    PROVE  IInv'
<1>1. /\ pc = "user" /\ Enter(TRUE, v, regs) /\ inService' = inService
  BY DEF UserException
<1>2. ints /\ RegsOf("user")
  BY <1>1, UserRuns
<1>3. v \in Gates /\ v # SystemCall
  BY DEF Gates, SystemCall
<1>4. inService' \subseteq Lines /\ regs \in [Registers -> Values]
  BY <1>1 DEF Inv
<1>5. \A x : x = pc => Inv(x)'
  BY <1>1, <1>2, <1>3, <1>4, EnterKeeps DEF RegsOf, Owner
<1>6. QED
  BY <1>1, <1>5 DEF IInv, Control

LEMMA UserIntKeeps ==
    ASSUME NEW who, Inv(who), NEW v \in IntVectors, NEW n \in CallNumbers,
           UserInt(v, n)
    PROVE  IInv'
<1>1. CASE ~ (Gate(v).dpl >= cpl)
  <2>1. UserException(13)
    BY <1>1 DEF UserInt, GeneralProtection
  <2>2. QED
    BY <2>1, UserExceptionKeeps
<1>2. CASE Gate(v).dpl >= cpl
  <2> DEFINE r == [regs EXCEPT !["eax"] = Word("eax", "user", n)]
  <2>1. /\ pc = "user" /\ Enter(FALSE, v, r) /\ inService' = inService
    BY <1>2 DEF UserInt
  <2>2. ints /\ RegsOf("user") /\ cpl = 3
    BY <2>1, UserRuns
  <2>3. v \in 48 .. 63
    <3>1. v \in 0 .. 255 /\ Gate(v).dpl >= 3
      BY <1>2, <2>2, ProcessorAssumption
    <3>2. QED
      BY <3>1 DEF Gate
  <2>4. v \in Gates /\ v \notin ErrorCodes
    BY <2>3 DEF Gates, ErrorCodes
  <2>5. inService' \subseteq Lines /\ regs \in [Registers -> Values]
    BY <2>1 DEF Inv
  <2>6. ValueOf(Word("eax", "user", n), "eax", "user")
    BY DEF ValueOf, Word, Values, Registers, Control
  <2>7. /\ r \in [Registers -> Values]
        /\ \A g \in Registers : ValueOf(r[g], g, "user")
    BY <2>2, <2>5, <2>6 DEF RegsOf, ValueOf
  <2> HIDE DEF r
  <2>8. \A x : x = pc => Inv(x)'
    BY <2>1, <2>2, <2>4, <2>5, <2>7, EnterKeeps DEF Owner
  <2>9. QED
    BY <2>1, <2>8 DEF IInv, Control
<1>3. QED
  BY <1>1, <1>2

\* What the entry of the first page is at each stage.
LEMMA LowStages ==
    /\ \A s \in {"loader", "identity", "higher"} :
            Low(s) = Mapping(FALSE, KernelFrame) /\ Stale(s) = NotPresent
    /\ Low("invalidate") = NotPresent
    /\ Stale("invalidate") = Mapping(FALSE, KernelFrame)
    /\ \A s \in {"setup", "remap", "idt", "mask", "mount", "mounting", "tss", "ltr",
                 "allocate"} :
            Low(s) = NotPresent /\ Stale(s) = NotPresent
    /\ Low("address") = Mapping(TRUE, KernelFrame) /\ Stale("address") = NotPresent
    /\ Low("flush") = Mapping(TRUE, LastAvailableFrame)
    /\ Stale("flush") = Mapping(TRUE, KernelFrame)
    /\ \A s \in {"load", "loading", "stack", "execute", "user"} :
            Low(s) = Mapping(TRUE, LastAvailableFrame) /\ Stale(s) = NotPresent
  BY DEF Low, Stale, NoPage, NoTr, NoTss, NoIdt, NoRemap, NoGdt

LEMMA LowValues ==
    \A s : {Low(s), Stale(s)} \subseteq {NotPresent, Mapping(FALSE, KernelFrame),
                Mapping(TRUE, KernelFrame), Mapping(TRUE, LastAvailableFrame)}
  BY DEF Low, Stale

LEMMA EntryValues ==
    {NotPresent, Mapping(FALSE, KernelFrame), Mapping(TRUE, KernelFrame),
     Mapping(TRUE, LastAvailableFrame)} \subseteq Entries
  BY DEF Entries, NotPresent, Mapping, KernelFrame, LastAvailableFrame

\* The entries, one by one.
LEMMA MemoryParts ==
    ASSUME NEW s, MemoryInv(s)
    PROVE  /\ dir["low"] = Low(s) /\ dir["kernel"] = Mapping(FALSE, KernelFrame)
           /\ dir["other"] = NotPresent
           /\ tlb["low"] \in {Low(s), NotPresent, Stale(s)}
           /\ tlb["kernel"] \in {Mapping(FALSE, KernelFrame), NotPresent}
           /\ tlb["other"] = NotPresent
           /\ Pages = {"low", "kernel", "other"}
<1>1. "low" \in Pages /\ "kernel" \in Pages /\ "other" \in Pages
  BY DEF Pages
<1>2. /\ dir["low"] = Low(s) /\ dir["kernel"] = Mapping(FALSE, KernelFrame)
      /\ dir["other"] = NotPresent
  BY <1>1 DEF MemoryInv
<1>3. /\ tlb["low"] \in {dir["low"], NotPresent, Stale(s)}
      /\ tlb["kernel"] \in {dir["kernel"], NotPresent}
      /\ tlb["other"] \in {dir["other"], NotPresent}
  BY <1>1 DEF MemoryInv
<1>4. QED
  BY <1>2, <1>3 DEF Pages

\* The stages with the same entry.
LEMMA MemoryMoves ==
    ASSUME NEW a, NEW b, Low(a) = Low(b), Stale(a) = Stale(b)
    PROVE  MemoryInv(a) => MemoryInv(b)
  BY DEF MemoryInv

\* When the entry is not being changed, the page is in the frame after the
\* kernel's, or nowhere.
LEMMA PageIsThere ==
    ASSUME NEW s \in {"load", "loading", "stack", "execute", "user"}, MemoryInv(s)
    PROVE  /\ Translations("low") = {Mapping(TRUE, LastAvailableFrame)}
           /\ \A to : Reached("low", to) = to
<1>1. /\ Mapping(TRUE, LastAvailableFrame).present /\ ~ NotPresent.present
  BY DEF Mapping, NotPresent
<1>2. /\ dir["low"] = Mapping(TRUE, LastAvailableFrame)
      /\ tlb["low"] \in {Mapping(TRUE, LastAvailableFrame), NotPresent}
  BY LowStages, MemoryParts
<1>3. Translations("low") = {Mapping(TRUE, LastAvailableFrame)}
  BY <1>1, <1>2 DEF Translations
<1>4. QED
  BY <1>3 DEF Reached

\* So no write through it reaches the kernel's frame.
LEMMA FillKeeps ==
    ASSUME NEW s \in {"load", "loading", "stack", "execute", "user"}, MemoryInv(s),
           NEW content \in {"shell", "user"}, Fill("low", content)
    PROVE  /\ frames' \in [0 .. 1 -> {"kernel", "free", "shell", "user"}]
           /\ frames'[KernelFrame] = "kernel"
<1>1. Translations("low") = {Mapping(TRUE, LastAvailableFrame)}
  BY PageIsThere
<1>2. Mapping(TRUE, LastAvailableFrame).frame = 1
  BY DEF Mapping, LastAvailableFrame
<1>3. frames' = [frames EXCEPT ![1] = content]
  BY <1>1, <1>2 DEF Fill
<1>4. QED
  BY <1>3 DEF MemoryInv, KernelFrame

\* What a program points at that passes pointers to its own page is there.
LEMMA BufferIsThere ==
    ASSUME MemoryInv("user"), OwnBuffers, NEW p \in Buffers
    PROVE  p = "low" /\ \A to : Reached(p, to) = to
  BY PageIsThere DEF OwnBuffers

\* A step that leaves the stack and who runs alone.
LEMMA SameStack ==
    ASSUME NEW who, Inv(who), NEW s, s = Stage(who),
           UNCHANGED <<pc, cpl, ints, regs, ds, kstack, tables, inService, inDriver>>,
           MemoryInv(s)'
    PROVE  Inv(who)'
<1>1. StackInv(who)'
  BY DEF Inv, StackInv, Runs, Handled, Returning, IntNumber, RegsOf
<1>2. QED
  BY <1>1 DEF Inv, TablesInv, DriverInv, SegmentsInv

LEMMA UserAccessKeeps ==
    ASSUME NEW who \in Control, Inv(who), NEW p \in Pages, UserAccess(p)
    PROVE  IInv'
<1>1. CASE UserException(PageFault)
  BY <1>1, UserExceptionKeeps DEF PageFault
<1>2. CASE ~ UserException(PageFault)
  <2>1. /\ \E e \in Translations(p) : e.user
        /\ pc = "user" /\ (Fill(p, "user") \/ frames' = frames)
        /\ UNCHANGED <<pc, cpl, ints, regs, ds, kstack, dir, tlb, tables,
                       inService, inDriver, on>>
    BY <1>2 DEF UserAccess
  <2>2. who = "user" /\ Stage(who) = "user"
    BY <2>1, UserRuns DEF Stage, Boot
  <2>3. MemoryInv("user")
    BY <2>2 DEF Inv
  <2>4. p = "low"
    <3>1. dir["kernel"] = Mapping(FALSE, KernelFrame) /\ dir["other"] = NotPresent
      BY <2>3 DEF MemoryInv, Pages
    <3>2. QED
      BY <2>1, <2>3, <3>1 DEF Translations, MemoryInv, NotPresent, Mapping, Pages
  <2>5. MemoryInv("user")'
    <3>1. /\ frames' \in [0 .. 1 -> {"kernel", "free", "shell", "user"}]
          /\ frames'[KernelFrame] = "kernel"
      BY <2>1, <2>3, <2>4, FillKeeps DEF MemoryInv
    <3>2. QED
      BY <2>1, <2>3, <3>1 DEF MemoryInv
  <2>6. Inv(who)'
    BY <2>1, <2>2, <2>5, SameStack
  <2>7. QED
    BY <2>6 DEF IInv
<1>3. QED
  BY <1>1, <1>2

LEMMA CacheMappingKeeps ==
    ASSUME NEW who \in Control, Inv(who), NEW p \in Pages, CacheMapping(p)
    PROVE  IInv'
<1> DEFINE s == Stage(who)
<1>1. MemoryInv(s)
  BY DEF Inv
<1> HIDE DEF s
<1>2. /\ tlb' \in {[tlb EXCEPT ![p] = dir[p]], [tlb EXCEPT ![p] = NotPresent]}
      /\ UNCHANGED <<pc, cpl, ints, regs, ds, kstack, dir, frames, tables,
                     inService, inDriver, on>>
  BY DEF CacheMapping
<1>3. dir[p] \in Entries /\ NotPresent \in Entries
  <2>1. dir[p] \in {Low(s), Mapping(FALSE, KernelFrame), NotPresent}
    BY <1>1, MemoryParts
  <2>2. dir[p] \in {NotPresent, Mapping(FALSE, KernelFrame),
                     Mapping(TRUE, KernelFrame), Mapping(TRUE, LastAvailableFrame)}
    BY <2>1, LowValues
  <2>3. QED
    BY <2>2, EntryValues
<1>4. /\ tlb' \in [Pages -> Entries]
      /\ \A q \in Pages : \/ tlb'[q] \in {dir[q], NotPresent}
                          \/ q = "low" /\ tlb'[q] = Stale(s)
  BY <1>1, <1>2, <1>3 DEF MemoryInv
<1>5. MemoryInv(s)'
  BY <1>1, <1>2, <1>4 DEF MemoryInv
<1>6. Inv(who)'
  BY <1>2, <1>5, SameStack DEF s
<1>7. QED
  BY <1>6 DEF IInv

-----------------------------------------------------------------------------
(* The start.                                                              *)

LEMMA StageNames ==
    /\ \A s \in Boot \cup {"user"} : Stage(s) = s /\ Left(s) = 1 /\ Owner(s) = s
    /\ NoStack \subseteq Boot /\ "execute" \in Boot
  BY DEF Stage, Left, Height, Owner, Boot, NoStack, NoPage, NoTr, NoTss, NoIdt,
         NoRemap, NoGdt

\* What is known before a step of the start.
LEMMA BootBefore ==
    ASSUME NEW who, Inv(who), pc \in Boot
    PROVE  /\ who = pc /\ Runs(pc)
           /\ TablesInv(pc) /\ MemoryInv(pc) /\ DriverInv(pc) /\ SegmentsInv(pc)
           /\ kstack \in Seq(Words) /\ kstack[1] = Word("frame", "kernel_setup", 0)
           /\ Len(kstack) = 1 /\ inService \subseteq Lines
           /\ cpl = 0 /\ ints = (pc \notin NoIdt) /\ ds \in {0, KernelData}
<1>1. who = pc /\ Runs(pc)
  BY DEF Inv, StackInv, Runs, Handled, Returning, Boot
<1>2. pc # "user"
  BY DEF Boot
<1>3. QED
  BY <1>1, <1>2, StageNames DEF Inv, StackInv, SegmentsInv, Runs

\* What has to be shown of one.
LEMMA BootAfter ==
    ASSUME NEW who, Inv(who), NEW from \in Boot, NEW to \in Boot \cup {"user"},
           Step(from, to), ints' = (to \notin NoIdt),
           TablesInv(to)', MemoryInv(to)', DriverInv(to)', SegmentsInv(to)'
    PROVE  IInv'
<1>1. /\ pc = from /\ pc' = to /\ regs' = Of(to)
      /\ UNCHANGED <<kstack, inService, on>>
  BY DEF Step
<1>2. /\ kstack \in Seq(Words) /\ kstack[1] = Word("frame", "kernel_setup", 0)
      /\ Len(kstack) = 1 /\ inService \subseteq Lines
  BY <1>1, BootBefore
<1>3. /\ to \in Control
      /\ to \notin {"iret", "exit", "wait"}
  BY DEF Control, Boot
<1>4. regs' \in [Registers -> Values] /\ RegsOf(to)'
  BY <1>1, <1>3, OfValues DEF RegsOf
<1>5. Runs(to)'
  BY <1>1, <1>2, <1>3, <1>4, StageNames DEF Runs, Below
<1>6. StackInv(to)' /\ inService' \subseteq Lines /\ ints' \in BOOLEAN
  BY <1>1, <1>2, <1>5 DEF StackInv
<1>7. Inv(to)'
  BY <1>4, <1>6, StageNames DEF Inv
<1>8. QED
  BY <1>3, <1>7 DEF IInv

\* Nobody is in the driver, so far as it is not entered.
Quiet == {"loader", "identity", "higher", "invalidate", "setup", "remap", "idt",
          "mask", "mount", "tss", "ltr", "allocate", "address", "flush", "load",
          "stack", "execute", "user"}

LEMMA SetUpKeeps ==
    ASSUME NEW who, Inv(who), NEW from \in Boot, NEW to \in Boot,
           {from, to} \subseteq Quiet, NEW t,
           SetUp(from, to, t), ints' = (to \notin NoIdt), ds' \in {ds, KernelData},
           MemoryInv(from) => MemoryInv(to), TablesInv(to)'
    PROVE  IInv'
<1>1. pc = from /\ pc' = to /\ Step(from, to)
      /\ UNCHANGED <<cpl, dir, tlb, frames, inDriver>>
  BY DEF SetUp, Step, memory
<1>2. MemoryInv(from) /\ DriverInv(from) /\ SegmentsInv(from)
  BY <1>1, BootBefore
<1>3. MemoryInv(to)'
  BY <1>1, <1>2 DEF MemoryInv
<1>4. DriverInv(to)' /\ SegmentsInv(to)'
  BY <1>1, <1>2 DEF DriverInv, SegmentsInv, Quiet, Boot
<1>5. QED
  BY <1>1, <1>3, <1>4, BootAfter

\* The entry of the first page is changed, what it was may stay in the TLB.
LEMMA UpdateEntryKeeps ==
    ASSUME NEW who, Inv(who), NEW from \in Boot, NEW to \in Boot,
           {from, to} \subseteq Quiet, UpdateEntry(from, to, Low(to)),
           Stale(from) = NotPresent, Low(from) \in {NotPresent, Stale(to)},
           (from \in NoIdt) = (to \in NoIdt), TablesInv(from) => TablesInv(to)
    PROVE  IInv'
<1>1. /\ pc = from /\ pc' = to /\ Step(from, to)
      /\ dir' = [dir EXCEPT !["low"] = Low(to)]
      /\ UNCHANGED <<tlb, cpl, ints, ds, frames, tables, inDriver>>
  BY DEF UpdateEntry, Step
<1>2. /\ MemoryInv(from) /\ DriverInv(from) /\ SegmentsInv(from) /\ TablesInv(from)
      /\ ints = (from \notin NoIdt)
  BY <1>1, BootBefore
<1>3. MemoryInv(to)'
  <2>1. tlb["low"] \in {NotPresent, Stale(to)} /\ Pages = {"low", "kernel", "other"}
    BY <1>2, MemoryParts
  <2>2. dir' = [p \in Pages |-> CASE p = "kernel" -> Mapping(FALSE, KernelFrame)
                                  [] p = "other" -> NotPresent
                                  [] OTHER -> Low(to)]
    BY <1>1, <1>2, <2>1 DEF MemoryInv
  <2>3. \A p \in Pages : \/ tlb'[p] \in {dir'[p], NotPresent}
                         \/ p = "low" /\ tlb'[p] = Stale(to)
    BY <1>1, <1>2, <2>1 DEF MemoryInv
  <2>4. QED
    BY <1>1, <1>2, <2>2, <2>3 DEF MemoryInv
<1>4. DriverInv(to)' /\ SegmentsInv(to)'
  BY <1>1, <1>2 DEF DriverInv, SegmentsInv, Quiet, Boot
<1>5. TablesInv(to)'
  BY <1>1, <1>2 DEF TablesInv
<1>6. QED
  BY <1>1, <1>2, <1>3, <1>4, <1>5, BootAfter

\* invlpg: nothing but the entry is left.
LEMMA InvalidateKeeps ==
    ASSUME NEW who, Inv(who), NEW from \in Boot, NEW to \in Boot,
           {from, to} \subseteq Quiet, Invalidate(from, to), Low(from) = Low(to),
           (from \in NoIdt) = (to \in NoIdt), TablesInv(from) => TablesInv(to)
    PROVE  IInv'
<1>1. /\ pc = from /\ pc' = to /\ Step(from, to)
      /\ tlb' = [tlb EXCEPT !["low"] = NotPresent]
      /\ UNCHANGED <<dir, cpl, ints, ds, frames, tables, inDriver>>
  BY DEF Invalidate, Step
<1>2. /\ MemoryInv(from) /\ DriverInv(from) /\ SegmentsInv(from) /\ TablesInv(from)
      /\ ints = (from \notin NoIdt)
  BY <1>1, BootBefore
<1>3. MemoryInv(to)'
  <2>1. NotPresent \in Entries
    BY DEF NotPresent, Entries
  <2>2. \A p \in Pages : tlb'[p] \in {dir'[p], NotPresent}
    BY <1>1, <1>2 DEF MemoryInv
  <2>3. tlb' \in [Pages -> Entries]
    BY <1>1, <1>2, <2>1 DEF MemoryInv
  <2>4. QED
    BY <1>1, <1>2, <2>2, <2>3 DEF MemoryInv
<1>4. DriverInv(to)' /\ SegmentsInv(to)'
  BY <1>1, <1>2 DEF DriverInv, SegmentsInv, Quiet, Boot
<1>5. TablesInv(to)'
  BY <1>1, <1>2 DEF TablesInv
<1>6. QED
  BY <1>1, <1>2, <1>3, <1>4, <1>5, BootAfter

\* The stages of the start, one before the other.
LEMMA StageOrder ==
    /\ \A s \in {"loader", "identity", "higher", "invalidate", "setup"} : s \in NoGdt
    /\ "remap" \in NoRemap \ NoGdt /\ "idt" \in NoIdt \ NoRemap
    /\ \A s \in {"mask", "mount", "mounting", "tss"} : s \in NoTss \ NoIdt
    /\ "ltr" \in NoTr \ NoTss /\ "allocate" \in NoPage \ NoTr
    /\ \A s \in {"address", "flush", "load", "loading", "stack"} :
            s \in NoStack \ NoPage
    /\ \A s \in {"execute", "user"} : s \notin NoStack
    /\ NoGdt \subseteq NoRemap /\ NoRemap \subseteq NoIdt /\ NoIdt \subseteq NoTss
    /\ NoTss \subseteq NoTr /\ NoTr \subseteq NoPage /\ NoPage \subseteq NoStack
  BY DEF NoStack, NoPage, NoTr, NoTss, NoIdt, NoRemap, NoGdt

LEMMA BootSteps ==
    ASSUME NEW who, Inv(who), BootStep
    PROVE  IInv'
<1> USE StageOrder
<1>1. CASE EnablePaging
  <2>1. /\ SetUp("loader", "identity", tables) /\ ints' = ints /\ ds' = ds
        /\ pc = "loader" /\ tables' = tables
    BY <1>1 DEF EnablePaging, SetUp, Step
  <2>2. TablesInv("loader") /\ ints = FALSE
    BY <2>1, BootBefore DEF Boot
  <2>3. TablesInv("identity")'
    BY <2>1, <2>2 DEF TablesInv
  <2>4. MemoryInv("loader") => MemoryInv("identity")
    BY LowStages, MemoryMoves
  <2>5. QED
    BY <2>1, <2>2, <2>3, <2>4, SetUpKeeps DEF Boot, Quiet
<1>2. CASE JumpHigh
  <2>1. /\ pc = "identity" /\ tables' = tables /\ ints' = ints /\ ds' = ds
    BY <1>2 DEF JumpHigh, SetUp, Step
  <2>2. TablesInv("identity") /\ MemoryInv("identity") /\ ints = FALSE
    BY <2>1, BootBefore DEF Boot
  <2>3. Translations("low") # {} /\ Translations("kernel") # {}
    <3>1. /\ dir["low"] = Mapping(FALSE, KernelFrame)
          /\ dir["kernel"] = Mapping(FALSE, KernelFrame)
      BY <2>2, LowStages, MemoryParts
    <3>2. Mapping(FALSE, KernelFrame).present
      BY DEF Mapping
    <3>3. QED
      BY <3>1, <3>2 DEF Translations
  <2>4. SetUp("identity", "higher", tables)
    BY <1>2, <2>3 DEF JumpHigh
  <2>5. TablesInv("higher")'
    BY <2>1, <2>2 DEF TablesInv
  <2>6. MemoryInv("identity") => MemoryInv("higher")
    BY LowStages, MemoryMoves
  <2>7. QED
    BY <2>1, <2>2, <2>4, <2>5, <2>6, SetUpKeeps DEF Boot, Quiet
<1>3. CASE DropIdentity
  <2>1. CASE UpdateEntry("higher", "invalidate", NotPresent)
    <3>1. TablesInv("higher") => TablesInv("invalidate")
      BY DEF TablesInv
    <3>2. /\ UpdateEntry("higher", "invalidate", Low("invalidate"))
          /\ Stale("higher") = NotPresent
          /\ Low("higher") \in {NotPresent, Stale("invalidate")}
      BY <2>1, LowStages
    <3>3. "higher" \in NoIdt /\ "invalidate" \in NoIdt
      OBVIOUS
    <3>4. QED
      BY <3>1, <3>2, <3>3, UpdateEntryKeeps DEF Boot, Quiet
  <2>2. CASE Invalidate("invalidate", "setup")
    <3>1. TablesInv("invalidate") => TablesInv("setup")
      BY DEF TablesInv
    <3>2. QED
      BY <2>2, <3>1, LowStages, InvalidateKeeps DEF Boot, Quiet
  <2>3. QED
    BY <1>3, <2>1, <2>2 DEF DropIdentity
<1>4. CASE EnterProtectedMode
  <2>1. /\ SetUp("setup", "remap", [tables EXCEPT !.gdt = TRUE])
        /\ ints' = FALSE /\ ds' = KernelData
        /\ pc = "setup" /\ tables' = [tables EXCEPT !.gdt = TRUE]
    BY <1>4 DEF EnterProtectedMode, SetUp, Step
  <2>2. TablesInv("setup")
    BY <2>1, BootBefore DEF Boot
  <2>3. TablesInv("remap")'
    BY <2>1, <2>2 DEF TablesInv, TablesType
  <2>4. MemoryInv("setup") => MemoryInv("remap")
    BY LowStages, MemoryMoves
  <2>5. QED
    BY <2>1, <2>3, <2>4, SetUpKeeps DEF Boot, Quiet
<1>5. CASE PicRemap
  <2>1. /\ SetUp("remap", "idt", [tables EXCEPT !.picBase = 32])
        /\ ints' = ints /\ ds' = ds
        /\ pc = "remap" /\ tables' = [tables EXCEPT !.picBase = 32]
    BY <1>5 DEF PicRemap, SetUp, Step
  <2>2. TablesInv("remap") /\ ints = FALSE
    BY <2>1, BootBefore DEF Boot
  <2>3. TablesInv("idt")'
    BY <2>1, <2>2 DEF TablesInv, TablesType
  <2>4. MemoryInv("remap") => MemoryInv("idt")
    BY LowStages, MemoryMoves
  <2>5. /\ "remap" \in Boot /\ "idt" \in Boot /\ {"remap", "idt"} \subseteq Quiet
        /\ ints' = ("idt" \notin NoIdt)
    BY <2>1, <2>2 DEF Boot, Quiet
  <2>6. QED
    BY <2>1, <2>3, <2>4, <2>5, SetUpKeeps
<1>6. CASE InitializeIdt
  <2>1. /\ SetUp("idt", "mask", [tables EXCEPT !.idt = TRUE])
        /\ ints' = TRUE /\ ds' = ds
        /\ pc = "idt" /\ tables' = [tables EXCEPT !.idt = TRUE]
    BY <1>6 DEF InitializeIdt, SetUp, Step
  <2>2. TablesInv("idt")
    BY <2>1, BootBefore DEF Boot
  <2>3. TablesInv("mask")'
    BY <2>1, <2>2 DEF TablesInv, TablesType
  <2>4. MemoryInv("idt") => MemoryInv("mask")
    BY LowStages, MemoryMoves
  <2>5. QED
    BY <2>1, <2>3, <2>4, SetUpKeeps DEF Boot, Quiet
<1>7. CASE ActivateKeyboardInterrupt
  <2>1. /\ SetUp("mask", "mount", [tables EXCEPT !.masked = Lines \ {Keyboard}])
        /\ ints' = ints /\ ds' = ds
        /\ pc = "mask" /\ tables' = [tables EXCEPT !.masked = Lines \ {Keyboard}]
    BY <1>7 DEF ActivateKeyboardInterrupt, SetUp, Step
  <2>2. TablesInv("mask") /\ ints = TRUE
    BY <2>1, BootBefore DEF Boot
  <2>3. TablesInv("mount")'
    BY <2>1, <2>2 DEF TablesInv, TablesType
  <2>4. MemoryInv("mask") => MemoryInv("mount")
    BY LowStages, MemoryMoves
  <2>5. QED
    BY <2>1, <2>2, <2>3, <2>4, SetUpKeeps DEF Boot, Quiet
<1>8. CASE Mount
  <2>1. CASE EnterDriver("mount", "mounting")
    <3>1. /\ Step("mount", "mounting") /\ pc = "mount" /\ pc' = "mounting"
          /\ inDriver' = inDriver \cup {"boot"}
          /\ UNCHANGED <<cpl, ints, ds, dir, tlb, frames, tables>>
      BY <2>1 DEF EnterDriver, Step, memory
    <3>2. /\ TablesInv("mount") /\ MemoryInv("mount") /\ ints = TRUE
          /\ DriverInv("mount") /\ SegmentsInv("mount")
      BY <3>1, BootBefore DEF Boot
    <3>3. TablesInv("mounting")' /\ DriverInv("mounting")' /\ SegmentsInv("mounting")'
          /\ MemoryInv("mounting")'
      <4>1. TablesInv("mounting")'
        BY <3>1, <3>2 DEF TablesInv
      <4>2. DriverInv("mounting")' /\ SegmentsInv("mounting")'
        BY ONLY <3>1, <3>2 DEF DriverInv, SegmentsInv
      <4>3. MemoryInv("mounting")'
        <5>1. MemoryInv("mount") => MemoryInv("mounting")
          BY LowStages, MemoryMoves
        <5>2. QED
          BY ONLY <3>1, <3>2, <5>1, MemoryStays
      <4>4. QED
        BY <4>1, <4>2, <4>3
    <3>4. QED
      BY <3>1, <3>2, <3>3, BootAfter DEF Boot
  <2>2. CASE LeaveDriver("mounting", "tss") /\ UNCHANGED frames
    <3>1. /\ Step("mounting", "tss") /\ pc = "mounting" /\ pc' = "tss"
          /\ inDriver' = inDriver \ {"boot"}
          /\ UNCHANGED <<cpl, ints, ds, dir, tlb, frames, tables>>
      BY <2>2 DEF LeaveDriver, Step
    <3>2. /\ TablesInv("mounting") /\ MemoryInv("mounting") /\ ints = TRUE
          /\ DriverInv("mounting") /\ SegmentsInv("mounting")
      BY <3>1, BootBefore DEF Boot
    <3>3. TablesInv("tss")' /\ DriverInv("tss")' /\ SegmentsInv("tss")'
          /\ MemoryInv("tss")'
      <4>1. TablesInv("tss")'
        BY <3>1, <3>2 DEF TablesInv
      <4>2. DriverInv("tss")' /\ SegmentsInv("tss")'
        BY ONLY <3>1, <3>2 DEF DriverInv, SegmentsInv
      <4>3. MemoryInv("tss")'
        <5>1. MemoryInv("mounting") => MemoryInv("tss")
          BY LowStages, MemoryMoves
        <5>2. QED
          BY ONLY <3>1, <3>2, <5>1, MemoryStays
      <4>4. QED
        BY <4>1, <4>2, <4>3
    <3>4. QED
      BY <3>1, <3>2, <3>3, BootAfter DEF Boot
  <2>3. QED
    BY <1>8, <2>1, <2>2 DEF Mount
<1>9. CASE GdtInstallTss
  <2>1. /\ SetUp("tss", "ltr", [tables EXCEPT !.tssBase = TRUE])
        /\ ints' = ints /\ ds' = ds
        /\ pc = "tss" /\ tables' = [tables EXCEPT !.tssBase = TRUE]
    BY <1>9 DEF GdtInstallTss, SetUp, Step
  <2>2. TablesInv("tss") /\ ints = TRUE
    BY <2>1, BootBefore DEF Boot
  <2>3. TablesInv("ltr")'
    BY <2>1, <2>2 DEF TablesInv, TablesType
  <2>4. MemoryInv("tss") => MemoryInv("ltr")
    BY LowStages, MemoryMoves
  <2>5. QED
    BY <2>1, <2>2, <2>3, <2>4, SetUpKeeps DEF Boot, Quiet
<1>10. CASE SetTssRegister
  <2>1. /\ SetUp("ltr", "allocate", [tables EXCEPT !.tr = tables.tssBase])
        /\ ints' = ints /\ ds' = ds
        /\ pc = "ltr" /\ tables' = [tables EXCEPT !.tr = tables.tssBase]
    BY <1>10 DEF SetTssRegister, SetUp, Step
  <2>2. TablesInv("ltr") /\ ints = TRUE
    BY <2>1, BootBefore DEF Boot
  <2>3. TablesInv("allocate")'
    BY <2>1, <2>2 DEF TablesInv, TablesType
  <2>4. MemoryInv("ltr") => MemoryInv("allocate")
    BY LowStages, MemoryMoves
  <2>5. QED
    BY <2>1, <2>2, <2>3, <2>4, SetUpKeeps DEF Boot, Quiet
<1>11. CASE AllocateFrame \/ SetAddress \/ FlushSingleTlb
  <2>1. CASE AllocateFrame
    <3>1. LastAvailableFrame < FrameLimit
      BY DEF LastAvailableFrame, FrameLimit
    <3>2. UpdateEntry("allocate", "address", Mapping(TRUE, dir["low"].frame))
      BY <2>1, <3>1 DEF AllocateFrame
    <3>3. dir["low"].frame = KernelFrame
      <4>1. MemoryInv("allocate")
        BY <3>2, BootBefore DEF UpdateEntry, Step, Boot
      <4>2. dir["low"] = NotPresent
        BY <4>1, LowStages, MemoryParts
      <4>3. QED
        BY <4>2 DEF NotPresent, KernelFrame
    <3>4. TablesInv("allocate") => TablesInv("address")
      BY DEF TablesInv
    <3>5. UpdateEntry("allocate", "address", Low("address"))
      BY <3>2, <3>3, LowStages
    <3>6. QED
      BY <3>4, <3>5, LowStages, UpdateEntryKeeps DEF Boot, Quiet
  <2>2. CASE SetAddress
    <3> DEFINE e == [present |-> dir["low"].present, user |-> dir["low"].user,
                     frame |-> LastAvailableFrame]
    <3>1. UpdateEntry("address", "flush", e)
      BY <2>2 DEF SetAddress
    <3>2. e = Low("flush")
      <4>1. MemoryInv("address")
        BY <3>1, BootBefore DEF UpdateEntry, Step, Boot
      <4>2. dir["low"] = Mapping(TRUE, KernelFrame)
        BY <4>1, LowStages, MemoryParts
      <4>3. Low("flush") = Mapping(TRUE, LastAvailableFrame)
        BY LowStages
      <4>4. QED
        BY ONLY <4>2, <4>3 DEF Mapping
    <3> HIDE DEF e
    <3>3. TablesInv("address") => TablesInv("flush")
      BY DEF TablesInv
    <3>4. /\ UpdateEntry("address", "flush", Low("flush"))
          /\ Stale("address") = NotPresent
          /\ Low("address") \in {NotPresent, Stale("flush")}
      BY <3>1, <3>2, LowStages
    <3>5. "address" \notin NoIdt /\ "flush" \notin NoIdt
      OBVIOUS
    <3>6. QED
      BY <3>3, <3>4, <3>5, UpdateEntryKeeps DEF Boot, Quiet
  <2>3. CASE FlushSingleTlb
    <3>1. TablesInv("flush") => TablesInv("load")
      BY DEF TablesInv
    <3>2. Invalidate("flush", "load") /\ Low("flush") = Low("load")
      BY <2>3, LowStages DEF FlushSingleTlb
    <3>3. "flush" \notin NoIdt /\ "load" \notin NoIdt
      OBVIOUS
    <3>4. QED
      BY <3>1, <3>2, <3>3, InvalidateKeeps DEF Boot, Quiet
  <2>4. QED
    BY <1>11, <2>1, <2>2, <2>3
<1>12. CASE LoadShell
  <2>1. CASE EnterDriver("load", "loading")
    <3>1. /\ Step("load", "loading") /\ pc = "load" /\ pc' = "loading"
          /\ inDriver' = inDriver \cup {"boot"}
          /\ UNCHANGED <<cpl, ints, ds, dir, tlb, frames, tables>>
      BY <2>1 DEF EnterDriver, Step, memory
    <3>2. /\ TablesInv("load") /\ MemoryInv("load") /\ ints = TRUE
          /\ DriverInv("load") /\ SegmentsInv("load")
      BY <3>1, BootBefore DEF Boot
    <3>3. TablesInv("loading")' /\ DriverInv("loading")' /\ SegmentsInv("loading")'
          /\ MemoryInv("loading")'
      <4>1. TablesInv("loading")'
        BY <3>1, <3>2 DEF TablesInv
      <4>2. DriverInv("loading")' /\ SegmentsInv("loading")'
        BY ONLY <3>1, <3>2 DEF DriverInv, SegmentsInv
      <4>3. MemoryInv("loading")'
        <5>1. MemoryInv("load") => MemoryInv("loading")
          BY LowStages, MemoryMoves
        <5>2. QED
          BY ONLY <3>1, <3>2, <5>1, MemoryStays
      <4>4. QED
        BY <4>1, <4>2, <4>3
    <3>4. QED
      BY <3>1, <3>2, <3>3, BootAfter DEF Boot
  <2>2. CASE ~ EnterDriver("load", "loading")
    <3> DEFINE to == Reached("low", "stack")
    <3>1. /\ LeaveDriver("loading", to) /\ pc = "loading"
          /\ Fill("low", "shell") \/ UNCHANGED frames
      BY <1>12, <2>2 DEF LoadShell, LeaveDriver, Step
    <3>2. /\ TablesInv("loading") /\ MemoryInv("loading") /\ ints = TRUE
          /\ DriverInv("loading") /\ SegmentsInv("loading")
      BY <3>1, BootBefore DEF Boot
    <3>3. to = "stack"
      BY <3>2, PageIsThere
    <3> HIDE DEF to
    <3>4. /\ Step("loading", "stack") /\ pc' = "stack"
          /\ inDriver' = inDriver \ {"boot"}
          /\ UNCHANGED <<cpl, ints, ds, dir, tlb, tables>>
      BY <3>1, <3>3 DEF LeaveDriver, Step
    <3>5. TablesInv("stack")' /\ DriverInv("stack")' /\ SegmentsInv("stack")'
      BY <3>1, <3>2, <3>4 DEF TablesInv, DriverInv, SegmentsInv
    <3>6. /\ frames' \in [0 .. 1 -> {"kernel", "free", "shell", "user"}]
          /\ frames'[KernelFrame] = "kernel"
      BY <3>1, <3>2, FillKeeps DEF MemoryInv
    <3>7. MemoryInv("stack")'
      <4>1. MemoryInv("loading") => MemoryInv("stack")
        BY LowStages, MemoryMoves
      <4>2. dir' = dir /\ tlb' = tlb
        BY <3>4
      <4>3. QED
        BY ONLY <3>2, <3>6, <4>1, <4>2 DEF MemoryInv
    <3>8. QED
      BY <3>2, <3>4, <3>5, <3>7, BootAfter DEF Boot
  <2>3. QED
    BY <2>1, <2>2
<1>13. CASE SetKernelStack
  <2>1. /\ SetUp("stack", "execute", [tables EXCEPT !.esp0 = Len(kstack)])
        /\ ints' = ints /\ ds' = ds
        /\ pc = "stack" /\ tables' = [tables EXCEPT !.esp0 = Len(kstack)]
    BY <1>13 DEF SetKernelStack, SetUp, Step
  <2>2. TablesInv("stack") /\ ints = TRUE /\ Len(kstack) = 1
    BY <2>1, BootBefore DEF Boot
  <2>3. TablesInv("execute")'
    BY <2>1, <2>2 DEF TablesInv, TablesType
  <2>4. MemoryInv("stack") => MemoryInv("execute")
    BY LowStages, MemoryMoves
  <2>5. QED
    BY <2>1, <2>2, <2>3, <2>4, SetUpKeeps DEF Boot, Quiet
<1>14. CASE ExecuteUserProgram
  <2>1. /\ Step("execute", "user") /\ pc = "execute" /\ pc' = "user"
        /\ cpl' = 3 /\ ds' = UserData
        /\ UNCHANGED <<ints, dir, tlb, frames, tables, inDriver>>
    BY <1>14 DEF ExecuteUserProgram, Step, memory
  <2>2. /\ TablesInv("execute") /\ MemoryInv("execute") /\ ints = TRUE
        /\ DriverInv("execute") /\ SegmentsInv("execute")
    BY <2>1, BootBefore DEF Boot
  <2>3. /\ TablesInv("user")' /\ DriverInv("user")' /\ SegmentsInv("user")'
        /\ MemoryInv("user")'
    <3>1. TablesInv("user")'
      BY <2>1, <2>2 DEF TablesInv
    <3>2. DriverInv("user")' /\ SegmentsInv("user")'
      BY ONLY <2>1, <2>2 DEF DriverInv, SegmentsInv
    <3>3. MemoryInv("user")'
      <4>1. MemoryInv("execute") => MemoryInv("user")
        BY LowStages, MemoryMoves
      <4>2. QED
        BY ONLY <2>1, <2>2, <4>1, MemoryStays
    <3>4. QED
      BY <3>1, <3>2, <3>3
  <2>4. QED
    BY <2>1, <2>2, <2>3, BootAfter DEF Boot
<1>15. QED
  BY <1>1, <1>2, <1>3, <1>4, <1>5, <1>6, <1>7, <1>8, <1>9, <1>10, <1>11, <1>12,
     <1>13, <1>14 DEF BootStep

-----------------------------------------------------------------------------
(* The handlers.                                                           *)

LEMMA Heights ==
    /\ Height("user") = 3 /\ Height("iret") = 6 /\ Height("exit") = 14
    /\ Height("wait") = 15 /\ \A s \in Boot : Height(s) = 1
    /\ Left("user") = 1 /\ \A s : s # "user" => Left(s) = Height(s)
    /\ \A s \in Interruptible : Height(s) \in 1 .. 15 /\ Left(s) \in 1 .. Height(s)
  BY DEF Height, Left, Boot, Interruptible

\* What is known inside a handler.
LEMMA HandlerBefore ==
    ASSUME NEW who, Inv(who), pc \in {"handler", "driver", "exit"}
    PROVE  /\ Handled(who) /\ who \in Interruptible /\ who \in Control
           /\ cpl = 0 /\ ints \in BOOLEAN
           /\ pc = "driver" => who = "user"
           /\ ints => pc = "exit" /\ who = "user"
  BY DEF Inv, StackInv, Runs, Handled, Returning, Boot, SegmentsInv,
         Interruptible, Control

\* A handler goes on with the stack as it is.
LEMMA HandlerGoesOn ==
    ASSUME NEW who, Inv(who), Handled(who), pc' \in {"driver", "puts", "exit"},
           pc' = "driver" => who = "user", ints' = FALSE,
           UNCHANGED <<cpl, ds, kstack, dir, tlb, tables>>,
           regs' \in [Registers -> Values], inService' \subseteq Lines,
           MemoryInv(Stage(who))', DriverInv(Stage(who))'
    PROVE  IInv'
<1>1. who \in Interruptible /\ who \in Control
  BY DEF Handled, Interruptible, Control
<1>2. Handled(who)'
  BY DEF Handled
<1>3. StackInv(who)'
  BY <1>2 DEF Inv, StackInv
<1>4. cpl = 0 /\ SegmentsInv(Stage(who))'
  <2>1. pc # "user"
    BY DEF Handled
  <2>2. QED
    BY <2>1 DEF Inv, SegmentsInv
<1>5. TablesInv(Stage(who))'
  BY DEF Inv, TablesInv
<1>6. Inv(who)'
  BY <1>3, <1>4, <1>5 DEF Inv
<1>7. QED
  BY <1>1, <1>6 DEF IInv

\* System call 4 begins to wait.
LEMMA WaitBegins ==
    ASSUME NEW who, Inv(who), pc = "handler", who = "user",
           Goto("wait"), ints' = TRUE, kstack' = Append(kstack, Locals),
           inService' = inService, UNCHANGED <<memory, inDriver>>
    PROVE  IInv'
<1>1. /\ Handled("user") /\ cpl = 0 /\ ds = UserData /\ Stage("user") = "user"
      /\ Stage("wait") = "user" /\ kstack \in Seq(Words)
      /\ kstack[1] = Word("frame", "kernel_setup", 0)
  BY HandlerBefore DEF Inv, StackInv, SegmentsInv, Stage, Boot
<1>2. Len(kstack) = 14 /\ EntryWords(kstack, 3, "user")
  BY <1>1, Heights DEF Handled
<1>3. pc' = "wait" /\ regs' = Of("wait") /\ UNCHANGED <<cpl, ds, tables>>
  BY DEF Goto
<1>4. Locals \in Words
  <2>1. "frame" \in Kinds /\ "syscall" \in Owners
    BY DEF Kinds, Owners
  <2>2. QED
    BY <2>1, WordParts DEF Locals
<1>5. /\ kstack' \in Seq(Words) /\ Len(kstack') = 15 /\ kstack'[15] = Locals
      /\ \A i \in 1 .. 14 : kstack'[i] = kstack[i]
  <2>1. kstack' = Append(kstack, Locals)
    OBVIOUS
  <2>2. OnTop(kstack, <<Locals>>, kstack')
    <3>1. kstack \o <<Locals>> = Append(kstack, Locals)
      BY <1>1, <1>4
    <3>2. <<Locals>> \in Seq(Words)
      BY <1>4
    <3>3. OnTop(kstack, <<Locals>>, kstack \o <<Locals>>)
      BY ONLY <1>1, <3>2, Pushed, Zenon
    <3>4. QED
      BY ONLY <2>1, <3>1, <3>3
  <2>3. Len(<<Locals>>) = 1 /\ <<Locals>>[1] = Locals
    OBVIOUS
  <2>4. QED
    BY ONLY <1>2, <2>2, <2>3 DEF OnTop
<1>6. EntryWords(kstack', 3, "user")
  BY ONLY <1>2, <1>5 DEF EntryWords, CpuWords
<1>7. regs' \in [Registers -> Values] /\ RegsOf("wait")'
  BY <1>3, OfValues DEF RegsOf, Control
<1>8. Runs("wait")'
  <2>1. "wait" \notin NoIdt
    BY DEF NoIdt, NoRemap, NoGdt
  <2>2. QED
    BY <1>3, <1>5, <1>6, <1>7, <2>1, Heights DEF Runs, Below
<1>9. StackInv("wait")'
  BY <1>1, <1>5, <1>8 DEF StackInv
<1>10. /\ TablesInv("user")' /\ MemoryInv("user")' /\ DriverInv("user")'
       /\ SegmentsInv("user")'
  BY <1>1, <1>3 DEF Inv, TablesInv, MemoryInv, DriverInv, SegmentsInv, memory
<1>11. Inv("wait")'
  BY <1>1, <1>7, <1>9, <1>10 DEF Inv
<1>12. QED
  BY <1>11 DEF IInv, Control

LEMMA MainInterruptHandlerKeeps ==
    ASSUME OwnBuffers, NEW who, Inv(who), MainInterruptHandler
    PROVE  IInv'
<1>1. pc = "handler"
  BY DEF MainInterruptHandler
<1>2. /\ Handled(who) /\ ints = FALSE /\ regs \in [Registers -> Values]
      /\ IntNumber = SystemCall => who = "user"
      /\ MemoryInv(Stage(who)) /\ DriverInv(Stage(who)) /\ inService \subseteq Lines
  BY <1>1, HandlerBefore DEF Handled, Inv
<1>3. CASE pc' = "exit" /\ regs' = Of("exit") /\ inService' \subseteq inService
           /\ UNCHANGED <<cpl, ds, tables, ints, kstack, memory, inDriver>>
  <2>1. regs' \in [Registers -> Values]
    BY <1>3, OfValues DEF Control
  <2>2. MemoryInv(Stage(who))' /\ DriverInv(Stage(who))'
    BY <1>1, <1>2, <1>3 DEF MemoryInv, DriverInv, memory
  <2>3. QED
    BY <1>2, <1>3, <2>1, <2>2, HandlerGoesOn DEF memory
<1>4. CASE IntNumber = SystemCall /\ Syscall(CallNumber) /\ UNCHANGED inService
  <2>0. MemoryInv("user")
    BY <1>2, <1>4 DEF Stage, Boot
  <2>1. CASE CallNumber \in {0, 9, 10}
    <3>1. \A p \in Buffers : Reached(p, "driver") = "driver"
      BY <2>0, BufferIsThere
    <3>2. /\ Goto("driver") /\ inDriver' = inDriver \cup {"call"}
          /\ UNCHANGED <<ints, kstack, memory, on>>
      BY <1>4, <2>1, <3>1 DEF Syscall
    <3>3. /\ pc' = "driver" /\ regs' = Of("driver")
          /\ UNCHANGED <<cpl, ds, tables, ints, kstack, dir, tlb, frames, on>>
      BY <3>2 DEF Goto, memory
    <3>4. regs' \in [Registers -> Values]
      BY <3>3, OfValues DEF Control
    <3>5. MemoryInv(Stage(who))' /\ DriverInv(Stage(who))'
      BY <1>1, <1>2, <3>2, <3>3 DEF MemoryInv, DriverInv
    <3>6. QED
      BY <1>2, <1>4, <3>2, <3>3, <3>4, <3>5, HandlerGoesOn
  <2>2. CASE CallNumber = 4
    <3>1. /\ Goto("wait") /\ ints' = TRUE /\ kstack' = Append(kstack, Locals)
          /\ UNCHANGED <<memory, inDriver>>
      BY <1>4, <2>2 DEF Syscall
    <3>2. QED
      BY <1>1, <1>2, <1>4, <3>1, WaitBegins
  <2>3. CASE CallNumber \in {5, 6}
    <3>1. \A p \in Buffers, to \in {"exit", "puts"} : Reached(p, to) = to
      BY <2>0, BufferIsThere
    <3>2. /\ Goto("exit") \/ Goto("puts")
          /\ UNCHANGED <<ints, kstack, memory, inDriver, on>>
      BY <1>4, <2>3, <3>1 DEF Syscall
    <3>3. CASE Goto("exit")
      BY <1>3, <1>4, <3>2, <3>3 DEF Goto
    <3>4. CASE Goto("puts")
      <4>1. /\ pc' = "puts" /\ regs' = Of("puts")
            /\ UNCHANGED <<cpl, ds, tables, ints, kstack, dir, tlb, frames, inDriver>>
        BY <3>2, <3>4 DEF Goto, memory
      <4>2. regs' \in [Registers -> Values]
        BY <4>1, OfValues DEF Control
      <4>3. MemoryInv(Stage(who))' /\ DriverInv(Stage(who))'
        BY <1>1, <1>2, <4>1 DEF MemoryInv, DriverInv
      <4>4. QED
        BY <1>2, <1>4, <4>1, <4>2, <4>3, HandlerGoesOn
    <3>5. QED
      BY <3>2, <3>3, <3>4
  <2>4. CASE CallNumber \notin {0, 4, 5, 6, 9, 10}
    BY <1>3, <1>4, <2>4 DEF Syscall, Goto
  <2>5. QED
    BY <2>1, <2>2, <2>3, <2>4
<1>5. CASE IntNumber = 32 + Keyboard /\ KeyboardIsr("exit")
  BY <1>3, <1>5 DEF KeyboardIsr, Goto
<1>6. CASE /\ Goto("exit")
           /\ UNCHANGED <<ints, kstack, memory, inService, inDriver, on>>
  BY <1>3, <1>6 DEF Goto
<1>7. QED
  BY <1>1, <1>4, <1>5, <1>6 DEF MainInterruptHandler

\* The driver goes on, or returns.
LEMMA DriverKeeps ==
    ASSUME OwnBuffers, NEW who, Inv(who), DriverCopies \/ DriverReturns
    PROVE  IInv'
<1>1. pc = "driver"
  BY DEF DriverCopies, DriverReturns
<1>2. Handled(who) /\ who = "user" /\ ints = FALSE /\ Stage(who) = "user"
  BY <1>1, HandlerBefore DEF Stage, Boot
<1>3. /\ MemoryInv("user") /\ DriverInv("user") /\ regs \in [Registers -> Values]
      /\ inService \subseteq Lines
  BY <1>2 DEF Inv
<1>4. \A p \in Buffers : p = "low" /\ \A to : Reached(p, to) = to
  BY <1>3, BufferIsThere
<1>5. /\ \/ pc' = "driver" /\ inDriver' = inDriver
         \/ pc' = "exit" /\ inDriver' = inDriver \ {"call"}
      /\ Fill("low", "user") \/ UNCHANGED frames
      /\ UNCHANGED <<cpl, ints, regs, ds, kstack, dir, tlb, tables, inService, on>>
  <2>1. CASE DriverCopies
    <3>1. PICK p \in Buffers :
            /\ pc' = Reached(p, "driver")
            /\ IF CallNumber = 0 THEN Fill(p, "user") ELSE UNCHANGED frames
      BY <2>1 DEF DriverCopies
    <3>2. QED
      BY <1>4, <2>1, <3>1 DEF DriverCopies
  <2>2. CASE DriverReturns
    BY <1>4, <2>2 DEF DriverReturns
  <2>3. QED
    BY <2>1, <2>2
<1>6. /\ frames' \in [0 .. 1 -> {"kernel", "free", "shell", "user"}]
      /\ frames'[KernelFrame] = "kernel"
  BY <1>3, <1>5, FillKeeps DEF MemoryInv
<1>7. MemoryInv("user")' /\ DriverInv("user")'
  BY <1>1, <1>3, <1>5, <1>6 DEF MemoryInv, DriverInv
<1>8. QED
  BY <1>2, <1>3, <1>5, <1>7, HandlerGoesOn

LEMMA WaitEndsKeeps ==
    ASSUME OwnBuffers, NEW who, Inv(who), WaitEnds PROVE IInv'
<1>0. MemoryInv("user")
  BY DEF WaitEnds, Inv, StackInv, Runs, Handled, Returning, Stage, Boot
<1>1. /\ pc = "wait" /\ pc' = "exit" /\ Fill("low", "user")
      /\ kstack' = SubSeq(kstack, 1, Len(kstack) - 1)
      /\ regs' = Of("exit")
      /\ UNCHANGED <<cpl, ints, ds, dir, tlb, tables, inService, inDriver, on>>
  <2>1. \A p \in Buffers : p = "low" /\ \A to : Reached(p, to) = to
    BY <1>0, BufferIsThere
  <2>2. QED
    BY <2>1 DEF WaitEnds
<1>2. /\ who = "wait" /\ Runs("wait") /\ ds = UserData /\ cpl = 0
      /\ Stage("wait") = "user" /\ Stage("user") = "user"
      /\ kstack \in Seq(Words) /\ kstack[1] = Word("frame", "kernel_setup", 0)
  <2>1. ~ Handled(who) /\ ~ Returning(who)
    BY <1>1 DEF Handled, Returning
  <2>2. Runs(who)
    BY <2>1 DEF Inv, StackInv
  <2>3. who = "wait"
    BY ONLY <1>1, <2>2 DEF Runs
  <2>4. Stage("wait") = "user" /\ Stage("user") = "user"
    BY DEF Stage, Boot
  <2>5. ds = UserData /\ cpl = 0
    BY <1>1, <2>3, <2>4 DEF Inv, SegmentsInv
  <2>6. kstack \in Seq(Words) /\ kstack[1] = Word("frame", "kernel_setup", 0)
    BY DEF Inv, StackInv
  <2>7. QED
    BY ONLY <2>2, <2>3, <2>4, <2>5, <2>6
<1>3. Len(kstack) = 15 /\ EntryWords(kstack, 3, "user")
  BY <1>2, Heights DEF Runs, Below
<1>4. /\ kstack' \in Seq(Words) /\ Len(kstack') = 14
      /\ \A i \in 1 .. 14 : kstack'[i] = kstack[i]
  <2>1. kstack \in Seq(Words) /\ Len(kstack) = 15
    BY ONLY <1>2, <1>3
  <2>2. 14 \in 0 .. Len(kstack) /\ kstack' = SubSeq(kstack, 1, 14)
    BY ONLY <1>1, <2>1
  <2>3. QED
    BY ONLY <2>1, <2>2, Kept
<1>5. EntryWords(kstack', 3, "user")
  BY ONLY <1>3, <1>4 DEF EntryWords, CpuWords
<1>6. regs' \in [Registers -> Values] /\ RegsOf("exit")'
  BY <1>1, OfValues DEF RegsOf, Control
<1>7. Handled("user")'
  <2>1. Below(kstack', "user") /\ "user" \in Interruptible
    BY DEF Below, Interruptible
  <2>2. Len(kstack') = Height("user") + 11
    BY ONLY <1>4, Heights
  <2>3. EntryWords(kstack', Height("user"), "user")
    BY ONLY <1>5, Heights
  <2>4. pc' = "exit"
    BY <1>1
  <2>5. QED
    BY ONLY <1>6, <2>1, <2>2, <2>3, <2>4 DEF Handled
<1>8. StackInv("user")'
  BY <1>2, <1>4, <1>7 DEF StackInv
<1>9. MemoryInv("user")'
  <2>1. /\ frames' \in [0 .. 1 -> {"kernel", "free", "shell", "user"}]
        /\ frames'[KernelFrame] = "kernel"
    BY <1>0, <1>1, FillKeeps
  <2>2. QED
    BY <1>0, <1>1, <2>1 DEF MemoryInv
<1>10. TablesInv("user")' /\ DriverInv("user")' /\ SegmentsInv("user")'
  BY <1>1, <1>2 DEF Inv, TablesInv, DriverInv, SegmentsInv
<1>11. Inv("user")'
  BY <1>1, <1>2, <1>6, <1>8, <1>9, <1>10 DEF Inv
<1>12. QED
  BY <1>11 DEF IInv, Control

\* Where the pops find what the pushes left.
LEMMA PopFinds ==
    ASSUME NEW g \in Registers, NEW h \in Nat
    PROVE  LET place == CHOOSE k \in 1 .. 5 : PopOrder[k] = g
           IN  \E j \in 1 .. 5 : Saved[j] = g /\ h + 11 + 1 - place = h + 6 + j
<1> DEFINE place == CHOOSE k \in 1 .. 5 : PopOrder[k] = g
<1>1. \E k \in 1 .. 5 : PopOrder[k] = g
  <2>1. /\ PopOrder[1] = "eax" /\ PopOrder[2] = "ebx" /\ PopOrder[3] = "ecx"
        /\ PopOrder[4] = "edx" /\ PopOrder[5] = "ebp"
    BY DEF PopOrder
  <2>2. QED
    BY <2>1 DEF Registers
<1>2. place \in 1 .. 5 /\ PopOrder[place] = g
  BY <1>1
<1> HIDE DEF place
<1>3. \A k \in 1 .. 5 : Saved[6 - k] = PopOrder[k]
  <2>1. \A k \in 1 .. 5 : k = 1 \/ k = 2 \/ k = 3 \/ k = 4 \/ k = 5
    OBVIOUS
  <2>2. QED
    BY <2>1 DEF Saved, PopOrder
<1>4. 6 - place \in 1 .. 5 /\ Saved[6 - place] = g
      /\ h + 11 + 1 - place = h + 6 + (6 - place)
  BY <1>2, <1>3
<1>5. QED
  BY <1>4 DEF place

LEMMA PopRegistersKeeps ==
    ASSUME NEW who, Inv(who), PopRegisters PROVE IInv'
<1> DEFINE n == Len(kstack)
           h == Height(who)
           place(g) == CHOOSE k \in 1 .. 5 : PopOrder[k] = g
<1>1. /\ pc = "exit" /\ pc' = "iret"
      /\ regs' = [g \in Registers |-> kstack[n + 1 - place(g)]]
      /\ kstack' = SubSeq(kstack, 1, kstack[n - 5][3] - 2)
      /\ UNCHANGED <<cpl, ints, ds, dir, tlb, frames, tables, inService, inDriver, on>>
  BY DEF PopRegisters, memory
<1>2. /\ Handled(who) /\ who \in Interruptible /\ who \in Control /\ cpl = 0
      /\ ints => who = "user"
      /\ kstack \in Seq(Words) /\ kstack[1] = Word("frame", "kernel_setup", 0)
  BY <1>1, HandlerBefore DEF Inv, StackInv
<1>3. h \in 1 .. 15 /\ n = h + 11 /\ Left(who) \in 1 .. h
  BY <1>2, Heights DEF Handled
<1>4. EntryWords(kstack, h, who) /\ Below(kstack, who)
  BY <1>2 DEF Handled
<1> HIDE DEF n, h, place
<1>5. kstack[n - 5][3] - 2 = h + 3
  <2>1. n - 5 = h + 6 /\ kstack[h + 6] = Word("esp", "stub", h + 5)
    BY <1>3, <1>4 DEF EntryWords
  <2>2. Word("esp", "stub", h + 5)[3] = h + 5
    BY DEF Word
  <2>3. QED
    BY <1>3, <2>1, <2>2
<1>6. /\ kstack' \in Seq(Words) /\ Len(kstack') = h + 3
      /\ \A i \in 1 .. h + 3 : kstack'[i] = kstack[i]
  BY <1>1, <1>2, <1>3, <1>5, Kept DEF n
<1>7. CpuWords(kstack', h, who)
  BY <1>3, <1>4, <1>6 DEF EntryWords, CpuWords
<1>8. Below(kstack', who)
  <2>1. \A i \in 1 .. Left(who) : kstack'[i] = kstack[i]
    BY <1>3, <1>6
  <2>2. QED
    BY <1>4, <2>1, BelowStays
<1>9. \A g \in Registers : ValueOf(regs'[g], g, Owner(who))
  <2> SUFFICES ASSUME NEW g \in Registers
               PROVE  ValueOf(regs'[g], g, Owner(who))
    OBVIOUS
  <2>1. PICK j \in 1 .. 5 : Saved[j] = g /\ h + 11 + 1 - place(g) = h + 6 + j
    BY <1>3, PopFinds DEF place
  <2>2. regs'[g] = kstack[h + 6 + j]
    BY <1>1, <1>3, <2>1
  <2>3. QED
    BY <1>4, <2>1, <2>2 DEF EntryWords
<1>10. regs' \in [Registers -> Values] /\ RegsOf(Owner(who))'
  BY <1>1, <1>9 DEF RegsOf, ValueOf
<1>11. Returning(who)'
  BY <1>1, <1>2, <1>6, <1>7, <1>8, <1>10 DEF Returning, h
<1>12. kstack'[1] = kstack[1]
  BY <1>3, <1>6
<1>13. StackInv(who)'
  BY <1>2, <1>6, <1>11, <1>12 DEF StackInv
<1>14. /\ TablesInv(Stage(who))' /\ MemoryInv(Stage(who))'
       /\ DriverInv(Stage(who))' /\ SegmentsInv(Stage(who))'
  BY <1>1, <1>2 DEF Inv, TablesInv, MemoryInv, DriverInv, SegmentsInv
<1>15. Inv(who)'
  BY <1>1, <1>10, <1>13, <1>14 DEF Inv
<1>16. QED
  BY <1>2, <1>15 DEF IInv

LEMMA IretKeeps ==
    ASSUME NEW who, Inv(who), Iret PROVE IInv'
<1> DEFINE n == Len(kstack)
           h == Height(who)
<1>1. Returning(who) /\ who \in Interruptible /\ pc = "iret" /\ cpl = 0
  BY DEF Iret, Inv, StackInv, Runs, Handled, Returning, Boot, SegmentsInv
<1>2. /\ kstack \in Seq(Words) /\ kstack[1] = Word("frame", "kernel_setup", 0)
      /\ CpuWords(kstack, h, who) /\ Below(kstack, who) /\ n = h + 3
      /\ h \in 1 .. 15 /\ Left(who) \in 1 .. h
      /\ RegsOf(Owner(who))
  BY <1>1, Heights DEF Inv, StackInv, Returning
<1> HIDE DEF n, h
<1>3. /\ kstack[n][1] = "eip" /\ kstack[n][2] = who
      /\ kstack[n - 1][1] = "cs"
      /\ kstack[n - 1][3] = IF who = "user" THEN 3 ELSE 0
      /\ kstack[n - 2][3] = 1
  <2>1. n = h + 3 /\ n - 1 = h + 2 /\ n - 2 = h + 1
    BY <1>2
  <2>2. QED
    BY <1>2, <2>1 DEF CpuWords, Word
<1>4. /\ pc' = who /\ cpl' = (IF who = "user" THEN 3 ELSE 0) /\ ints' = TRUE
      /\ kstack' = SubSeq(kstack, 1, IF cpl' = 3 THEN n - 5 ELSE n - 3)
      /\ ds' = (IF Dpl(ds) < cpl' THEN 0 ELSE ds)
      /\ UNCHANGED <<regs, dir, tlb, frames, tables, inService, inDriver, on>>
  BY <1>3 DEF Iret, memory, n
<1>5. (IF cpl' = 3 THEN n - 5 ELSE n - 3) = Left(who)
  BY <1>2, <1>4, Heights DEF h
<1>6. /\ kstack' \in Seq(Words) /\ Len(kstack') = Left(who)
      /\ \A i \in 1 .. Left(who) : kstack'[i] = kstack[i]
  <2>1. Left(who) \in 0 .. Len(kstack) /\ kstack' = SubSeq(kstack, 1, Left(who))
    BY <1>2, <1>4, <1>5 DEF n
  <2>2. QED
    BY <1>2, <2>1, Kept
<1>7. Below(kstack', who) /\ kstack'[1] = kstack[1]
  BY <1>2, <1>6, BelowStays
<1>8. RegsOf(Owner(who))' /\ regs' \in [Registers -> Values] /\ inService' \subseteq Lines
  BY <1>2, <1>4 DEF RegsOf, Inv
<1>9. /\ TablesInv(Stage(who))' /\ MemoryInv(Stage(who))' /\ SegmentsInv(Stage(who))'
      /\ DriverInv(Stage(who))'
  <2>1. TablesInv(Stage(who))' /\ MemoryInv(Stage(who))'
    BY <1>4 DEF Inv, TablesInv, MemoryInv
  <2>2. who # "driver"
    BY <1>1 DEF Interruptible, Boot
  <2>3. DriverInv(Stage(who))'
    BY <1>1, <1>4, <2>2 DEF Inv, DriverInv
  <2>4. SegmentsInv(Stage(who))'
    <3>1. CASE who = "user"
      <4>1. ds = UserData /\ Dpl(UserData) = 3
        BY <3>1 DEF Inv, SegmentsInv, Dpl, Stage, Boot
      <4>2. QED
        BY <1>4, <3>1, <4>1 DEF Inv, SegmentsInv
    <3>2. CASE who # "user"
      <4>1. Dpl(ds) \in {0, 3} /\ cpl' = 0
        BY <1>4, <3>2 DEF Dpl
      <4>2. ds' = ds
        BY <1>4, <4>1
      <4>3. QED
        BY <1>4, <3>2, <4>2 DEF Inv, SegmentsInv
    <3>3. QED
      BY <3>1, <3>2
  <2>5. QED
    BY <2>1, <2>3, <2>4
<1>10. CASE who \in (Boot \ NoIdt) \cup {"user", "wait"}
  <2>1. Owner(who) = who /\ who \notin NoIdt /\ who \in Control
    BY <1>10 DEF Owner, Boot, NoIdt, NoRemap, NoGdt, Control
  <2>2. Runs(who)'
    BY <1>4, <1>6, <1>7, <1>8, <1>10, <2>1 DEF Runs
  <2>3. StackInv(who)'
    BY <1>2, <1>6, <1>7, <2>2 DEF StackInv
  <2>4. Inv(who)'
    BY <1>4, <1>8, <1>9, <2>3 DEF Inv
  <2>5. QED
    BY <2>1, <2>4 DEF IInv
<1>11. CASE who \in {"exit", "iret"}
  <2>1. Below(kstack', "user") /\ "user" \in Interruptible /\ Stage("user") = Stage(who)
    BY <1>11 DEF Below, Interruptible, Stage, Boot
  <2>2. CASE who = "exit"
    <3>1. Len(kstack') = Height("user") + 11
      BY <1>6, <2>2, Heights
    <3>2. EntryWords(kstack', Height("user"), "user")
      BY <1>7, <2>2, Heights DEF Below
    <3>3. RegsOf("exit")'
      BY <1>8, <2>2 DEF Owner
    <3>4. pc' = "exit"
      BY <1>4, <2>2
    <3>5. QED
      <4>1. Handled("user")'
        BY ONLY <2>1, <3>1, <3>2, <3>3, <3>4 DEF Handled
      <4>2. StackInv("user")'
        BY <1>2, <1>6, <1>7, <4>1 DEF StackInv
      <4>3. Inv("user")'
        BY <1>4, <1>8, <1>9, <2>1, <4>2 DEF Inv
      <4>4. QED
        BY <4>3 DEF IInv, Control
  <2>3. CASE who = "iret"
    <3>1. Len(kstack') = Height("user") + 3
      BY <1>6, <2>3, Heights
    <3>2. CpuWords(kstack', Height("user"), "user")
      BY <1>7, <2>3, Heights DEF Below
    <3>3. RegsOf(Owner("user"))'
      BY <1>8, <2>3 DEF Owner
    <3>4. pc' = "iret"
      BY <1>4, <2>3
    <3>5. QED
      <4>1. Returning("user")'
        BY ONLY <2>1, <3>1, <3>2, <3>3, <3>4 DEF Returning
      <4>2. StackInv("user")'
        BY <1>2, <1>6, <1>7, <4>1 DEF StackInv
      <4>3. Inv("user")'
        BY <1>4, <1>8, <1>9, <2>1, <4>2 DEF Inv
      <4>4. QED
        BY <4>3 DEF IInv, Control
  <2>4. QED
    BY <1>11, <2>2, <2>3
<1>12. QED
  BY <1>1, <1>10, <1>11 DEF Interruptible

-----------------------------------------------------------------------------
(* The theorems.                                                           *)

LEMMA InitIInv == Init => IInv
<1> SUFFICES ASSUME Init PROVE Inv("loader")
  BY DEF IInv, Control, Boot
<1>1. "loader" \in Boot /\ "loader" \in NoGdt /\ Stage("loader") = "loader"
  BY DEF Boot, NoGdt, Stage
<1>2. TablesInv("loader")
  BY <1>1, StageOrder DEF Init, TablesInv, TablesType
<1>3. MemoryInv("loader")
  <2>1. dir = KernelPageDirectory /\ tlb = [p \in Pages |-> NotPresent]
        /\ frames = [f \in 0 .. 1 |-> IF f = KernelFrame THEN "kernel" ELSE "free"]
    BY DEF Init
  <2>2. NotPresent \in Entries
    BY EntryValues
  <2>3. Low("loader") = Mapping(FALSE, KernelFrame)
    BY LowStages
  <2>4. dir = [p \in Pages |-> CASE p = "kernel" -> Mapping(FALSE, KernelFrame)
                               [] p = "other" -> NotPresent
                               [] OTHER -> Low("loader")]
    BY ONLY <2>1, <2>3 DEF KernelPageDirectory, Pages
  <2>5. QED
    BY <2>1, <2>2, <2>4 DEF MemoryInv, KernelFrame
<1>4. DriverInv("loader") /\ SegmentsInv("loader")
  BY DEF Init, DriverInv, SegmentsInv
<1>5. regs \in [Registers -> Values] /\ RegsOf("loader")
  BY <1>1, OfValues DEF Init, RegsOf, Control
<1>6. /\ kstack \in Seq(Words) /\ kstack[1] = Word("frame", "kernel_setup", 0)
      /\ Len(kstack) = 1
  <2>1. "frame" \in Kinds /\ "kernel_setup" \in Owners
    BY DEF Kinds, Owners
  <2>2. Word("frame", "kernel_setup", 0) \in Words
    BY <2>1, WordParts
  <2>3. QED
    BY <2>2 DEF Init, KernelFrames
<1>7. Runs("loader")
  BY <1>1, <1>5, <1>6, StageNames, StageOrder DEF Init, Runs, Below
<1>8. QED
  BY <1>1, <1>2, <1>3, <1>4, <1>5, <1>6, <1>7 DEF Init, Inv, StackInv

LEMMA NextIInv == ASSUME OwnBuffers, IInv, [Next]_vars PROVE IInv'
<1>1. PICK who \in Control : Inv(who)
  BY DEF IInv
<1>2. CASE BootStep
  BY <1>1, <1>2, BootSteps
<1>3. CASE HandlerStep
  BY <1>1, <1>3, MainInterruptHandlerKeeps, DriverKeeps, WaitEndsKeeps,
     PopRegistersKeeps, IretKeeps DEF HandlerStep
<1>4. CASE User
  <2>1. \A v \in Exceptions : v \in 0 .. 31
    BY ProcessorAssumption
  <2>2. QED
    BY <1>1, <1>4, <2>1, UserAccessKeeps, UserExceptionKeeps, UserIntKeeps DEF User
<1>5. ASSUME NEW l \in Lines, LineInterrupt(l) PROVE IInv'
  BY <1>1, <1>5, LineInterruptKeeps
<1>6. ASSUME NEW p \in Pages, CacheMapping(p) PROVE IInv'
  BY <1>1, <1>6, CacheMappingKeeps
<1>7. CASE UNCHANGED vars
  <2>1. UNCHANGED <<pc, cpl, ints, regs, ds, kstack, dir, tlb, frames, tables,
                    inService, inDriver>>
    BY <1>7 DEF vars, memory
  <2>2. MemoryInv(Stage(who))'
    BY <1>1, <2>1 DEF Inv, MemoryInv
  <2>3. Inv(who)'
    BY <1>1, <2>1, <2>2, SameStack
  <2>4. QED
    BY <2>3 DEF IInv
<1>8. QED
  BY <1>2, <1>3, <1>4, <1>5, <1>6, <1>7 DEF Next

\* Whoever was interrupted last, the stack, the descriptor tables, the pages
\* and the driver are as its place in the start or in the program's call says.
THEOREM InductiveInvariant == ASSUME OwnBuffers PROVE Spec => []IInv
<1>1. Init => IInv
  BY InitIInv
<1>2. IInv /\ [Next]_vars => IInv'
  BY NextIInv
<1>3. QED
  BY <1>1, <1>2, PTL DEF Spec

\* A frame of eleven words, or what iret takes, on top of what is left.
LEMMA FrameFits ==
    \A l, h : h \in 1 .. 15 /\ (l = h + 11 \/ l = h + 3) => l \in 1 .. 26
  BY ONLY SMT

\* What the invariant comes to in each state of the processor.
LEMMA WhereItIs ==
    ASSUME NEW who, Inv(who)
    PROVE  /\ pc \in Control \ {"fault"}
           /\ Len(kstack) \in 1 .. 26
           /\ pc \in Boot \cup {"user", "wait"} => who = pc /\ Runs(pc)
<1>1. CASE Runs(who)
  <2>1. Len(kstack) \in 1 .. 26
    <3>1. who \in Boot \cup {"user", "wait"} /\ Len(kstack) = Left(who)
      BY <1>1 DEF Runs
    <3>2. Left(who) \in {1, 15}
      BY <3>1, StageNames, Heights
    <3>3. QED
      BY <3>1, <3>2
  <2>2. QED
    BY <1>1, <2>1 DEF Runs, Control, Boot
<1>2. CASE Handled(who)
  <2>1. Len(kstack) = Height(who) + 11 /\ Height(who) \in 1 .. 15
    BY <1>2, Heights DEF Handled
  <2>2. pc \in {"handler", "driver", "puts", "exit"}
    BY <1>2 DEF Handled
  <2>3. QED
    <3>1. Len(kstack) \in 1 .. 26
      BY ONLY <2>1, FrameFits, Zenon
    <3>2. pc \in Control \ {"fault"} /\ pc \notin Boot \cup {"user", "wait"}
      BY ONLY <2>2 DEF Control, Boot
    <3>3. QED
      BY ONLY <3>1, <3>2
<1>3. CASE Returning(who)
  <2>1. Len(kstack) = Height(who) + 3 /\ Height(who) \in 1 .. 15
    BY <1>3, Heights DEF Returning
  <2>2. pc = "iret"
    BY <1>3 DEF Returning
  <2>3. QED
    <3>1. Len(kstack) \in 1 .. 26
      BY ONLY <2>1, FrameFits, Zenon
    <3>2. pc \in Control \ {"fault"} /\ pc \notin Boot \cup {"user", "wait"}
      BY ONLY <2>2 DEF Control, Boot
    <3>3. QED
      BY ONLY <3>1, <3>2
<1>4. QED
  BY <1>1, <1>2, <1>3 DEF Inv, StackInv

\* Every variable keeps its shape, and the first word of the stack is there
\* for kernel_setup().
THEOREM TypeCorrect == ASSUME OwnBuffers PROVE Spec => []TypeOK
<1>1. ASSUME NEW who, Inv(who) PROVE TypeOK
  <2>1. pc \in Control /\ cpl \in {0, 3} /\ ints \in BOOLEAN
        /\ regs \in [Registers -> Values] /\ ds \in 0 .. 4
        /\ inService \subseteq Lines
    BY <1>1, WhereItIs DEF Inv, SegmentsInv, UserData, KernelData
  <2>2. SubSeq(kstack, 1, Len(KernelFrames)) = KernelFrames
    <3>1. Len(kstack) \in 1 .. 26 /\ kstack \in Seq(Words)
          /\ kstack[1] = Word("frame", "kernel_setup", 0)
      BY <1>1, WhereItIs DEF Inv, StackInv
    <3>2. Len(KernelFrames) = 1
          /\ KernelFrames = <<Word("frame", "kernel_setup", 0)>>
      BY DEF KernelFrames
    <3>3. QED
      <4>1. /\ SubSeq(kstack, 1, 1) \in Seq(Words) /\ Len(SubSeq(kstack, 1, 1)) = 1
            /\ SubSeq(kstack, 1, 1)[1] = kstack[1]
        BY <3>1, Kept
      <4>2. \A s \in Seq(Words) : Len(s) = 1 => s = <<s[1]>>
        OBVIOUS
      <4>3. SubSeq(kstack, 1, 1) = <<SubSeq(kstack, 1, 1)[1]>>
        BY ONLY <4>1, <4>2, Zenon
      <4>4. QED
        BY ONLY <3>1, <3>2, <4>1, <4>3
  <2>3. \A e \in {dir[p] : p \in Pages} \cup {tlb[p] : p \in Pages} : e \in Entries
    <3>1. MemoryInv(Stage(who))
      BY <1>1 DEF Inv
    <3>2. dir["low"] \in Entries /\ dir["kernel"] \in Entries /\ dir["other"] \in Entries
      BY <3>1, MemoryParts, LowValues, EntryValues
    <3>3. \A p \in Pages : dir[p] \in Entries /\ tlb[p] \in Entries
      BY <3>1, <3>2 DEF MemoryInv, Pages
    <3>4. QED
      BY <3>3
  <2>4. frames \in [0 .. 1 -> {"kernel", "free", "shell", "user"}]
        /\ inDriver \subseteq {"boot", "call"}
    BY <1>1 DEF Inv, MemoryInv, DriverInv
  <2>5. QED
    BY <2>1, <2>2, <2>3, <2>4 DEF TypeOK, Entries, Values
<1>2. IInv => TypeOK
  BY <1>1 DEF IInv
<1>3. QED
  BY <1>2, InductiveInvariant, PTL

\* When the program passes pointers to its own page only, whenever an interrupt
\* or an exception comes, what it needs is there, on the way back the frame it
\* left, and every page the kernel accesses.
THEOREM NothingFaults == ASSUME OwnBuffers PROVE Spec => []NoFault
<1>1. IInv => NoFault
  BY WhereItIs DEF IInv, NoFault
<1>2. QED
  BY <1>1, InductiveInvariant, PTL

\* No write of the kernel reaches its own frame, and when the program runs no
\* mapping lets it reach that frame.
THEOREM KernelIsKept == ASSUME OwnBuffers PROVE Spec => []KernelKept
<1>1. ASSUME NEW who, Inv(who) PROVE KernelKept
  <2>1. frames[KernelFrame] = "kernel"
    BY <1>1 DEF Inv, MemoryInv
  <2>2. ASSUME cpl = 3, NEW p \in Pages, NEW e \in Translations(p), e.user
        PROVE  e.frame # KernelFrame
    <3>1. MemoryInv("user")
      <4>1. pc = "user"
        BY <1>1, <2>2 DEF Inv, SegmentsInv
      <4>2. QED
        BY <1>1, <4>1, UserRuns DEF Inv, Stage, Boot
    <3>2. e \in {NotPresent, Mapping(FALSE, KernelFrame),
                 Mapping(TRUE, LastAvailableFrame)}
      <4>1. e \in {dir[p], tlb[p]} /\ p \in {"low", "kernel", "other"}
        BY <2>2 DEF Translations, Pages
      <4>2. /\ Low("user") = Mapping(TRUE, LastAvailableFrame)
            /\ Stale("user") = NotPresent
        BY ONLY LowStages
      <4>3. /\ dir["low"] = Low("user") /\ dir["kernel"] = Mapping(FALSE, KernelFrame)
            /\ dir["other"] = NotPresent
            /\ tlb["low"] \in {Low("user"), NotPresent, Stale("user")}
            /\ tlb["kernel"] \in {Mapping(FALSE, KernelFrame), NotPresent}
            /\ tlb["other"] = NotPresent
        BY <3>1, MemoryParts
      <4>4. QED
        BY ONLY <4>1, <4>2, <4>3
    <3>3. QED
      BY <2>2, <3>2 DEF NotPresent, Mapping, KernelFrame, LastAvailableFrame
  <2>3. QED
    BY <2>1, <2>2 DEF KernelKept
<1>2. IInv => KernelKept
  BY <1>1 DEF IInv
<1>3. QED
  BY <1>2, InductiveInvariant, PTL

\* Where the program's page is used, nothing is cached that the page directory
\* no longer has.
THEOREM TlbIsCoherent == ASSUME OwnBuffers PROVE Spec => []TlbCoherent
<1>1. ASSUME NEW who, Inv(who) PROVE TlbCoherent
  <2>1. SUFFICES ASSUME UsesProgramPage, NEW p \in Pages, tlb[p].present
                 PROVE  tlb[p] = dir[p]
    BY DEF TlbCoherent
  <2>2. Stage(who) \in {"loading", "user"}
    <3>1. CASE Runs(who)
      BY <2>1, <3>1 DEF Runs, UsesProgramPage, Stage, Boot
    <3>2. CASE Handled(who)
      BY <2>1, <3>2 DEF Handled, UsesProgramPage, Stage, Boot
    <3>3. CASE Returning(who)
      BY <2>1, <3>3 DEF Returning, UsesProgramPage
    <3>4. QED
      BY <1>1, <3>1, <3>2, <3>3 DEF Inv, StackInv
  <2>3. Stale(Stage(who)) = NotPresent /\ ~ NotPresent.present
    BY <2>2, LowStages DEF NotPresent
  <2>4. QED
    BY <1>1, <2>1, <2>3 DEF Inv, MemoryInv
<1>2. IInv => TlbCoherent
  BY <1>1 DEF IInv
<1>3. QED
  BY <1>2, InductiveInvariant, PTL

\* What was interrupted finds its registers, the program its data segment, and
\* system call 4 its locals.
THEOREM RegistersAreKept == ASSUME OwnBuffers PROVE Spec => []RegistersKept
<1>1. ASSUME NEW who, Inv(who) PROVE RegistersKept
  <2>1. SUFFICES ASSUME pc \in Boot \cup {"user", "wait"} PROVE RegistersKept
    BY DEF RegistersKept
  <2>2. who = pc /\ Runs(pc)
    BY <1>1, <2>1, WhereItIs
  <2>3. \A r \in Registers : regs[r][1] = r /\ regs[r][2] = pc
    BY <2>2 DEF Runs, RegsOf, ValueOf
  <2>4. pc = "user" => ds = UserData /\ ints
    BY <1>1, UserRuns DEF Inv, SegmentsInv, Stage, Boot
  <2>5. pc = "wait" => kstack[Len(kstack)] = Locals
    BY <2>2, Heights DEF Runs, Below
  <2>6. QED
    BY <2>3, <2>4, <2>5 DEF RegistersKept
<1>2. IInv => RegistersKept
  BY <1>1 DEF IInv
<1>3. QED
  BY <1>2, InductiveInvariant, PTL

\* Interrupts nest once at most.
THEOREM StackIsBounded == ASSUME OwnBuffers PROVE Spec => []StackBounded
<1>1. Len(KernelFrames) = 1 /\ CallWords = 14 /\ NestedWords = 11
  BY DEF KernelFrames, CallWords, NestedWords
<1>2. IInv => StackBounded
  <2>1. IInv => Len(kstack) \in 1 .. 26
    BY WhereItIs DEF IInv
  <2>2. Len(KernelFrames) + CallWords + NestedWords = 26
    BY <1>1
  <2>3. \A n : n \in 1 .. 26 => n =< 26
    BY ONLY SMT
  <2>4. QED
    BY ONLY <2>1, <2>2, <2>3, Zenon DEF StackBounded
<1>3. QED
  BY <1>2, InductiveInvariant, PTL

\* The driver, which keeps its state in static buffers, is never entered while
\* it is in use.
THEOREM DriverIsNotReentered == ASSUME OwnBuffers PROVE Spec => []DriverNotReentered
<1>1. ASSUME NEW who, Inv(who) PROVE DriverNotReentered
  <2>1. pc = "driver" => Stage(who) = "user"
    BY <1>1, HandlerBefore DEF Stage, Boot
  <2>2. inDriver = {} \/ inDriver = {"boot"} \/ inDriver = {"call"}
    BY <1>1, <2>1 DEF Inv, DriverInv
  <2>3. QED
    <3>1. /\ Cardinality({}) = 0 /\ Cardinality({"boot"}) = 1
          /\ Cardinality({"call"}) = 1
      BY FS_EmptySet, FS_Singleton
    <3>2. QED
      BY ONLY <2>2, <3>1 DEF DriverNotReentered
<1>2. IInv => DriverNotReentered
  BY <1>1 DEF IInv
<1>3. QED
  BY <1>2, InductiveInvariant, PTL

=============================================================================
