----------------------------- MODULE BlockStore -----------------------------
(***************************************************************************)
(* What a disk driver promises the file system: calls that read or write   *)
(* consecutive blocks, one after the other, each as a whole. Of what is    *)
(* written, one block at most is late: not on the disk yet, and lost when  *)
(* the power fails. When the drive fails in a call, the rest of the call   *)
(* has no effect, and what it reads is arbitrary.                          *)
(*                                                                         *)
(* The detailed module, AtaDisk, implements this one.                      *)
(***************************************************************************)
EXTENDS Integers, Sequences

CONSTANTS
    Blocks,      \* the addresses of the blocks
    Contents,    \* what a block can hold
    Fresh,       \* what a block holds before it is written
    Calls,       \* the calls: records of op, lba, count and data
    NoCall       \* no call, different from every call

VARIABLES
    stored,      \* what is on the disk
    late,        \* the block not stored yet, a set of at most one pair
    call,        \* the call in progress, or NoCall
    done,        \* what the call has moved, block by block
    failed       \* the drive has failed since the call began

vars == <<stored, late, call, done, failed>>

Init ==
    /\ stored = [b \in Blocks |-> Fresh]
    /\ late = {} /\ call = NoCall /\ done = << >> /\ failed = FALSE

Begin(c) ==
    /\ call = NoCall /\ late = {}
    /\ call' = c /\ done' = << >> /\ failed' = FALSE
    /\ UNCHANGED <<stored, late>>

\* The next block is moved; the call returns after the last one.
Move(content) ==
    /\ call # NoCall
    /\ done' = Append(done, content)
    /\ call' = IF Len(done) + 1 = call.count THEN NoCall ELSE call
    /\ UNCHANGED <<stored, failed>>

Put ==
    /\ call # NoCall /\ call.op = "write" /\ ~failed /\ late = {}
    /\ Move(call.data[Len(done) + 1])
    /\ late' = {<<call.lba + Len(done), call.data[Len(done) + 1]>>}

Get ==
    /\ call # NoCall /\ call.op = "read" /\ ~failed
    /\ Move(stored[call.lba + Len(done)])
    /\ UNCHANGED late

Skip ==
    /\ failed
    /\ \E content \in Contents : Move(content)
    /\ UNCHANGED late

Settle ==
    /\ \E w \in late : stored' = [stored EXCEPT ![w[1]] = w[2]]
    /\ late' = {}
    /\ UNCHANGED <<call, done, failed>>

\* The late block is lost as well.
DriveFails ==
    /\ failed' = TRUE /\ late' = {}
    /\ UNCHANGED <<stored, call, done>>

PowerFails ==
    /\ late' = {} /\ call' = NoCall /\ done' = << >> /\ failed' = FALSE
    /\ UNCHANGED stored

Next ==
    \/ \E c \in Calls : Begin(c)
    \/ Put \/ Get \/ Skip \/ Settle \/ DriveFails \/ PowerFails

Spec == Init /\ [][Next]_vars

=============================================================================
