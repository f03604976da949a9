----------------------------- MODULE LineEditor -----------------------------
(***************************************************************************)
(* What system call 4 promises the shell: a line is read by one reader at  *)
(* a time, it consists of the characters taken in since the reader began,  *)
(* less those erased, nothing of an earlier line is in it, it is complete  *)
(* once the user has ended it, and the reader gets as much of it as fits   *)
(* its own buffer. A line that fills the whole Capacity is lost and begins *)
(* anew.                                                                   *)
(***************************************************************************)
EXTENDS Naturals, Sequences

CONSTANTS
    Letters,    \* the characters a line can hold
    Capacity,   \* the length at which a line is lost
    Room        \* how much of a line the reader has room for

VARIABLES
    state,      \* "idle", "reading" or "read"
    line,       \* the line so far, empty when "idle"
    taken       \* the last line given to the reader

vars == <<state, line, taken>>

Init ==
    /\ state = "idle"
    /\ line = << >>
    /\ taken = << >>

Begin ==
    /\ state = "idle"
    /\ state' = "reading"
    /\ UNCHANGED <<line, taken>>

Insert(c) ==
    /\ state = "reading"
    /\ line' = IF Len(line) + 1 = Capacity THEN << >> ELSE Append(line, c)
    /\ UNCHANGED <<state, taken>>

Erase ==
    /\ state = "reading"
    /\ line # << >>
    /\ line' = SubSeq(line, 1, Len(line) - 1)
    /\ UNCHANGED <<state, taken>>

End ==
    /\ state = "reading"
    /\ state' = "read"
    /\ UNCHANGED <<line, taken>>

Deliver ==
    /\ state = "read"
    /\ state' = "idle"
    /\ taken' = SubSeq(line, 1, IF Len(line) < Room THEN Len(line) ELSE Room)
    /\ line' = << >>

Next ==
    \/ Begin
    \/ \E c \in Letters : Insert(c)
    \/ Erase
    \/ End
    \/ Deliver

Spec == Init /\ [][Next]_vars

\* A line that was ended is delivered.
DeliveryIsFair == WF_vars(Deliver)

=============================================================================
