-------------------------- MODULE MCConsoleCursor --------------------------
(***************************************************************************)
(* Console with a history variable: where on the screen the line that is   *)
(* being read begins, Lost once the cursor has left the screen or a key    *)
(* has moved it sideways.                                                  *)
(***************************************************************************)
EXTENDS MCConsole

VARIABLE start

Lost == -1

MCInit ==
    /\ Init
    /\ start = Lost

MovedSideways ==
    /\ scan # << >> /\ Head(scan) \in {"left", "right"}
    /\ scan' = Tail(scan)

\* A letter in the last place of the buffer makes the line begin anew.
LineStart ==
    IF MovedSideways THEN Lost
    ELSE IF pc = "user" /\ pc' = "wait" THEN cursor
    ELSE IF start # Lost /\ index' < index - 1 THEN start + Byte
    ELSE start

OnScreen(p) == p < Rows * Cols

MCNext ==
    /\ Next
    /\ start' = IF on' /\ OnScreen(cursor') THEN LineStart ELSE Lost

MCSpec == MCInit /\ [][MCNext]_<<vars, start>> /\ Fairness

\* While nobody moves it sideways and the line is on the screen, the cursor
\* is behind the last letter of the line, over row ends in both directions,
\* also after a full buffer has wrapped.
CursorFollowsLine ==
    (Reading /\ start # Lost) => cursor = start + index

=============================================================================
