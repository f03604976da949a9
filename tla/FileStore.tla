------------------------------ MODULE FileStore ------------------------------
(***************************************************************************)
(* What the file system promises its callers, without clusters, FAT or     *)
(* directory tables: a write is pending, then it either takes effect as a  *)
(* whole or has no effect on what is stored, and what was once stored      *)
(* under a handle never changes again and never disappears, whatever       *)
(* other calls are made and wherever the machine loses power.              *)
(*                                                                         *)
(* A handle is the place of a directory entry (directory, slot); the       *)
(* detailed module, Fat32, implements this one.                            *)
(***************************************************************************)

CONSTANTS
    Handles,    \* the places an item can be stored at
    Items,      \* what can be stored: a file with its content, or a folder
    None        \* no item, different from every item

VARIABLES
    store,      \* what is stored: a function from some of Handles to Items
    pending     \* the item being written, or None

vars == <<store, pending>>

TypeOK ==
    /\ DOMAIN store \subseteq Handles
    /\ \A h \in DOMAIN store : store[h] \in Items
    /\ pending \in Items \cup {None}

Init ==
    /\ store = [h \in {} |-> None]
    /\ pending = None

Begin(i) ==
    /\ pending = None
    /\ pending' = i
    /\ UNCHANGED store

\* The pending item is stored, under a handle that held nothing.
Commit(h) ==
    /\ pending # None
    /\ h \notin DOMAIN store
    /\ store' = [k \in DOMAIN store \cup {h} |->
                    IF k = h THEN pending ELSE store[k]]
    /\ pending' = None

\* A call that fails, or that a power failure cuts off, stores nothing.
Fail ==
    /\ pending # None
    /\ pending' = None
    /\ UNCHANGED store

Next ==
    \/ \E i \in Items : Begin(i)
    \/ \E h \in Handles : Commit(h)
    \/ Fail

Spec == Init /\ [][Next]_vars

=============================================================================
