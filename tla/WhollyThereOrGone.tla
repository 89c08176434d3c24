------------------------- MODULE WhollyThereOrGone -------------------------
(***************************************************************************)
(* What reclaim_entry promises of the files on the card: a file appears,   *)
(* and later it disappears, each in one step.  No reader ever finds part   *)
(* of one, and the interruption that lost it never brings it back.         *)
(***************************************************************************)
CONSTANTS
    Aliases,    \* names a file can be listed under
    Contents,   \* what a file can hold
    Nothing     \* no file is listed

VARIABLE files  \* alias -> what the file listed under it holds, or Nothing

Init == files = [a \in Aliases |-> Nothing]

Create(a) ==
    /\ files[a] = Nothing
    /\ \E contents \in Contents : files' = [files EXCEPT ![a] = contents]

Delete(a) ==
    /\ files[a] # Nothing
    /\ files' = [files EXCEPT ![a] = Nothing]

Next == \E a \in Aliases : Create(a) \/ Delete(a)

Spec == Init /\ [][Next]_files
=============================================================================
