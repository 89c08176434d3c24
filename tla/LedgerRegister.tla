--------------------------- MODULE LedgerRegister ---------------------------
(***************************************************************************)
(* What the library ledger promises: one value, replaced whole.  A new     *)
(* value is proposed, lands in one step or not at all, and whoever is told *)
(* that it landed finds it there.  A fault costs the call, never the value.*)
(***************************************************************************)
EXTENDS Naturals

VARIABLES
    value,     \* what the ledger says
    proposed,  \* what a call under way means it to say: one value, or none
    faults     \* resets and card errors so far

Init ==
    /\ proposed = {}
    /\ faults = 0

Propose ==
    /\ proposed = {}
    /\ \E v \in proposed' : proposed' = {v}
    /\ UNCHANGED <<value, faults>>

Land ==
    /\ value' \in proposed
    /\ UNCHANGED <<proposed, faults>>

\* The call returns Ok: what it proposed is what is there.
Answer ==
    /\ value \in proposed
    /\ proposed' = {}
    /\ UNCHANGED <<value, faults>>

\* It may have landed, and may not.
Fail ==
    /\ faults' = faults + 1
    /\ proposed' = {}
    /\ UNCHANGED value

Next == Propose \/ Land \/ Answer \/ Fail

Spec == Init /\ [][Next]_<<value, proposed, faults>>
=============================================================================
