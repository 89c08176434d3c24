--------------------------- MODULE AtomicReplace ---------------------------
(***************************************************************************)
(* What an install promises of the library: each name holds one whole book *)
(* or none, and the only thing that changes what it holds is a request put *)
(* on record first, served in one step or dropped with nothing changed.    *)
(***************************************************************************)
CONSTANTS
    LongNames,  \* names books are known by
    Contents,   \* what a book can hold
    Nothing,    \* no book under a name, and what a delete asks for
    NoRequest

VARIABLES
    shelf,      \* name -> the book it holds, or Nothing
    request     \* the change on record

Init ==
    /\ shelf \in [LongNames -> Contents \cup {Nothing}]
    /\ request = NoRequest

Ask ==
    /\ request = NoRequest
    /\ \E n \in LongNames, c \in Contents \cup {Nothing} :
         request' = [name |-> n, content |-> c]
    /\ UNCHANGED shelf

Serve ==
    /\ request # NoRequest
    /\ shelf' = [shelf EXCEPT ![request.name] = request.content]
    /\ request' = NoRequest

Drop ==
    /\ request # NoRequest
    /\ request' = NoRequest
    /\ UNCHANGED shelf

Next == Ask \/ Serve \/ Drop

Spec == Init /\ [][Next]_<<shelf, request>>
=============================================================================
