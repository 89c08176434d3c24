----------------------------- MODULE MCReplace -----------------------------
(***************************************************************************)
(* Replace on a card of two books.  Dune and dune are two spellings of one *)
(* place; the bytes of each length come in two contents, so that a length  *)
(* is not a book.                                                          *)
(***************************************************************************)
EXTENDS Replace

CONSTANTS Dune, dune, Emma, Fear, b1, b2, b3, b4

Spelling == [n \in Names |-> IF n = dune THEN Dune ELSE n]
Lengths == [c \in Contents |-> IF c \in {b1, b2} THEN 1 ELSE 2]
Order == <<Dune, dune, Emma, Fear>>
TwoBooks == [n \in Names |-> IF n = Dune THEN b1 ELSE IF n = Emma THEN b2 ELSE None]
MintedIds == 1 .. MaxIds

\* Over Dune in another spelling, over that again, and a new book.
Uploads == {<<dune, b3>>, <<Fear, b2>>}

\* The book already there, under another spelling.
SameBytes == {<<dune, b1>>}

\* A book swapped for one of another length.
Swaps == {<<Emma, b4>>}

\* An uploaded copy moved, and one spelled another way.
Renames == {<<dune, Fear>>, <<Dune, dune>>}
=============================================================================
