------------------------------ MODULE MCStorage ------------------------------
EXTENDS StorageLoop

CONSTANTS dune, emma

\* dune was saved at page 1 and then at page 2, emma never.
Pairs == [b \in Books |-> IF b = dune THEN Publish(Publish(NoJournal, 1), 2)
                          ELSE NoJournal]
AtDune == Spot(dune, 2)
=============================================================================
