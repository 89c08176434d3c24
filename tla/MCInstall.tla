----------------------------- MODULE MCInstall -----------------------------
(* Small instances of Install: interchangeable aliases and chains, scratch *)
(* names that two long names share, and files told apart by their length.  *)
EXTENDS Install, TLC

CONSTANTS n1, n2, s1, v1, v2, x1

OneScratch == [n \in LongNames |-> s1]
Lengths    == [c \in Books \cup Strangers |-> IF c = v1 THEN 1 ELSE IF c = v2 THEN 2 ELSE 3]
Symmetry   == Permutations(Aliases) \cup Permutations(Chains)
=============================================================================
