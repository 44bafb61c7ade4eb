----------------------------- MODULE MCDeletion -----------------------------
(* Deletion for TLC: requests are interchangeable, and owners have nothing   *)
(* to do with each other, so that one of them at a time is enough.           *)
EXTENDS Deletion, TLC

Symmetry == Permutations(Requests)

\* A chain of three foreign keys, or a link between two rows, fits in.
MCMaxRows == [o \in Owners |-> IF o \in Accounts THEN 4 ELSE 5]

MCInit == Init /\ \E o \in Owners : \A p \in Owners : rows[p] # {} <=> p = o

MCSpec == MCInit /\ [][Next]_vars
=============================================================================
