------------------------------- MODULE MCAuth -------------------------------
(* Instances of Auth for TLC. *)
EXTENDS Auth, TLC

\* Every address with every user name.
AllKeys == Addresses \X Users

Symmetry == Permutations(Requests)

=============================================================================
