------------------------------ MODULE MCLedger ------------------------------
(***************************************************************************)
(* Instances of Ledger for TLC.                                            *)
(***************************************************************************)
EXTENDS LedgerBalance, TLC

CONSTANTS r1, r2, c1, c2, a1, a2

Symmetry == Permutations(Reqs) \cup Permutations(Txs) \cup Permutations({a1, a2})

\* c1 is a seeded expense category, c2 an income category of the user.
SeededCats == [c \in Cats |-> IF c = c1 THEN "expense"
                              ELSE IF c = c2 THEN "income" ELSE NoCat]

=============================================================================
