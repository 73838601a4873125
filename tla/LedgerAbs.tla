------------------------------ MODULE LedgerAbs ------------------------------
(***************************************************************************)
(* What the ledger promises: transactions are posted atomically and a      *)
(* posting moves every balance by exactly the difference it makes to the   *)
(* history.  "Deleting a transaction must revert the balance delta and     *)
(* delete the row in the same database transaction", and likewise for      *)
(* create and update (modules/transactions/README.md).                     *)
(*                                                                         *)
(* The promise has one hole, made explicit: a posting built on a row that  *)
(* another request has overwritten may move balances by anything, and the  *)
(* transaction it wrote is in skew from then on.                           *)
(***************************************************************************)
EXTENDS Integers, FiniteSetsExt

CONSTANTS Txs, Accts, Cats, Amounts, NoRow

Row == [type : {"income", "expense"}, amt : {n \in Amounts : n > 0},
        cat : Cats, acct : Accts]

VARIABLES rows, accounts, balance, skew

vars == <<rows, accounts, balance, skew>>

EffectOn(a, row) ==
  IF row = NoRow \/ row.acct # a THEN 0
  ELSE IF row.type = "expense" THEN -row.amt ELSE row.amt

Init ==
  /\ rows = [t \in Txs |-> NoRow]
  /\ accounts \subseteq Accts
  /\ balance \in [Accts -> Int]
  /\ skew = {}

\* A request writes the rows of T, each of them into an account that exists.
Write(T) ==
  /\ rows' \in [Txs -> Row \cup {NoRow}]
  /\ \A t \in Txs : IF t \in T
                    THEN rows'[t] # NoRow => rows'[t].acct \in accounts
                    ELSE rows'[t] = rows[t]
  /\ UNCHANGED accounts

Post(T) ==
  /\ Write(T)
  /\ balance' = [a \in Accts |-> balance[a] +
       MapThenSumSet(LAMBDA t : EffectOn(a, rows'[t]) - EffectOn(a, rows[t]), T)]
  /\ UNCHANGED skew

PostSkewed(t) ==
  /\ Write({t})
  /\ balance' \in [Accts -> Int]
  /\ skew' = skew \cup {t}

\* The owner opens an account or sets its balance.
SetBalance(a) ==
  /\ accounts' = accounts \cup {a}
  /\ balance' = [balance EXCEPT ![a] = balance'[a]]
  /\ UNCHANGED <<rows, skew>>

\* Only an account without transactions is closed.
Close(a) ==
  /\ \A t \in Txs : rows[t] # NoRow => rows[t].acct # a
  /\ accounts' = accounts \ {a}
  /\ UNCHANGED <<rows, balance, skew>>

Next ==
  \/ \E T \in SUBSET Txs : Post(T)
  \/ \E t \in Txs : PostSkewed(t)
  \/ \E a \in Accts : SetBalance(a) \/ Close(a)

Spec == Init /\ [][Next]_vars

=============================================================================
