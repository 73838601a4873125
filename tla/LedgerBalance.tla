----------------------------- MODULE LedgerBalance -----------------------------
(***************************************************************************)
(* The properties of Ledger that add up balances, and the promise of       *)
(* LedgerAbs that the handlers implement.                                  *)
(***************************************************************************)
EXTENDS Ledger, FiniteSetsExt

\* Net effect of the stored transactions on account a.
NetOfHistory(a) == MapThenSumSet(LAMBDA t : EffectOn(a, rows[t]), Txs)

\* Every balance is the one its owner set plus the net effect of the
\* transactions stored: transactions/service.go:231 and :179.
BalanceIsNetOfHistory ==
  \A a \in accounts : balance[a] = opening[a] + NetOfHistory(a)

\* Every cent of a balance is accounted for, skewed transactions included.
BalanceExplained ==
  \A a \in Accts : balance[a] = opening[a] + MapThenSumSet(LAMBDA t : posted[a][t], Txs)

\* The tables are the abstract ones; open transactions, locks and program
\* counters are hidden.
Promise == INSTANCE LedgerAbs WITH
             Txs <- Txs, Accts <- Accts, Cats <- Cats, Amounts <- Amounts, NoRow <- NoRow,
             rows <- rows, accounts <- accounts, balance <- balance, skew <- skew

\* The handlers implement the abstract ledger.
ImplementsPromise == Promise!Spec

================================================================================
