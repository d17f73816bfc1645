---------------------------- MODULE AtomicLedger ----------------------------
(***************************************************************************)
(* What the class Blockchain promises to those who use it: a ledger that   *)
(* accepts transactions and, from time to time, executes everything that   *)
(* is pending at once, in the order of arrival. There are no threads, no   *)
(* lock and no half-executed block here.                                   *)
(***************************************************************************)
EXTENDS Ledger, Sequences

CONSTANTS
  Genesis,     \* the account map at the start
  Txs          \* the transactions that may be accepted

VARIABLES
  ledger,      \* the committed account map
  history,     \* the executed transactions, in order
  pending      \* the accepted transactions that are not executed yet

\* The account maps that executing txs one after the other goes through;
\* States(accts, txs)[i] is the one after i transactions.
States(accts, txs) ==
  LET state[i \in 0..Len(txs)] ==
        IF i = 0 THEN accts ELSE applyTransaction(state[i - 1], txs[i])
  IN  state

Executable(accts, txs) ==
  \A i \in 1..Len(txs) : CanApply(States(accts, txs)[i - 1], txs[i])

Execute(accts, txs) == States(accts, txs)[Len(txs)]

Init ==
  /\ ledger = Genesis
  /\ history = <<>>
  /\ pending = <<>>

Accept(tx) ==
  /\ pending' = Append(pending, tx)
  /\ UNCHANGED <<ledger, history>>

\* All of it or nothing: a block that cannot be executed is never committed.
Commit ==
  /\ Executable(ledger, pending)
  /\ ledger' = Execute(ledger, pending)
  /\ history' = history \o pending
  /\ pending' = <<>>

Next ==
  \/ \E tx \in Txs : Accept(tx)
  \/ Commit

Spec == Init /\ [][Next]_<<ledger, history, pending>>
=============================================================================
