---------------------------- MODULE LedgerInputs ----------------------------
(***************************************************************************)
(* The pure operators of Ledger against reference definitions, over every  *)
(* transaction and every pair of account balances of a small word width.   *)
(* One step picks an input; the properties speak about the picked input.   *)
(* The state root, which elsewhere is a digest of the account map itself,  *)
(* is spelled out here down to the bytes that are hashed.                  *)
(***************************************************************************)
EXTENDS Ledger, Trie

CONSTANTS
  Alice, Bob   \* the two accounts of the inputs

VARIABLES
  picked,      \* whether an input has been picked
  tx,          \* the transaction of the input
  accounts     \* the account map of the input

vars == <<picked, tx, accounts>>

ASSUME InputAssumption == Alice # Bob /\ {Alice, Bob} \subseteq Addr

\* A std::uint64_t has eight bytes.
ASSUME WordBytesAssumption == Len(BigEndian(MaxUint)) <= 8

MapOf(balA, balB) ==
  [a \in Addr |->
     CASE a = Alice -> [exists |-> TRUE, balance |-> balA, nonce |-> 0]
       [] a = Bob   -> [exists |-> balB > 0, balance |-> balB, nonce |-> 0]
       [] OTHER     -> NoAccount]

TxOf(to, value, gasPrice, gasLimit) ==
  [from |-> Alice, to |-> to, nonce |-> 0, value |-> value,
   gasPrice |-> gasPrice, gasLimit |-> gasLimit, chainId |-> ChainId,
   signer |-> Alice]

Init ==
  /\ picked = FALSE
  /\ tx = TxOf(Bob, 0, 0, 0)
  /\ accounts = MapOf(0, 0)

Pick ==
  /\ ~picked
  /\ picked' = TRUE
  /\ \E to \in {Alice, Bob}, value \in Word, gasPrice \in Word, gasLimit \in Word :
       tx' = TxOf(to, value, gasPrice, gasLimit)
  /\ \E balA \in Word, balB \in Word : accounts' = MapOf(balA, balB)

Picked == picked /\ UNCHANGED vars

Next == Pick \/ Picked

Spec == Init /\ [][Next]_vars

-----------------------------------------------------------------------------
(* State::root, up to the hash.                                            *)

\* Addresses of one byte that part at the second nibble.
KeyBytes(a) == CASE a = Alice -> <<18>> [] a = Bob -> <<19>> [] OTHER -> <<0>>

AccountValue(acc) == encodeList(<<encodeUint(acc.balance), encodeUint(acc.nonce)>>)

\* The trie, with the accounts put in the order of a sequence of addresses:
\* the order of a walk over the hash map is not specified.
RootInput(accts, order) ==
  LET trie[i \in 0..Len(order)] ==
        IF i = 0 THEN EmptyTrie
        ELSE IF accts[order[i]].exists
             THEN put(trie[i - 1], KeyBytes(order[i]), AccountValue(accts[order[i]]))
             ELSE trie[i - 1]
  IN  encodeNode(trie[Len(order)])

-----------------------------------------------------------------------------
(* Properties.                                                             *)

\* The picked input is well typed, and so is the map that applyTransaction
\* makes of it, at both ends of the word.
TypeOK ==
  /\ picked \in BOOLEAN
  /\ tx \in Transaction
  /\ accounts \in AccountMap
  /\ CanApply(accounts, tx) => applyTransaction(accounts, tx) \in AccountMap

\* The wrapped product, the division test, the wrapped sum and the two
\* comparisons of validateTransaction accept a transaction exactly when its
\* true cost, computed without a width, is covered by the balance.
FundsCheckExact ==
  \A balance \in {accounts[Alice].balance, accounts[Bob].balance} :
    FundsOk(tx, balance) <=> Affordable(tx, balance)

\* A transfer that applyTransaction carries out moves exactly `value' and
\* bumps one nonce, also when the sender pays itself and both references of
\* the code name one account, whenever the total supply fits the word.
TransferExact ==
  CanApply(accounts, tx) =>
    LET after == applyTransaction(accounts, tx)
        Bal(a) == accounts[a].balance
    IN  /\ after[Alice].nonce = 1 /\ after[Bob].nonce = 0
        /\ tx.to = Alice => after[Alice].balance = Bal(Alice)
        /\ tx.to = Bob =>
             /\ after[Alice].balance + tx.value = Bal(Alice)
             /\ Bal(Alice) + Bal(Bob) <= MaxUint =>
                  after[Bob].balance = Bal(Bob) + tx.value

\* State::root hashes the same bytes in whatever order the hash map is walked,
\* and from these bytes every account can be read back, an absent one as
\* absent: equal roots mean equal account maps. (The map does not depend on
\* the transaction, so one transaction is enough.)
RootCommits ==
  tx = TxOf(Bob, 0, 0, 0) =>
    LET bytes == RootInput(accounts, <<Alice, Bob>>)
    IN  /\ RootInput(accounts, <<Bob, Alice>>) = bytes
        /\ \A a \in {Alice, Bob} :
             LET value == ReadValue(bytes, KeyBytes(a))
                 items == decode(value).list
             IN  IF accounts[a].exists
                 THEN /\ value # <<>>
                      /\ toUint(items[1].bytes) = accounts[a].balance
                      /\ toUint(items[2].bytes) = accounts[a].nonce
                 ELSE value = <<>>
=============================================================================
