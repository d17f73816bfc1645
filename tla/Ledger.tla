------------------------------- MODULE Ledger -------------------------------
(***************************************************************************)
(* The account state of a Gambit node (src/state.cpp) and the arithmetic   *)
(* of the transaction checks (src/blockchain.cpp, validateTransaction).    *)
(* Pure operators; the modules that extend this one supply the state.      *)
(*                                                                         *)
(* The hash map from hex addresses to accounts is a total function from    *)
(* Addr to records whose field `exists' says whether the key is in the     *)
(* map: get() of a missing key is the null pointer, which                  *)
(* validateTransaction reads as nonce 0 and balance 0, and getOrCreate()   *)
(* inserts exactly that pair. The order of the map does not matter: the    *)
(* trie of root() is the same for every order of insertion.                *)
(* Unsigned 64-bit integers are the numbers 0..MaxUint, with wrap-around.  *)
(* keccak256 over an encoding that keeps its inputs apart is a tag around  *)
(* those inputs: equal digests exactly for equal inputs.                   *)
(***************************************************************************)
EXTENDS Naturals

CONSTANTS
  Addr,        \* account addresses
  ZeroAddress, \* the all-zero address, Address::isZero()
  ChainId,     \* GenesisConfig::chainId of this node
  MaxUint      \* the largest std::uint64_t

ASSUME ZeroAddressAssumption == ZeroAddress \in Addr
ASSUME ChainIdAssumption == ChainId \in Nat
ASSUME MaxUintAssumption == MaxUint \in Nat \ {0}

-----------------------------------------------------------------------------
(* Integers of the build's width.                                          *)

Word == 0..MaxUint

\* Mutant: integers without a width.
WrapNever(n) == n

Wrap(n) == n % (MaxUint + 1)

-----------------------------------------------------------------------------
(* Accounts and transactions.                                              *)

Account == [exists : BOOLEAN, balance : Word, nonce : Word]

NoAccount == [exists |-> FALSE, balance |-> 0, nonce |-> 0]

AccountMap == [Addr -> Account]

\* `signer' is the address that recovery yields from the signature.
Transaction ==
  [from : Addr, to : Addr, nonce : Word, value : Word, gasPrice : Word,
   gasLimit : Word, chainId : Nat, signer : Addr]

keccak256(input) == <<"keccak256", input>>

\* State::root(): the trie over all present accounts, empty ones included.
root(accts) == keccak256(accts)

-----------------------------------------------------------------------------
(* State.                                                                  *)

getOrCreate(accts, a) == [accts EXCEPT ![a].exists = TRUE]

\* applyTransaction first makes both accounts, also when it then throws.
Touch(accts, tx) == getOrCreate(getOrCreate(accts, tx.from), tx.to)

\* Mutant: the balance test is dropped.
CanApplyUnchecked(accts, tx) == TRUE

CanApply(accts, tx) == ~(accts[tx.from].balance < tx.value)

\* Mutant: a payment to oneself is credited and not debited.
WithdrawFromOthers(accts, tx) ==
  IF tx.from = tx.to THEN accts ELSE [accts EXCEPT ![tx.from].balance = @ - tx.value]

Withdraw(accts, tx) == [accts EXCEPT ![tx.from].balance = @ - tx.value]

\* Mutant: the nonce is not bumped.
BumpNever(accts, tx) == accts

Bump(accts, tx) == [accts EXCEPT ![tx.from].nonce = Wrap(@ + 1)]

Credit(accts, tx) == [accts EXCEPT ![tx.to].balance = Wrap(@ + tx.value)]

\* Mutant: the recipient is read before the sender is written.
applyTransactionAliased(accts, tx) ==
  [Bump(Withdraw(Touch(accts, tx), tx), tx)
     EXCEPT ![tx.to].balance = Wrap(accts[tx.to].balance + tx.value)]

\* Defined where CanApply holds: the code throws elsewhere. `from' and `to'
\* may be one account, hence the updates one after the other.
applyTransaction(accts, tx) == Credit(Bump(Withdraw(Touch(accts, tx), tx), tx), tx)

-----------------------------------------------------------------------------
(* Blockchain::validateTransaction, in the order of its four checks. The   *)
(* nonce and the balance are read at different moments and without the     *)
(* lock, so each check takes the value it read as a parameter.             *)

ChainIdOk(tx) == tx.chainId = ChainId

\* Both callers hand over what Transaction::fromHex returns, whose `from' it
\* has recovered from the signature itself.
verifySignature(tx) == tx.from = ZeroAddress \/ tx.signer = tx.from

NonceOk(tx, nonce) == tx.nonce = nonce

\* Mutant: the test for overflow of the sum is dropped.
FundsOkUncheckedSum(tx, balance) ==
  LET gasCost == Wrap(tx.gasPrice * tx.gasLimit)
  IN  /\ ~(tx.gasPrice # 0 /\ gasCost \div tx.gasPrice # tx.gasLimit)
      /\ ~(balance < Wrap(gasCost + tx.value))

FundsOk(tx, balance) ==
  LET gasCost == Wrap(tx.gasPrice * tx.gasLimit)
      needed  == Wrap(gasCost + tx.value)
  IN  /\ ~(tx.gasPrice # 0 /\ gasCost \div tx.gasPrice # tx.gasLimit)
      /\ ~(needed < gasCost)
      /\ ~(balance < needed)

\* What the four overflow-aware lines of the code are meant to compute: the
\* exact cost, in unbounded arithmetic, is covered by the balance.
Affordable(tx, balance) ==
  tx.gasPrice * tx.gasLimit + tx.value <= balance
=============================================================================
