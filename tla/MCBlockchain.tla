---------------------------- MODULE MCBlockchain ----------------------------
(***************************************************************************)
(* The instance of Blockchain for TLC, the properties of Blockchain that   *)
(* count, add up or replay, and the refinement of AtomicLedger.            *)
(***************************************************************************)
EXTENDS Rpc, SequencesExt, FiniteSetsExt

CONSTANTS Alice, Bob, Zero

Pay(from, to, nonce, value, chainId) ==
  [from |-> from, to |-> to, nonce |-> nonce, value |-> value, gasPrice |-> 1,
   gasLimit |-> 1, chainId |-> chainId, signer |-> from]

\* One premined account, as in app/main.cpp.
MCGenesis ==
  [a \in Addr |-> IF a = Alice THEN [exists |-> TRUE, balance |-> 5, nonce |-> 0]
                               ELSE NoAccount]

\* Two payments that Alice cannot both make, a next one, a reply that needs
\* the first to have been made, a payment to oneself, and one that is always
\* refused, for it is meant for another chain.
MCTxs ==
  {Pay(Alice, Bob, 0, 3, ChainId), Pay(Alice, Bob, 1, 1, ChainId),
   Pay(Bob, Alice, 0, 2, ChainId), Pay(Alice, Alice, 0, 4, ChainId),
   Pay(Alice, Bob, 0, 1, ChainId + 1)}

-----------------------------------------------------------------------------
(* Properties.                                                             *)

\* All transactions of the first n blocks, in the order of execution.
History(n) == FlattenSeq([i \in 1..n |-> chain[i].transactions])

\* The account map that a state root is the digest of.
Preimage(digest) == digest[2]

\* The ledger that the node implements: what the newest block committed to,
\* what the blocks carry, and the mempool, which between the push of a block
\* and the clearing of the mempool has nothing pending left.
Abstract ==
  INSTANCE AtomicLedger WITH
    ledger  <- Preimage(Tip.stateAfter),
    history <- History(Len(chain)),
    pending <- IF main.pc = "clear" THEN <<>> ELSE mempool

\* "Atomic Updates: State transitions are atomic within blocks"
\* (whitepaper.md:75): although mineBlock executes one transaction after the
\* other while transactions arrive, may throw half way, and clears the mempool
\* only after the push, the committed state, the recorded history and what is
\* pending change as if each block were executed at once by its push.
ExecutesAtomically == Abstract!Spec

\* Executing the transactions recorded in the chain, from the genesis state,
\* gives the state root of every block, and its txRoot and receipts are those
\* of its own transactions: a node could be rebuilt from the blocks alone.
BlocksReplay ==
  \A i \in 1..Len(chain) :
    /\ chain[i].stateAfter = root(Abstract!Execute(Genesis, History(i)))
    /\ chain[i].txRoot = computeTxRoot(chain[i].transactions)
    /\ chain[i].receipts = receiptsOf(chain[i].transactions)

\* The hash of a block is fixed before its receipts root is set; even so the
\* hashed fields, through txRoot, determine the receipts. The receipts root
\* commits to the outcome of the last ReceiptKeys receipts and to no other: in
\* a block with more transactions than one-byte trie keys the early receipts
\* are overwritten by later ones and can be changed without changing the root.
ReceiptsBound ==
  \A i \in 2..Len(chain) :
    LET b == chain[i]
    IN  /\ b.hash = computeHash([b EXCEPT !.receiptsRoot = EmptyString])
        /\ b.receiptsRoot = receiptsRootOf(receiptsOf(b.transactions))
        /\ \A j \in DOMAIN b.receipts :
             receiptsRootOf([b.receipts EXCEPT ![j].status = ~@]) # b.receiptsRoot
               <=> j + ReceiptKeys > Len(b.receipts)

\* mineBlock is in its loop.
Working == main.pc \in {"apply", "debit", "nonce", "credit"}

\* mineBlock is between the debit and the credit of a transfer.
InTransit == main.pc \in {"nonce", "credit"}

\* Transactions of the block being mined: those done with, those of which the
\* first write has been made too, and those whose nonce has been counted.
Settled == IF Working THEN SubSeq(mempool, 1, main.i - 1) ELSE <<>>

Begun == IF InTransit THEN SubSeq(mempool, 1, main.i) ELSE Settled

Executed == IF main.pc = "credit" THEN SubSeq(mempool, 1, main.i) ELSE Settled

\* The nonce of an account counts the transactions it sent that are in blocks
\* or already executed for the block being mined.
NonceCountsExecutions ==
  alive =>
    LET done == History(Len(chain)) \o Executed
    IN  \A a \in Addr : accounts[a].nonce =
                          Wrap(Cardinality({i \in DOMAIN done : done[i].from = a}))

\* What a pays to itself in the transfer under way: taken, not yet given back.
PaidToItself(a) ==
  IF InTransit /\ mempool[main.i].from = a /\ mempool[main.i].to = a
  THEN mempool[main.i].value ELSE 0

\* Whatever balance and nonce eth_getBalance and eth_getTransactionCount answer,
\* also in the middle of a block and in the middle of a transfer, are those of
\* a sequential execution of the recorded history and then a prefix of the
\* mempool: before the transfer under way or after it. There is one exception,
\* for applyTransaction writes the live account three times: an account that
\* pays itself is shown without the payment until it is credited.
ReadsSequential ==
  alive =>
    LET before == Abstract!Execute(Genesis, History(Len(chain)) \o Settled)
        after  == Abstract!Execute(Genesis, History(Len(chain)) \o Begun)
    IN  \A a \in Addr :
          /\ handle_getBalance(a) + PaidToItself(a)
               \in {before[a].balance, after[a].balance}
          /\ handle_getTransactionCount(a) \in {before[a].nonce, after[a].nonce}

\* No step creates or destroys funds, and no balance wraps: the sum of the
\* balances is the premine in every state, less exactly the one value that is
\* debited and not yet credited while a reader can look.
SupplyConserved ==
  MapThenSumSet(LAMBDA a : accounts[a].balance, Addr)
      + (IF InTransit THEN mempool[main.i].value ELSE 0)
    = MapThenSumSet(LAMBDA a : Genesis[a].balance, Addr)

\* "Double-Spend Protection: Account nonce mechanism" (whitepaper.md:200):
\* the nonce lets no transaction be executed twice.
NoDoubleExecution == IsInjective(History(Len(chain)))
=============================================================================
