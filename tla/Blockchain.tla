----------------------------- MODULE Blockchain -----------------------------
(***************************************************************************)
(* The class Blockchain (src/blockchain.cpp): chain, account state and     *)
(* mempool behind one mutex, and the threads of a node that call it:       *)
(*                                                                         *)
(*   - submitters: the RPC threads (eth_sendRawTransaction) and the P2P    *)
(*     receive threads (NEW_TX), which validate a transaction WITHOUT the  *)
(*     lock and then call addTransaction, which takes it;                  *)
(*   - readers: RPC threads that answer eth_getTransactionByHash by        *)
(*     looking through the mempool and then through the blocks, both       *)
(*     without the lock;                                                   *)
(*   - the main thread, which calls mineBlock MineBlocks times             *)
(*     (app/main.cpp, --mine-blocks=N).                                    *)
(*                                                                         *)
(* mineBlock holds the lock from its first line to its last, but readers   *)
(* do not take it: the writes of every transaction it executes (making the *)
(* two accounts, the debit, the nonce, the credit), the push of the block  *)
(* and the clearing of the mempool are steps of their own.                 *)
(* A call that only reads and pushes under the lock is one step. addBlock  *)
(* is defined here and called by the modules that have a caller for it.    *)
(*                                                                         *)
(* `alive' is the process: an exception out of mineBlock leaves main and   *)
(* ends it, and so may an unlocked read that falls into a change of the    *)
(* container it reads. (The other outcome modelled is that it sees the     *)
(* container before or after the change.) Nothing is persisted: a dead     *)
(* node has no successor.                                                  *)
(***************************************************************************)
EXTENDS Block, FiniteSets

CONSTANTS
  Genesis,     \* the account map that GenesisConfig::premine sets up
  Submitters,  \* threads that submit transactions
  Readers,     \* threads that look transactions up
  Main,        \* the thread that runs main()
  Free,        \* the value of the mutex when no thread holds it
  Txs,         \* the transactions that clients send
  MineBlocks,  \* NodeConfig::mineBlocks
  Times,       \* readings of the system clock
  MaxMempool   \* bound: transactions in the mempool or on their way into it

ASSUME AddrAssumption == IsFiniteSet(Addr)
ASSUME GenesisAssumption ==
  /\ Genesis \in AccountMap
  /\ \A a \in Addr : /\ Genesis[a].nonce = 0
                     /\ ~Genesis[a].exists => Genesis[a] = NoAccount
ASSUME TxsAssumption == Txs \subseteq Transaction
ASSUME MineBlocksAssumption == MineBlocks \in Nat
ASSUME TimesAssumption == Times \subseteq Nat /\ Times # {}
ASSUME MaxMempoolAssumption == MaxMempool \in Nat
ASSUME ThreadsAssumption == Free # Main

VARIABLES
  \* Members of Blockchain.
  chain,       \* chain_, a sequence of blocks; chain[1] is the genesis block
  accounts,    \* state_
  mempool,     \* mempool_, a sequence of transactions
  mutex,       \* mutex_: its holder, or Free
  \* Locals of the callers.
  sub,         \* of each submitter: where it is, its transaction, and whether
               \* the lookup of the sender's account found one
  reader,      \* of each reader: where it is, the transaction it looks for,
               \* and two marks that only the properties read: whether the node
               \* had the transaction when the lookup began, and whether some
               \* lookup answered null although it had
  main,        \* of main: where it is, mineBlock's loop index and loop end,
               \* `before', and how many calls of mineBlock are left
  \* The process.
  alive

members == <<chain, accounts, mempool, mutex>>
locals  == <<sub, reader, main>>
vars    == <<chain, accounts, mempool, mutex, sub, reader, main, alive>>

Tip == chain[Len(chain)]

Idle(tx) == [pc |-> "idle", tx |-> tx, found |-> FALSE]

NoTx == [from |-> ZeroAddress, to |-> ZeroAddress, nonce |-> 0, value |-> 0,
         gasPrice |-> 0, gasLimit |-> 0, chainId |-> 0, signer |-> ZeroAddress]

Resting(missed) ==
  [pc |-> "idle", tx |-> NoTx, had |-> FALSE, missed |-> missed]

Init ==
  /\ \E now \in Times : chain = <<GenesisBlock(Genesis, now)>>
  /\ accounts = Genesis
  /\ mempool = <<>>
  /\ mutex = Free
  /\ sub = [s \in Submitters |-> Idle(NoTx)]
  /\ reader = [r \in Readers |-> Resting(FALSE)]
  /\ main = [pc |-> "idle", i |-> 1, n |-> 0, before |-> ZeroRoot, left |-> MineBlocks]
  /\ alive = TRUE

-----------------------------------------------------------------------------
(* Submitting a transaction.                                               *)

InFlight == {s \in Submitters : sub[s].pc # "idle"}

\* Lines 32-52: chain id, signature, lookup of the account, nonce.
NonceChecksPass(tx) ==
  /\ ChainIdOk(tx)
  /\ verifySignature(tx)
  /\ NonceOk(tx, accounts[tx.from].nonce)

ValidateNonce(s) ==
  /\ alive
  /\ sub[s].pc = "idle"
  /\ Len(mempool) + Cardinality(InFlight) < MaxMempool
  /\ \E tx \in Txs :
       /\ NonceChecksPass(tx)
       /\ sub' = [sub EXCEPT ![s] = [pc |-> "funds", tx |-> tx,
                                     found |-> accounts[tx.from].exists]]
  /\ UNCHANGED <<members, reader, main, alive>>

\* The request ends with an error and leaves no trace.
RejectNonce(s) ==
  /\ alive
  /\ sub[s].pc = "idle"
  /\ \E tx \in Txs : ~NonceChecksPass(tx)
  /\ UNCHANGED vars

\* Lines 54-75: the balance is read through the pointer the lookup returned,
\* by now possibly after mineBlock has changed the account.
BalanceRead(s) == IF sub[s].found THEN accounts[sub[s].tx.from].balance ELSE 0

ValidateFunds(s) ==
  /\ alive
  /\ sub[s].pc = "funds"
  /\ FundsOk(sub[s].tx, BalanceRead(s))
  /\ sub' = [sub EXCEPT ![s].pc = "add"]
  /\ UNCHANGED <<members, reader, main, alive>>

RejectFunds(s) ==
  /\ alive
  /\ sub[s].pc = "funds"
  /\ ~FundsOk(sub[s].tx, BalanceRead(s))
  /\ sub' = [sub EXCEPT ![s] = Idle(NoTx)]
  /\ UNCHANGED <<members, reader, main, alive>>

\* Mutant: the lock is not taken.
addTransactionUnlocked(s) ==
  /\ alive
  /\ sub[s].pc = "add"
  /\ mempool' = Append(mempool, sub[s].tx)
  /\ sub' = [sub EXCEPT ![s] = Idle(NoTx)]
  /\ UNCHANGED <<chain, accounts, mutex, reader, main, alive>>

addTransaction(s) ==
  /\ alive
  /\ sub[s].pc = "add"
  /\ mutex = Free
  /\ mempool' = Append(mempool, sub[s].tx)
  /\ sub' = [sub EXCEPT ![s] = Idle(NoTx)]
  /\ UNCHANGED <<chain, accounts, mutex, reader, main, alive>>

\* mineBlock is about to insert an account into the map: a node-based map,
\* so a pointer into it stays good, but a lookup meanwhile is undefined.
Inserting ==
  /\ main.pc = "apply" /\ main.i <= main.n
  /\ ~(accounts[mempool[main.i].from].exists /\ accounts[mempool[main.i].to].exists)

\* The lookup in the account map falls into the insertion.
LookupRace(s) ==
  /\ alive
  /\ sub[s].pc = "idle"
  /\ Inserting
  /\ alive' = FALSE
  /\ UNCHANGED <<members, locals>>

-----------------------------------------------------------------------------
(* eth_getTransactionByHash.                                               *)

InMempool(tx) == \E i \in DOMAIN mempool : mempool[i] = tx

InBlocks(tx) == \E i \in DOMAIN chain :
                  \E j \in DOMAIN chain[i].transactions : chain[i].transactions[j] = tx

\* Mutant: the blocks are searched before the mempool.
ScanBlocksFirst(stage, tx) == IF stage = 1 THEN InBlocks(tx) ELSE InMempool(tx)

\* The handler searches the mempool first, then the blocks.
Scan(stage, tx) == IF stage = 1 THEN InMempool(tx) ELSE InBlocks(tx)

\* The first search finds nothing. (What it finds is answered at once.)
LookupBegin(r) ==
  /\ alive
  /\ reader[r].pc = "idle"
  /\ \E tx \in Txs :
       /\ ~Scan(1, tx)
       /\ reader' = [reader EXCEPT ![r].pc = "second", ![r].tx = tx,
                                   ![r].had = InMempool(tx) \/ InBlocks(tx)]
  /\ UNCHANGED <<members, sub, main, alive>>

\* The second search decides between the transaction and null.
LookupEnd(r) ==
  /\ alive
  /\ reader[r].pc = "second"
  /\ LET null == ~Scan(2, reader[r].tx)
     IN  reader' = [reader EXCEPT ![r] = Resting(@.missed \/ (@.had /\ null))]
  /\ UNCHANGED <<members, sub, main, alive>>

\* The vectors, which may move when they grow: a push into the mempool or its
\* clearing is under way, or the push of a block by main is.
MempoolChanging ==
  main.pc = "clear" \/ (mutex = Free /\ \E s \in Submitters : sub[s].pc = "add")

ChainGrowing == main.pc = "apply" /\ main.i > main.n

\* A search falls into such a change.
SearchRace(r) ==
  /\ alive
  /\ IF reader[r].pc = "idle" THEN MempoolChanging ELSE ChainGrowing
  /\ alive' = FALSE
  /\ UNCHANGED <<members, locals>>

-----------------------------------------------------------------------------
(* mineBlock, called by main.                                              *)

\* Mutant: the loop leaves out the last transaction.
MineStartShort ==
  /\ alive
  /\ main.pc = "idle" /\ main.left > 0
  /\ mutex = Free
  /\ mutex' = Main
  /\ main' = [main EXCEPT !.pc = "apply", !.i = 1, !.n = Len(mempool) - 1,
                          !.before = root(accounts)]
  /\ UNCHANGED <<chain, accounts, mempool, sub, reader, alive>>

\* Lines 105-110: lock, root before, begin and end of the loop.
MineStart ==
  /\ alive
  /\ main.pc = "idle" /\ main.left > 0
  /\ mutex = Free
  /\ mutex' = Main
  /\ main' = [main EXCEPT !.pc = "apply", !.i = 1, !.n = Len(mempool),
                          !.before = root(accounts)]
  /\ UNCHANGED <<chain, accounts, mempool, sub, reader, alive>>

\* applyTransaction on the live accounts, one step for each of its writes.
MineTouch ==
  /\ alive
  /\ main.pc = "apply" /\ main.i <= main.n
  /\ accounts' = Touch(accounts, mempool[main.i])
  /\ main' = [main EXCEPT !.pc = "debit"]
  /\ UNCHANGED <<chain, mempool, mutex, sub, reader, alive>>

\* Mutant: main catches the exception and goes on, as Miner::loop does.
MineThrowCaught ==
  /\ alive
  /\ main.pc = "debit"
  /\ ~CanApply(accounts, mempool[main.i])
  /\ mutex' = Free
  /\ main' = [main EXCEPT !.pc = "idle"]
  /\ UNCHANGED <<chain, accounts, mempool, sub, reader, alive>>

\* applyTransaction throws; main has no handler, so the process ends.
MineThrow ==
  /\ alive
  /\ main.pc = "debit"
  /\ ~CanApply(accounts, mempool[main.i])
  /\ mutex' = Free
  /\ main' = [main EXCEPT !.pc = "idle"]
  /\ alive' = FALSE
  /\ UNCHANGED <<chain, accounts, mempool, sub, reader>>

MineDebit ==
  /\ alive
  /\ main.pc = "debit"
  /\ CanApply(accounts, mempool[main.i])
  /\ accounts' = Withdraw(accounts, mempool[main.i])
  /\ main' = [main EXCEPT !.pc = "nonce"]
  /\ UNCHANGED <<chain, mempool, mutex, sub, reader, alive>>

MineNonce ==
  /\ alive
  /\ main.pc = "nonce"
  /\ accounts' = Bump(accounts, mempool[main.i])
  /\ main' = [main EXCEPT !.pc = "credit"]
  /\ UNCHANGED <<chain, mempool, mutex, sub, reader, alive>>

\* The last write, and the next transaction of the loop.
MineCredit ==
  /\ alive
  /\ main.pc = "credit"
  /\ accounts' = Credit(accounts, mempool[main.i])
  /\ main' = [main EXCEPT !.pc = "apply", !.i = @ + 1]
  /\ UNCHANGED <<chain, mempool, mutex, sub, reader, alive>>

\* Mutant: the mempool is cleared before it is attached.
MinedBlockAfterClear(now) ==
  LET after  == root(accounts)
      txRoot == computeTxRoot(mempool)
  IN  NewBlock(Len(chain), Tip.hash, main.before, after, txRoot,
               generate(main.before, after, txRoot), now)

\* The block that lines 115-151 build.
MinedBlock(now) ==
  LET after    == root(accounts)
      txRoot   == computeTxRoot(mempool)
      receipts == receiptsOf(mempool)
      block    == NewBlock(Len(chain), Tip.hash, main.before, after, txRoot,
                           generate(main.before, after, txRoot), now)
  IN  [block EXCEPT !.transactions = mempool, !.receipts = receipts,
                    !.receiptsRoot = receiptsRootOf(receipts)]

\* Line 153: the block is on the chain, its transactions still in the mempool.
MinePush ==
  /\ alive
  /\ main.pc = "apply" /\ main.i > main.n
  /\ \E now \in Times : chain' = Append(chain, MinedBlock(now))
  /\ main' = [main EXCEPT !.pc = "clear"]
  /\ UNCHANGED <<accounts, mempool, mutex, sub, reader, alive>>

\* Mutant: the lock is not released.
MineClearLocked ==
  /\ alive
  /\ main.pc = "clear"
  /\ mempool' = <<>>
  /\ main' = [main EXCEPT !.pc = "idle", !.left = @ - 1]
  /\ UNCHANGED <<chain, accounts, mutex, sub, reader, alive>>

MineClear ==
  /\ alive
  /\ main.pc = "clear"
  /\ mempool' = <<>>
  /\ mutex' = Free
  /\ main' = [main EXCEPT !.pc = "idle", !.left = @ - 1]
  /\ UNCHANGED <<chain, accounts, sub, reader, alive>>

-----------------------------------------------------------------------------
(* addBlock: the checks and the push; neither the account state nor the    *)
(* mempool is touched.                                                     *)

\* Mutant: the parent is not compared.
AcceptsAnyParent(b) ==
  /\ b.index = Len(chain)
  /\ verify(b.proof)

Accepts(b) ==
  /\ b.index = Len(chain)
  /\ b.prevHash = Tip.hash
  /\ verify(b.proof)

\* Mutant: a block for the height of the tip replaces the tip.
addBlockReplacing(b) ==
  /\ mutex = Free
  /\ chain' = IF Accepts(b) THEN Append(chain, b)
              ELSE IF b.index > 0 /\ b.index = Len(chain) - 1
                   THEN [chain EXCEPT ![Len(chain)] = b]
                   ELSE chain
  /\ UNCHANGED <<accounts, mempool, mutex>>

addBlock(b) ==
  /\ mutex = Free
  /\ chain' = IF Accepts(b) THEN Append(chain, b) ELSE chain
  /\ UNCHANGED <<accounts, mempool, mutex>>

-----------------------------------------------------------------------------

Dead == ~alive /\ UNCHANGED vars

Submit(s) ==
  \/ ValidateNonce(s)
  \/ RejectNonce(s)
  \/ ValidateFunds(s)
  \/ RejectFunds(s)
  \/ addTransaction(s)
  \/ LookupRace(s)

getTransactionByHash(r) ==
  \/ LookupBegin(r)
  \/ LookupEnd(r)
  \/ SearchRace(r)

mineBlock ==
  \/ MineStart
  \/ MineTouch
  \/ MineThrow
  \/ MineDebit
  \/ MineNonce
  \/ MineCredit
  \/ MinePush
  \/ MineClear

Next ==
  \/ \E s \in Submitters : Submit(s)
  \/ \E r \in Readers : getTransactionByHash(r)
  \/ mineBlock
  \/ Dead

\* Threads that can run do run: the scheduler of the operating system. A
\* request that has begun is carried on; none need ever arrive.
Fairness ==
  /\ WF_vars(mineBlock)
  /\ \A s \in Submitters :
       WF_vars(ValidateFunds(s) \/ RejectFunds(s) \/ addTransaction(s))
  /\ \A r \in Readers : WF_vars(LookupEnd(r))

Spec == Init /\ [][Next]_vars /\ Fairness

-----------------------------------------------------------------------------
(* Properties.                                                             *)

SubLocals == [pc : {"idle", "funds", "add"}, tx : Transaction, found : BOOLEAN]

ReaderLocals ==
  [pc : {"idle", "second"}, tx : Transaction, had : BOOLEAN, missed : BOOLEAN]

\* The members and the locals hold values of their C++ types. A chain is a
\* sequence, whatever its blocks are.
TypeOK ==
  /\ chain \in Seq({chain[i] : i \in DOMAIN chain})
  /\ Len(chain) > 0
  /\ accounts \in AccountMap
  /\ mempool \in Seq(Transaction)
  /\ mutex \in {Free, Main}
  /\ sub \in [Submitters -> SubLocals]
  /\ reader \in [Readers -> ReaderLocals]
  /\ DOMAIN main = {"pc", "i", "n", "before", "left"}
  /\ main.pc \in {"idle", "apply", "debit", "nonce", "credit", "clear"}
  /\ main.i \in Nat \ {0} /\ main.n \in Nat /\ main.left \in 0..MineBlocks
  /\ alive \in BOOLEAN

\* Every block starts from the state its predecessor ended in, and between
\* two calls of mineBlock the live account state is the one the newest block
\* committed to: validation by RPC and P2P threads, transactions added while
\* a block is mined, and failing blocks leave no gap in the state history.
StateContinuity ==
  /\ \A i \in 1..(Len(chain) - 1) : chain[i + 1].stateBefore = chain[i].stateAfter
  /\ alive /\ mutex = Free => root(accounts) = Tip.stateAfter

\* A transaction that addTransaction accepted stays in the mempool, in its
\* place, until the whole mempool is dropped at once, and then the newest
\* block carries exactly that mempool.
AcceptedTxsKept ==
  [][ \/ mempool' = mempool
      \/ \E tx \in Txs : mempool' = Append(mempool, tx)
      \/ mempool' = <<>> /\ Tip.transactions = mempool ]_vars

\* A transaction the node has, in the mempool or in a block, is never looked
\* up in vain, although it moves from one to the other under the lookup.
NoLookupMisses == \A r \in Readers : ~reader[r].missed

\* Every call returns: main mines its blocks and every request that passed
\* its first checks is answered, unless the process ends.
CallsReturn ==
  /\ <>(main.left = 0 \/ ~alive)
  /\ \A s \in Submitters : sub[s].pc # "idle" ~> (sub[s].pc = "idle" \/ ~alive)
  /\ \A r \in Readers : reader[r].pc # "idle" ~> (reader[r].pc = "idle" \/ ~alive)
=============================================================================
