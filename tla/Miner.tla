------------------------------- MODULE Miner --------------------------------
(***************************************************************************)
(* The mining engine and the miner (src/zk_mining_engine.cpp,              *)
(* src/miner.cpp) on top of Blockchain. A worker is a thread that builds   *)
(* block templates: the miner's loop, or a caller of getWork / submitWork. *)
(*                                                                         *)
(* buildBlockTemplate takes no lock. It reads the state root, copies the   *)
(* state, walks the mempool, hashes the mempool, reads the chain's size    *)
(* and its last hash, and copies the mempool, each at a moment of its own; *)
(* C++ leaves the order of the two reads in the constructor call (size and *)
(* last hash are arguments) to the compiler. A step is such a read with    *)
(* the local work that comes before it. The workers' addBlock takes        *)
(* the lock; its result is dropped and the block is broadcast regardless.  *)
(* A node with a miner has a P2P node, so main broadcasts what it mines.   *)
(*                                                                         *)
(* Reading a container while another thread changes it is undefined: the   *)
(* outcomes modelled are the old contents and the end of the process.      *)
(* A local that is not read again goes back to its first value.            *)
(***************************************************************************)
EXTENDS Blockchain, SequencesExt

CONSTANTS
  Loop,        \* the thread of Miner::loop
  External,    \* threads that call getWork and then submitWork
  MaxBlocks    \* bound: no template is begun on a chain this long

Workers == {Loop} \cup External

ASSUME WorkersAssumption == Loop \notin External
ASSUME MaxBlocksAssumption == MaxBlocks \in Nat \ {0}

VARIABLES
  work,        \* of each worker: the locals of buildBlockTemplate
  mined,       \* the hash of the block that mineBlock returned to main, until
               \* main has broadcast it
  announced    \* hashes of the blocks handed to broadcastNewBlock

minerVars ==
  <<chain, accounts, mempool, mutex, sub, reader, main, alive, work, mined, announced>>

NoHash == EmptyString

Asleep ==
  [pc |-> "sleep", before |-> NoHash, temp |-> Genesis, txs |-> <<>>,
   after |-> NoHash, txRoot |-> NoHash, size |-> 0, last |-> NoHash,
   block |-> NoHash]

MinerInit ==
  /\ Init
  /\ work = [w \in Workers |-> Asleep]
  /\ mined = NoHash
  /\ announced = {}

-----------------------------------------------------------------------------
(* buildBlockTemplate.                                                     *)

At(w, pc) == alive /\ work[w].pc = pc

ReadRoot(w) ==
  /\ At(w, "sleep")
  /\ Len(chain) < MaxBlocks
  /\ work' = [work EXCEPT ![w] = [Asleep EXCEPT !.pc = "copy", !.before = root(accounts)]]
  /\ UNCHANGED <<vars, mined, announced>>

CopyState(w) ==
  /\ At(w, "copy")
  /\ work' = [work EXCEPT ![w].pc = "begin", ![w].temp = accounts]
  /\ UNCHANGED <<vars, mined, announced>>

\* The range of the loop over the mempool is fixed here.
BeginWalk(w) ==
  /\ At(w, "begin")
  /\ work' = [work EXCEPT ![w].pc = "walk", ![w].txs = mempool]
  /\ UNCHANGED <<vars, mined, announced>>

\* Executes txs[i], txs[i + 1], ... until one of them throws.
Runs(accts, txs) ==
  LET st[i \in 0..Len(txs)] ==
        IF i = 0 THEN [ok |-> TRUE, accts |-> accts]
        ELSE IF st[i - 1].ok /\ CanApply(st[i - 1].accts, txs[i])
             THEN [ok |-> TRUE, accts |-> applyTransaction(st[i - 1].accts, txs[i])]
             ELSE [ok |-> FALSE, accts |-> st[i - 1].accts]
  IN  st[Len(txs)]

\* applyTransaction throws; the loop's catch (...) drops the exception, and
\* a caller of getWork gets it instead of a block.
TemplateThrows(w) ==
  /\ At(w, "walk")
  /\ ~Runs(work[w].temp, work[w].txs).ok
  /\ work' = [work EXCEPT ![w] = Asleep]
  /\ UNCHANGED <<vars, mined, announced>>

\* The end of the walk, and the hash of the mempool as it is by then.
HashMempool(w) ==
  LET run == Runs(work[w].temp, work[w].txs)
  IN  /\ At(w, "walk")
      /\ run.ok
      /\ work' = [work EXCEPT ![w].pc = "header", ![w].after = root(run.accts),
                              ![w].txRoot = computeTxRoot(mempool),
                              ![w].temp = Genesis, ![w].txs = <<>>]
      /\ UNCHANGED <<vars, mined, announced>>

\* The two reads of the header, in either order: 0 and NoHash mean not yet.
ReadSize(w) ==
  /\ At(w, "header")
  /\ work[w].size = 0
  /\ work' = [work EXCEPT ![w].size = Len(chain)]
  /\ UNCHANGED <<vars, mined, announced>>

ReadLast(w) ==
  /\ At(w, "header")
  /\ work[w].last = NoHash
  /\ work' = [work EXCEPT ![w].last = Tip.hash]
  /\ UNCHANGED <<vars, mined, announced>>

Template(w, now) ==
  LET t == work[w]
  IN  NewBlock(t.size, t.last, t.before, t.after, t.txRoot,
               generate(t.before, t.after, t.txRoot), now)

HeaderRead(w) == work[w].size # 0 /\ work[w].last # NoHash

\* The constructor, which reads the clock, and the copy of the mempool.
AttachTxs(w) ==
  /\ At(w, "header")
  /\ HeaderRead(w)
  /\ \E now \in Times :
       LET block == [Template(w, now) EXCEPT !.transactions = mempool]
       IN  work' = [work EXCEPT ![w] = [Asleep EXCEPT !.pc = "submit", !.block = block]]
  /\ UNCHANGED <<vars, mined, announced>>

\* What worker w reads next, or is reading, is changed by another thread: an
\* account inserted under the root or the copy, the mempool moved or cleared
\* under a walk, a hash or a copy of it, the chain moved under the header.
Torn(w) ==
  LET pc == work[w].pc
  IN  \/ pc \in {"sleep", "copy"} /\ Inserting
      \/ pc = "walk" /\ (mempool # work[w].txs \/ MempoolChanging)
      \/ pc = "header" /\ HeaderRead(w) /\ MempoolChanging
      \/ pc = "header" /\ ~HeaderRead(w) /\ ChainGrowing
      \/ /\ pc = "header" /\ ~HeaderRead(w) /\ mutex = Free
         /\ \E v \in Workers \ {w} : work[v].pc = "submit" /\ Accepts(work[v].block)

ReadRace(w) ==
  /\ alive
  /\ Torn(w)
  /\ alive' = FALSE
  /\ UNCHANGED <<members, locals, work, mined, announced>>

-----------------------------------------------------------------------------
(* Miner::loop and Miner::submitWork.                                      *)

validateMinedBlock(b) == verify(b.proof)

\* Mutant: submitWork and the loop forget to broadcast.
SubmitBlockSilently(w) ==
  /\ At(w, "submit")
  /\ addBlock(work[w].block)
  /\ work' = [work EXCEPT ![w] = Asleep]
  /\ UNCHANGED <<locals, alive, mined, announced>>

\* submitWork returns false for a proof that does not verify; it never does so
\* for a block of a template, which carries the proof made for its own inputs.
SubmitBlock(w) ==
  /\ At(w, "submit")
  /\ w = Loop \/ validateMinedBlock(work[w].block)
  /\ addBlock(work[w].block)
  /\ work' = [work EXCEPT ![w].pc = "broadcast"]
  /\ UNCHANGED <<locals, alive, mined, announced>>

Broadcast(w) ==
  /\ At(w, "broadcast")
  /\ announced' = announced \cup {work[w].block.hash}
  /\ work' = [work EXCEPT ![w] = Asleep]
  /\ UNCHANGED <<vars, mined>>

-----------------------------------------------------------------------------
(* The loop of main (app/main.cpp:275-288): mine a block, broadcast it.    *)

\* MineClear is the last step of mineBlock, which returns the newest block.
MainMines ==
  /\ mineBlock
  /\ mined = NoHash
  /\ mined' = IF main.pc = "clear" THEN Tip.hash ELSE NoHash
  /\ UNCHANGED <<work, announced>>

MainBroadcasts ==
  /\ alive
  /\ mined # NoHash
  /\ announced' = announced \cup {mined}
  /\ mined' = NoHash
  /\ UNCHANGED <<vars, work>>

-----------------------------------------------------------------------------

Build(w) ==
  \/ ReadRoot(w)
  \/ CopyState(w)
  \/ BeginWalk(w)
  \/ TemplateThrows(w)
  \/ HashMempool(w)
  \/ ReadSize(w)
  \/ ReadLast(w)
  \/ AttachTxs(w)
  \/ ReadRace(w)

Work(w) == Build(w) \/ SubmitBlock(w) \/ Broadcast(w)

\* The threads of Blockchain other than main.
Others ==
  \/ \E s \in Submitters : Submit(s)
  \/ \E r \in Readers : getTransactionByHash(r)
  \/ Dead

MinerNext ==
  \/ Others /\ UNCHANGED <<work, mined, announced>>
  \/ MainMines
  \/ MainBroadcasts
  \/ \E w \in Workers : Work(w)

\* The miner's loop and main are running threads; external workers come and go.
MinerFairness ==
  /\ WF_minerVars(MainMines \/ MainBroadcasts)
  /\ WF_minerVars(Work(Loop))

MinerSpec == MinerInit /\ [][MinerNext]_minerVars /\ MinerFairness

-----------------------------------------------------------------------------
(* Properties.                                                             *)

\* The chain stays a hash-linked list with consecutive indices, whatever
\* mix of moments the templates of several workers were put together from
\* and whatever main mines between their reads and their addBlock.
ChainLinked ==
  \A i \in DOMAIN chain :
    /\ chain[i].index = i - 1
    /\ i > 1 => chain[i].prevHash = chain[i - 1].hash

\* A block once on the chain stays there unchanged.
AppendOnly == [][IsPrefix(chain, chain')]_minerVars

\* Every block that got onto the chain is announced to the peers, or the
\* worker that built it, or main, is about to announce it.
MinedIsAnnounced ==
  \A i \in 2..Len(chain) :
    \/ chain[i].hash \in announced \cup {mined}
    \/ \E w \in Workers : work[w].pc = "broadcast" /\ work[w].block = chain[i]
    \/ i = Len(chain) /\ main.pc = "clear"

\* Every iteration of the miner's loop comes to its end: a template is built
\* or dropped, and addBlock gets the lock although main mines meanwhile.
LoopIterates == []<>(work[Loop].pc = "sleep" \/ ~alive)

\* "Enable continuous mining" (app/main.cpp:38): the miner keeps adding
\* blocks, unless the process ends.
ContinuousMining == <>(Len(chain) >= MaxBlocks \/ ~alive)

\* "assume stateAfter is authoritative" (src/blockchain.cpp:178): the next
\* block starts from the state that the last block says it ended in.
StateAfterAuthoritative ==
  \A i \in 1..(Len(chain) - 1) : chain[i + 1].stateBefore = chain[i].stateAfter
=============================================================================
