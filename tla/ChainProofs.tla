---------------------------- MODULE ChainProofs -----------------------------
(***************************************************************************)
(* Safety of Blockchain for any number of submitters, transactions and     *)
(* blocks. The inductive invariant adds to the properties what the lock    *)
(* gives mineBlock: while main is inside it, it owns the mutex, and the    *)
(* mempool is the one its loop began with.                                 *)
(*                                                                         *)
(* Then of Miner, for any number of workers too. Every action either       *)
(* leaves the chain alone or appends one block that names the height and   *)
(* the hash of the tip it is appended to: mineBlock because it reads both  *)
(* under the lock, addBlock because it compares both under the lock,       *)
(* however the block came about. And the thread that appended a block is   *)
(* the one that announces it.                                              *)
(*                                                                         *)
(* Then what the chain of a node records: that the blocks replay to their  *)
(* state roots, that a node implements AtomicLedger, and what the accounts *)
(* and the answers to clients have to do with the blocks. They hold for    *)
(* every set of addresses, threads and transactions. Execution, the        *)
(* flattening of the blocks and the sum of the balances are recursive      *)
(* functions. Each is first shown to exist, with the induction lemma UpTo  *)
(* over the set of bounds up to which it does, and then known by its       *)
(* recursion.                                                              *)
(***************************************************************************)
EXTENDS Miner, MCBlockchain, LedgerProofs, SequenceTheorems, FiniteSetTheorems

\* A sequence, whatever its elements are.
IsSeq(s) == s \in Seq({s[i] : i \in DOMAIN s})

\* The lock is held exactly while main is inside mineBlock.
LockInv == mutex = Main <=> main.pc # "idle"

\* The loop of mineBlock runs over the mempool it found when it started.
LoopInv ==
  Working => /\ main.n = Len(mempool) /\ main.i <= main.n + 1
             /\ main.pc # "apply" => main.i <= main.n

\* The state history has no gap, and its next link is prepared: `before' is
\* the tip's state while mineBlock executes, the accounts are it otherwise.
\* Until the mempool is cleared, the block that was pushed carries it.
HistoryInv ==
  /\ \A i \in 1..(Len(chain) - 1) : chain[i + 1].stateBefore = chain[i].stateAfter
  /\ Working => main.before = Tip.stateAfter
  /\ alive /\ ~Working => root(accounts) = Tip.stateAfter
  /\ main.pc = "clear" => Tip.transactions = mempool

\* A call of mineBlock under way is one of those that are left.
LeftInv == main.pc # "idle" => main.left > 0

\* A submitter on its way has one of the clients' transactions.
TxsInv == /\ DOMAIN sub = Submitters
          /\ \A s \in Submitters : sub[s].pc # "idle" => sub[s].tx \in Txs

\* A reader that did not find its transaction in the mempool, although the
\* node had it, finds it in a block.
LookupInv ==
  \A r \in Readers :
    /\ reader[r].pc = "second" /\ reader[r].had => InBlocks(reader[r].tx)
    /\ ~reader[r].missed

IInv == TypeOK /\ LockInv /\ LoopInv /\ LeftInv /\ HistoryInv

-----------------------------------------------------------------------------

\* Elements of a sequence of any elements, and what Append makes of it.
LEMMA AppendIsSeq ==
  ASSUME NEW s, IsSeq(s), NEW e
  PROVE  /\ IsSeq(Append(s, e))
         /\ Len(s) \in Nat /\ Len(Append(s, e)) = Len(s) + 1
         /\ DOMAIN s = 1..Len(s)
         /\ \A i \in 1..Len(s) : Append(s, e)[i] = s[i]
         /\ Append(s, e)[Len(s) + 1] = e
<1> DEFINE S == {s[i] : i \in DOMAIN s} \cup {e}
           t == Append(s, e)
<1>1. s \in Seq(S) /\ e \in S
  <2>1. s \in Seq({s[i] : i \in DOMAIN s})
    BY DEF IsSeq
  <2> QED
    BY <2>1
<1> HIDE DEF S
<1>2. /\ t \in Seq(S)
      /\ Len(s) \in Nat /\ Len(t) = Len(s) + 1
      /\ DOMAIN s = 1..Len(s) /\ DOMAIN t = 1..Len(t)
      /\ \A i \in 1..Len(s) : t[i] = s[i]
      /\ t[Len(s) + 1] = e
  BY <1>1
<1> HIDE DEF t
<1>3. t \in Seq({t[i] : i \in DOMAIN t})
  <2>1. /\ t = [i \in 1..Len(t) |-> t[i]]
        /\ Len(t) \in Nat
    BY <1>2
  <2>2. \A i \in 1..Len(t) : t[i] \in {t[j] : j \in DOMAIN t}
    BY <1>2
  <2> QED
    BY <2>1, <2>2, <1>2
<1> QED
  BY <1>2, <1>3 DEF IsSeq, t

\* A chain with one element.
LEMMA SingletonIsSeq ==
  ASSUME NEW e
  PROVE  IsSeq(<<e>>) /\ Len(<<e>>) = 1 /\ <<e>>[1] = e
<1>1. <<e>> \in Seq({e}) /\ DOMAIN <<e>> = {1} /\ <<e>>[1] = e /\ Len(<<e>>) = 1
  OBVIOUS
<1>2. {<<e>>[i] : i \in DOMAIN <<e>>} = {e}
  BY <1>1
<1> QED
  BY <1>1, <1>2 DEF IsSeq

-----------------------------------------------------------------------------
(* The initial state.                                                      *)

\* The constructor of Blockchain establishes the invariant.
LEMMA InitIInv == Init => IInv
<1> SUFFICES ASSUME Init PROVE IInv
  OBVIOUS
<1>1. PICK now \in Times : chain = <<GenesisBlock(Genesis, now)>>
  BY DEF Init
<1>2. IsSeq(chain) /\ Len(chain) = 1 /\ chain[1] = GenesisBlock(Genesis, now)
  BY <1>1, SingletonIsSeq
<1>3. NoTx \in Transaction
  BY ZeroAddressAssumption, MaxUintAssumption DEF NoTx, Transaction, Word
<1>4. TypeOK
  BY <1>2, <1>3, GenesisAssumption, MineBlocksAssumption
     DEF Init, TypeOK, IsSeq, SubLocals, Idle, ReaderLocals, Resting
<1>5. LockInv /\ LoopInv /\ LeftInv
  BY ThreadsAssumption DEF Init, LockInv, LoopInv, LeftInv, Working
<1>6. Tip.stateAfter = root(Genesis)
  BY <1>2 DEF Tip, GenesisBlock, NewBlock
<1>7. HistoryInv
  BY <1>2, <1>6 DEF Init, HistoryInv, Working
<1> QED
  BY <1>4, <1>5, <1>7 DEF IInv
-----------------------------------------------------------------------------
(* Every step. The actions of a submitter change no part of the invariant  *)
(* but its own locals, and addTransaction finds the lock free.             *)

\* Submitting a transaction keeps the invariant.
LEMMA SubmitIInv ==
  ASSUME IInv, NEW s \in Submitters, Submit(s)
  PROVE  IInv'
<1> USE DEF IInv
<1>1. CASE ValidateNonce(s)
  <2>1. PICK tx \in Txs : sub' = [sub EXCEPT ![s] =
                            [pc |-> "funds", tx |-> tx, found |-> accounts[tx.from].exists]]
    BY <1>1 DEF ValidateNonce
  <2>2. tx \in Transaction /\ accounts[tx.from].exists \in BOOLEAN
    BY TxsAssumption DEF TypeOK, AccountMap, Account, Transaction
  <2>3. sub' \in [Submitters -> SubLocals]
    BY <2>1, <2>2 DEF TypeOK, SubLocals
  <2>4. UNCHANGED <<chain, accounts, mempool, mutex, reader, main, alive>>
    BY <1>1 DEF ValidateNonce, members
  <2> QED
    BY <2>3, <2>4 DEF TypeOK, LockInv, LoopInv, LeftInv, HistoryInv, Tip, Working
<1>2. CASE RejectNonce(s)
  BY <1>2 DEF RejectNonce, vars, TypeOK, LockInv, LoopInv, LeftInv, HistoryInv, Tip, Working
<1>3. CASE ValidateFunds(s)
  <2>1. sub' \in [Submitters -> SubLocals]
    BY <1>3 DEF ValidateFunds, TypeOK, SubLocals
  <2> QED
    BY <1>3, <2>1 DEF ValidateFunds, members, TypeOK, LockInv, LoopInv, LeftInv, HistoryInv, Tip, Working
<1>4. NoTx \in Transaction
  BY ZeroAddressAssumption, MaxUintAssumption DEF NoTx, Transaction, Word
<1>5. CASE RejectFunds(s)
  <2>1. sub' \in [Submitters -> SubLocals]
    BY <1>4, <1>5 DEF RejectFunds, TypeOK, SubLocals, Idle
  <2> QED
    BY <1>5, <2>1 DEF RejectFunds, members, TypeOK, LockInv, LoopInv, LeftInv, HistoryInv, Tip, Working
<1>6. CASE addTransaction(s)
  <2>1. sub' \in [Submitters -> SubLocals] /\ sub[s].tx \in Transaction
    BY <1>4, <1>6 DEF addTransaction, TypeOK, SubLocals, Idle
  <2>2. mempool' \in Seq(Transaction)
    BY <1>6, <2>1 DEF addTransaction, TypeOK
  <2>3. main.pc = "idle"
    BY <1>6, ThreadsAssumption DEF addTransaction, LockInv, TypeOK
  <2> QED
    BY <1>6, <2>1, <2>2, <2>3
       DEF addTransaction, TypeOK, LockInv, LoopInv, LeftInv, HistoryInv, Tip, Working
<1>7. CASE LookupRace(s)
  BY <1>7 DEF LookupRace, members, locals, TypeOK, LockInv, LoopInv, LeftInv, HistoryInv, Tip, Working
<1> QED
  BY <1>1, <1>2, <1>3, <1>5, <1>6, <1>7 DEF Submit

\* The actions of a reader change its locals only, or end the process.
LEMMA ReadIInv ==
  ASSUME IInv, NEW r \in Readers, getTransactionByHash(r)
  PROVE  IInv'
<1> USE DEF IInv
<1>1. UNCHANGED <<chain, accounts, mempool, mutex, sub, main>>
  BY DEF getTransactionByHash, LookupBegin, LookupEnd, SearchRace, members, locals
<1>3. alive' = alive \/ alive' = FALSE
  BY DEF getTransactionByHash, LookupBegin, LookupEnd, SearchRace
<1>2. reader' \in [Readers -> ReaderLocals]
  <2>1. CASE LookupBegin(r)
    <3>1. PICK tx \in Txs : reader' = [reader EXCEPT ![r].pc = "second", ![r].tx = tx,
                                    ![r].had = InMempool(tx) \/ InBlocks(tx)]
      BY <2>1 DEF LookupBegin
    <3> DEFINE had == InMempool(tx) \/ InBlocks(tx)
    <3>2. tx \in Transaction /\ had \in BOOLEAN
      BY TxsAssumption
    <3>3. reader' = [reader EXCEPT ![r].pc = "second", ![r].tx = tx, ![r].had = had]
      BY <3>1
    <3> HIDE DEF had
    <3> DEFINE next == [reader[r] EXCEPT !.pc = "second", !.tx = tx, !.had = had]
    <3>4. reader[r] \in ReaderLocals
      BY DEF TypeOK
    <3>5. next \in ReaderLocals
      BY <3>2, <3>4 DEF ReaderLocals
    <3>6. reader' = [reader EXCEPT ![r] = next]
      BY <3>3
    <3> HIDE DEF next
    <3> QED
      BY <3>5, <3>6 DEF TypeOK
  <2>2. CASE LookupEnd(r)
    <3>1. NoTx \in Transaction
      BY ZeroAddressAssumption, MaxUintAssumption DEF NoTx, Transaction, Word
    <3>2. reader[r].missed \in BOOLEAN /\ reader[r].had \in BOOLEAN
      BY DEF TypeOK, ReaderLocals
    <3> DEFINE m == reader[r].missed \/ (reader[r].had /\ ~Scan(2, reader[r].tx))
    <3>3. m \in BOOLEAN
      OBVIOUS
    <3>4. Resting(m) \in ReaderLocals
      BY <3>1, <3>3 DEF ReaderLocals, Resting
    <3>5. reader' = [reader EXCEPT ![r] = Resting(m)]
      BY <2>2 DEF LookupEnd
    <3> HIDE DEF m
    <3> QED
      BY <3>4, <3>5 DEF TypeOK
  <2>3. CASE SearchRace(r)
    BY <2>3 DEF SearchRace, locals, TypeOK
  <2> QED
    BY <2>1, <2>2, <2>3 DEF getTransactionByHash
<1>4. CASE alive' = alive
  BY <1>1, <1>2, <1>4 DEF TypeOK, LockInv, LoopInv, LeftInv, HistoryInv, Tip, Working
<1>5. CASE alive' = FALSE
  BY <1>1, <1>2, <1>5 DEF TypeOK, LockInv, LoopInv, LeftInv, HistoryInv, Tip, Working
<1> QED
  BY <1>3, <1>4, <1>5

\* The writes of applyTransaction to the live accounts.
MineWrite == MineTouch \/ MineDebit \/ MineNonce \/ MineCredit

\* What a write leaves alone: main stays in its loop, at a transaction of the
\* mempool, and all but the accounts and main's place in the loop stays.
LEMMA WriteFrame ==
  ASSUME IInv, MineWrite
  PROVE  /\ alive /\ Working /\ Working'
         /\ main.i \in 1..Len(mempool) /\ mempool[main.i] \in Transaction
         /\ DOMAIN main' = {"pc", "i", "n", "before", "left"}
         /\ main'.n = main.n /\ main'.before = main.before /\ main'.left = main.left
         /\ IF MineCredit THEN main'.pc = "apply" /\ main'.i = main.i + 1
                          ELSE main'.pc # "apply" /\ main'.i = main.i
         /\ UNCHANGED <<chain, mempool, mutex, sub, reader, alive>>
<1> USE DEF IInv
<1>1. /\ DOMAIN main = {"pc", "i", "n", "before", "left"}
      /\ main.i \in Nat \ {0} /\ Len(mempool) \in Nat /\ mempool \in Seq(Transaction)
  BY DEF TypeOK
<1>2. /\ alive
      /\ \/ main.pc = "apply" /\ main.i <= main.n
         \/ main.pc \in {"debit", "nonce", "credit"}
      /\ UNCHANGED <<chain, mempool, mutex, sub, reader, alive>>
  BY DEF MineWrite, MineTouch, MineDebit, MineNonce, MineCredit
<1>3. Working
  BY <1>2 DEF Working
<1>4. main.i \in 1..Len(mempool)
  BY <1>1, <1>2, <1>3 DEF LoopInv
<1>5. mempool[main.i] \in Transaction
  BY <1>1, <1>4
<1>6. CASE MineCredit
  <2>1. main' = [main EXCEPT !.pc = "apply", !.i = @ + 1]
    BY <1>6 DEF MineCredit
  <2>2. /\ DOMAIN main' = {"pc", "i", "n", "before", "left"}
        /\ main'.pc = "apply" /\ main'.i = main.i + 1
        /\ main'.n = main.n /\ main'.before = main.before /\ main'.left = main.left
    BY <1>1, <2>1
  <2> QED
    BY <1>2, <1>3, <1>4, <1>5, <1>6, <2>2 DEF Working
<1>7. CASE ~MineCredit
  <2>1. \E pc \in {"debit", "nonce", "credit"} : main' = [main EXCEPT !.pc = pc]
    BY <1>7 DEF MineWrite, MineTouch, MineDebit, MineNonce
  <2>2. /\ DOMAIN main' = {"pc", "i", "n", "before", "left"}
        /\ main'.pc \in {"debit", "nonce", "credit"} /\ main'.i = main.i
        /\ main'.n = main.n /\ main'.before = main.before /\ main'.left = main.left
    BY <1>1, <2>1
  <2> QED
    BY <1>2, <1>3, <1>4, <1>5, <1>7, <2>2 DEF Working
<1> QED
  BY <1>6, <1>7

\* No write takes an account out of its type.
LEMMA WriteType ==
  ASSUME IInv, MineWrite
  PROVE  accounts' \in AccountMap
<1>1. accounts \in AccountMap /\ mempool[main.i] \in Transaction
  BY WriteFrame DEF IInv, TypeOK
<1>2. CASE MineTouch
  BY <1>1, <1>2, TouchType DEF MineTouch
<1>3. CASE MineDebit
  BY <1>1, <1>3, WithdrawType DEF MineDebit
<1>4. CASE MineNonce
  BY <1>1, <1>4, BumpType DEF MineNonce
<1>5. CASE MineCredit
  BY <1>1, <1>5, CreditType DEF MineCredit
<1> QED
  BY <1>2, <1>3, <1>4, <1>5 DEF MineWrite

\* The steps of mineBlock keep the invariant.
LEMMA MineIInv ==
  ASSUME IInv, mineBlock
  PROVE  IInv'
<1> USE DEF IInv
<1>0. Len(mempool) \in Nat
  BY DEF TypeOK
<1>1. CASE MineStart
  <2>1. main' = [main EXCEPT !.pc = "apply", !.i = 1, !.n = Len(mempool),
                             !.before = root(accounts)]
    BY <1>1 DEF MineStart
  <2>2. /\ DOMAIN main' = {"pc", "i", "n", "before", "left"}
        /\ main'.pc = "apply" /\ main'.i = 1 /\ main'.n = Len(mempool)
        /\ main'.before = root(accounts) /\ main'.left = main.left
    BY <2>1 DEF TypeOK
  <2>3. alive /\ main.pc = "idle" /\ mutex' = Main
        /\ UNCHANGED <<chain, accounts, mempool, sub, reader, alive>>
    BY <1>1 DEF MineStart
  <2>4. TypeOK'
    BY <1>0, <2>2, <2>3 DEF TypeOK
  <2>5. LockInv' /\ LoopInv' /\ LeftInv'
    BY <1>0, <1>1, <2>2, <2>3 DEF MineStart, LockInv, LoopInv, LeftInv, Working
  <2>6. HistoryInv'
    BY <2>2, <2>3 DEF HistoryInv, Tip, Working
  <2> QED
    BY <2>4, <2>5, <2>6
<1>2. CASE MineWrite
  <2>1. TypeOK'
    <3>1. accounts' \in AccountMap
      BY <1>2, WriteType
    <3>2. /\ DOMAIN main' = {"pc", "i", "n", "before", "left"}
          /\ main'.i \in Nat \ {0} /\ main'.n = main.n /\ main'.left = main.left
          /\ main'.pc \in {"idle", "apply", "debit", "nonce", "credit", "clear"}
          /\ UNCHANGED <<chain, mempool, mutex, sub, reader, alive>>
      BY <1>2, WriteFrame DEF TypeOK, Working
    <3> QED
      BY <3>1, <3>2 DEF TypeOK
  <2>2. /\ alive /\ Working /\ Working' /\ main.i \in 1..Len(mempool)
        /\ main'.n = main.n /\ main'.before = main.before /\ main'.left = main.left
        /\ \/ main'.pc = "apply" /\ main'.i = main.i + 1
           \/ main'.pc # "apply" /\ main'.i = main.i
        /\ UNCHANGED <<chain, mempool, mutex, alive>>
    BY <1>2, WriteFrame
  <2>3. LoopInv'
    BY <1>0, <2>2 DEF LoopInv
  <2>4. main.pc # "idle" /\ main'.pc # "idle" /\ main'.pc # "clear"
    BY <2>2 DEF Working
  <2>5. LockInv' /\ LeftInv'
    BY <2>2, <2>4 DEF LockInv, LeftInv
  <2>6. HistoryInv'
    BY <2>2, <2>4 DEF HistoryInv, Tip
  <2> QED
    BY <2>1, <2>3, <2>5, <2>6
<1>3. CASE MineThrow
  <2>3. /\ DOMAIN main' = {"pc", "i", "n", "before", "left"}
        /\ main'.pc = "idle" /\ main'.i = main.i /\ main'.n = main.n
        /\ main'.before = main.before /\ main'.left = main.left
    BY <1>3 DEF MineThrow, TypeOK
  <2>4. mutex' = Free /\ ~alive' /\ UNCHANGED <<chain, accounts, mempool, sub, reader>>
    BY <1>3 DEF MineThrow
  <2>5. alive' \in BOOLEAN
    BY <1>3 DEF MineThrow
  <2>6. TypeOK'
    BY <2>3, <2>4, <2>5 DEF TypeOK
  <2>7. LockInv' /\ LoopInv' /\ LeftInv'
    BY <2>3, <2>4, ThreadsAssumption DEF LockInv, LoopInv, LeftInv, Working
  <2>8. HistoryInv'
    BY <2>3, <2>4 DEF HistoryInv, Tip, Working
  <2> QED
    BY <2>6, <2>7, <2>8
<1>4. CASE MinePush
  <2>1. PICK now \in Times : chain' = Append(chain, MinedBlock(now))
    BY <1>4 DEF MinePush
  <2>2. /\ MinedBlock(now).stateBefore = main.before
        /\ MinedBlock(now).stateAfter = root(accounts)
        /\ MinedBlock(now).transactions = mempool
    BY DEF MinedBlock, NewBlock
  <2>3. IsSeq(chain) /\ Len(chain) \in Nat
    BY AppendIsSeq DEF TypeOK, IsSeq
  <2>4. /\ IsSeq(chain')
        /\ Len(chain') = Len(chain) + 1
        /\ \A i \in 1..Len(chain) : chain'[i] = chain[i]
        /\ chain'[Len(chain) + 1] = MinedBlock(now)
    BY <2>1, <2>3, AppendIsSeq
  <2>5. /\ DOMAIN main' = {"pc", "i", "n", "before", "left"}
        /\ main'.pc = "clear" /\ main'.i = main.i /\ main'.n = main.n
        /\ main'.left = main.left
    BY <1>4 DEF MinePush, TypeOK
  <2>6. /\ alive /\ main.pc = "apply"
        /\ UNCHANGED <<accounts, mempool, mutex, sub, reader, alive>>
    BY <1>4 DEF MinePush
  <2>8. TypeOK'
    BY <2>3, <2>4, <2>5, <2>6 DEF TypeOK, IsSeq
  <2>9. LockInv' /\ LoopInv' /\ LeftInv'
    BY <2>5, <2>6 DEF LockInv, LoopInv, LeftInv, Working
  <2>10. HistoryInv'
    <3>1. main.before = chain[Len(chain)].stateAfter
      BY <2>6 DEF HistoryInv, Tip, Working
    <3>2. ASSUME NEW i \in 1..(Len(chain') - 1)
          PROVE  chain'[i + 1].stateBefore = chain'[i].stateAfter
      <4>1. i \in 1..Len(chain)
        BY <2>3, <2>4
      <4>2. CASE i = Len(chain)
        BY <4>1, <4>2, <3>1, <2>2, <2>3, <2>4
      <4>3. CASE i # Len(chain)
        <5>1. i \in 1..(Len(chain) - 1) /\ i + 1 \in 1..Len(chain)
          BY <4>1, <4>3, <2>3
        <5> QED
          BY <5>1, <4>1, <2>4 DEF HistoryInv
      <4> QED
        BY <4>2, <4>3
    <3>3. root(accounts') = (Tip.stateAfter)' /\ Tip'.transactions = mempool'
      BY <2>2, <2>3, <2>4, <2>6 DEF Tip
    <3> QED
      BY <3>2, <3>3, <2>5 DEF HistoryInv, Working
  <2> QED
    BY <2>8, <2>9, <2>10
<1>5. CASE MineClear
  <2>1. /\ DOMAIN main' = {"pc", "i", "n", "before", "left"}
        /\ main'.pc = "idle" /\ main'.i = main.i /\ main'.n = main.n
        /\ main'.left = main.left - 1
    BY <1>5 DEF MineClear, TypeOK
  <2>2. /\ alive /\ main.pc = "clear" /\ mutex' = Free /\ mempool' = <<>>
        /\ UNCHANGED <<chain, accounts, sub, reader, alive>>
    BY <1>5 DEF MineClear
  <2>3. main.left > 0
    BY <2>2 DEF LeftInv
  <2>4. TypeOK'
    BY <2>1, <2>2, <2>3, MineBlocksAssumption DEF TypeOK
  <2>5. LockInv' /\ LoopInv' /\ LeftInv'
    BY <2>1, <2>2, ThreadsAssumption DEF LockInv, LoopInv, LeftInv, Working
  <2>6. HistoryInv'
    BY <2>1, <2>2 DEF HistoryInv, Tip, Working
  <2> QED
    BY <2>4, <2>5, <2>6
<1> QED
  BY <1>1, <1>2, <1>3, <1>4, <1>5 DEF mineBlock, MineWrite

-----------------------------------------------------------------------------
(* The theorems.                                                           *)

\* Every step of the specification keeps the inductive invariant.
LEMMA NextIInv == IInv /\ [Next]_vars => IInv'
<1> SUFFICES ASSUME IInv, [Next]_vars PROVE IInv'
  OBVIOUS
<1>1. CASE \E s \in Submitters : Submit(s)
  BY <1>1, SubmitIInv
<1>2. CASE mineBlock
  BY <1>2, MineIInv
<1>4. CASE \E r \in Readers : getTransactionByHash(r)
  BY <1>4, ReadIInv
<1>3. CASE Dead \/ UNCHANGED vars
  <2>1. /\ chain' = chain /\ accounts' = accounts /\ mempool' = mempool
        /\ mutex' = mutex /\ sub' = sub /\ reader' = reader /\ main' = main
        /\ alive' = alive
    BY <1>3 DEF Dead, vars
  <2>2. TypeOK' /\ LockInv' /\ LoopInv' /\ LeftInv'
    BY <2>1 DEF IInv, TypeOK, LockInv, LoopInv, LeftInv, Working
  <2>3. HistoryInv'
    BY <2>1 DEF IInv, HistoryInv, Tip, Working
  <2> QED
    BY <2>2, <2>3 DEF IInv
<1> QED
  BY <1>1, <1>2, <1>3, <1>4 DEF Next

\* The inductive invariant holds in every reachable state.
THEOREM Inductive == Spec => []IInv
<1>1. Init => IInv
  BY InitIInv
<1>2. IInv /\ [Next]_vars => IInv'
  BY NextIInv
<1> QED
  BY <1>1, <1>2, PTL DEF Spec

\* The members and the callers' locals keep their types: no balance or nonce
\* ever leaves its word, whatever transactions the clients send.
THEOREM TypeCorrect == Spec => []TypeOK
<1>1. IInv => TypeOK
  BY DEF IInv
<1> QED
  BY <1>1, Inductive, PTL

\* The state history of a node that only mines with mineBlock has no gap,
\* for any number of submitters, transactions and blocks.
THEOREM Continuity == Spec => []StateContinuity
<1>1. IInv => StateContinuity
  BY ThreadsAssumption DEF IInv, TypeOK, LockInv, HistoryInv, StateContinuity, Working
<1> QED
  BY <1>1, Inductive, PTL

\* No step puts anything but a client's transaction on its way.
LEMMA TxsStep ==
  ASSUME TxsInv, [Next]_vars
  PROVE  TxsInv'
<1>1. CASE \E s \in Submitters : Submit(s)
  <2>1. PICK s \in Submitters : Submit(s)
    BY <1>1
  <2>2. CASE ValidateNonce(s)
    BY <2>2 DEF ValidateNonce, TxsInv
  <2>3. CASE ValidateFunds(s)
    BY <2>3 DEF ValidateFunds, TxsInv
  <2>4. CASE RejectFunds(s) \/ addTransaction(s)
    BY <2>4 DEF RejectFunds, addTransaction, TxsInv, Idle
  <2>5. CASE RejectNonce(s) \/ LookupRace(s)
    BY <2>5 DEF RejectNonce, LookupRace, locals, vars, TxsInv
  <2> QED
    BY <2>1, <2>2, <2>3, <2>4, <2>5 DEF Submit
<1>2. CASE mineBlock
  BY <1>2 DEF mineBlock, MineStart, MineTouch, MineThrow, MineDebit, MineNonce, MineCredit, MinePush, MineClear, TxsInv
<1>3. CASE \E r \in Readers : getTransactionByHash(r)
  BY <1>3 DEF getTransactionByHash, LookupBegin, LookupEnd, SearchRace, locals, TxsInv
<1>4. CASE Dead \/ UNCHANGED vars
  BY <1>4 DEF Dead, vars, TxsInv
<1> QED
  BY <1>1, <1>2, <1>3, <1>4 DEF Next

\* No step loses, duplicates or reorders an accepted transaction.
THEOREM TxsKept == Spec => AcceptedTxsKept
<1> DEFINE Kept ==
      \/ mempool' = mempool
      \/ \E tx \in Txs : mempool' = Append(mempool, tx)
      \/ mempool' = <<>> /\ Tip.transactions = mempool
<1>1. ASSUME IInv, TxsInv, [Next]_vars
      PROVE  [Kept]_vars
  <2>1. CASE \E s \in Submitters : Submit(s)
    <3>1. PICK s \in Submitters : Submit(s)
      BY <2>1
    <3>2. CASE addTransaction(s)
      BY <1>1, <3>2 DEF TxsInv, addTransaction
    <3>3. CASE ~addTransaction(s)
      BY <3>1, <3>3
         DEF Submit, ValidateNonce, RejectNonce, ValidateFunds, RejectFunds, LookupRace,
             members, vars
    <3> QED
      BY <3>2, <3>3
  <2>2. CASE \E r \in Readers : getTransactionByHash(r)
    BY <2>2 DEF getTransactionByHash, LookupBegin, LookupEnd, SearchRace, members
  <2>3. CASE mineBlock
    <3>1. CASE MineClear
      BY <1>1, <3>1 DEF MineClear, IInv, HistoryInv
    <3>2. CASE ~MineClear
      BY <2>3, <3>2 DEF mineBlock, MineStart, MineTouch, MineThrow, MineDebit, MineNonce, MineCredit, MinePush
    <3> QED
      BY <3>1, <3>2
  <2>4. CASE Dead \/ UNCHANGED vars
    BY <2>4 DEF Dead, vars
  <2> QED
    BY <1>1, <2>1, <2>2, <2>3, <2>4 DEF Next
<1>2. Init => TxsInv
  BY DEF Init, TxsInv, Idle
<1>3. TxsInv /\ [Next]_vars => TxsInv'
  BY TxsStep
<1> QED
  BY <1>1, <1>2, <1>3, Inductive, PTL DEF Spec, AcceptedTxsKept

-----------------------------------------------------------------------------
(* Lookups. What is in a block stays there, so that a reader which misses  *)
(* the mempool because its transaction has just left it finds the block.   *)

\* A transaction in a block of the chain is in a block of a longer chain.
LEMMA BlocksOnlyGrow ==
  ASSUME IInv, [Next]_vars, NEW tx, InBlocks(tx)
  PROVE  InBlocks(tx)'
<1>1. PICK i \in DOMAIN chain :
        \E j \in DOMAIN chain[i].transactions : chain[i].transactions[j] = tx
  BY DEF InBlocks
<1>2. CASE chain' = chain
  BY <1>1, <1>2 DEF InBlocks
<1>3. CASE \E b : chain' = Append(chain, b)
  <2>1. PICK b : chain' = Append(chain, b)
    BY <1>3
  <2>2. IsSeq(chain)
    BY DEF IInv, TypeOK, IsSeq
  <2>3. /\ DOMAIN chain = 1..Len(chain) /\ Len(chain) \in Nat
        /\ \A k \in 1..Len(chain) : chain'[k] = chain[k]
        /\ IsSeq(chain') /\ Len(chain') = Len(chain) + 1
    BY <2>1, <2>2, AppendIsSeq
  <2>4. DOMAIN chain' = 1..Len(chain')
    BY <2>3, AppendIsSeq
  <2>5. i \in DOMAIN chain' /\ chain'[i] = chain[i]
    BY <2>3, <2>4
  <2> QED
    BY <1>1, <2>5 DEF InBlocks
<1>4. chain' = chain \/ \E b : chain' = Append(chain, b)
  <2>1. CASE \E s \in Submitters : Submit(s)
    BY <2>1 DEF Submit, ValidateNonce, RejectNonce, ValidateFunds, RejectFunds,
                addTransaction, LookupRace, members, vars
  <2>2. CASE \E r \in Readers : getTransactionByHash(r)
    BY <2>2 DEF getTransactionByHash, LookupBegin, LookupEnd, SearchRace, members
  <2>3. CASE mineBlock
    BY <2>3 DEF mineBlock, MineStart, MineTouch, MineThrow, MineDebit, MineNonce, MineCredit, MinePush, MineClear
  <2>4. CASE Dead \/ UNCHANGED vars
    BY <2>4 DEF Dead, vars
  <2> QED
    BY <2>1, <2>2, <2>3, <2>4 DEF Next
<1> QED
  BY <1>2, <1>3, <1>4

\* eth_getTransactionByHash, which searches the mempool and then the blocks
\* without the lock, never answers null for a transaction the node has.
THEOREM LookupsFind == Spec => []NoLookupMisses
<1>1. Init => LookupInv
  BY DEF Init, LookupInv, Resting
<1>2. ASSUME IInv, LookupInv, [Next]_vars
      PROVE  LookupInv'
  <2>1. ASSUME UNCHANGED reader
        PROVE  LookupInv'
    BY <1>2, <2>1, BlocksOnlyGrow DEF LookupInv
  <2>2. ASSUME NEW r \in Readers, LookupBegin(r)
        PROVE  LookupInv'
    <3>1. PICK tx \in Txs :
            /\ ~InMempool(tx)
            /\ reader' = [reader EXCEPT ![r].pc = "second", ![r].tx = tx,
                                        ![r].had = InMempool(tx) \/ InBlocks(tx)]
      BY <2>2 DEF LookupBegin, Scan
    <3>2. chain' = chain
      BY <2>2 DEF LookupBegin, members
    <3>3. reader \in [Readers -> ReaderLocals]
      BY <1>2 DEF IInv, TypeOK
    <3>4. ASSUME NEW q \in Readers
          PROVE  /\ reader'[q].pc = "second" /\ reader'[q].had => InBlocks(reader'[q].tx)
                 /\ ~reader'[q].missed
      BY <1>2, <3>1, <3>3 DEF LookupInv, ReaderLocals
    <3> QED
      BY <3>2, <3>4 DEF LookupInv, InBlocks
  <2>3. ASSUME NEW r \in Readers, LookupEnd(r)
        PROVE  LookupInv'
    <3>1. chain' = chain /\ reader[r].pc = "second"
      BY <2>3 DEF LookupEnd, members
    <3>2. reader \in [Readers -> ReaderLocals]
      BY <1>2 DEF IInv, TypeOK
    <3>3. reader[r].had => Scan(2, reader[r].tx)
      BY <1>2, <3>1 DEF LookupInv, Scan
    <3>4. ~reader[r].missed
      BY <1>2 DEF LookupInv
    <3>5. PICK m : /\ m = (reader[r].missed \/ (reader[r].had /\ ~Scan(2, reader[r].tx)))
                   /\ reader' = [reader EXCEPT ![r] = Resting(m)]
      BY <2>3 DEF LookupEnd
    <3>6. ~m
      BY <3>3, <3>4, <3>5
    <3>7. ASSUME NEW q \in Readers
          PROVE  /\ reader'[q].pc = "second" /\ reader'[q].had => InBlocks(reader'[q].tx)
                 /\ ~reader'[q].missed
      <4>1. CASE q = r
        BY <4>1, <3>2, <3>5, <3>6 DEF Resting
      <4>2. CASE q # r
        BY <4>2, <1>2, <3>2, <3>5 DEF LookupInv
      <4> QED
        BY <4>1, <4>2
    <3> QED
      BY <3>1, <3>7 DEF LookupInv, InBlocks
  <2>4. CASE \E s \in Submitters : Submit(s)
    BY <2>1, <2>4 DEF Submit, ValidateNonce, RejectNonce, ValidateFunds, RejectFunds,
                      addTransaction, LookupRace, locals, vars
  <2>5. CASE mineBlock
    BY <2>1, <2>5 DEF mineBlock, MineStart, MineTouch, MineThrow, MineDebit, MineNonce, MineCredit, MinePush, MineClear
  <2>6. CASE Dead \/ UNCHANGED vars
    BY <2>1, <2>6 DEF Dead, vars
  <2>7. CASE \E r \in Readers : SearchRace(r)
    BY <2>1, <2>7 DEF SearchRace, locals
  <2>8. CASE \E r \in Readers : getTransactionByHash(r)
    BY <2>2, <2>3, <2>7, <2>8 DEF getTransactionByHash
  <2> QED
    BY <1>2, <2>4, <2>5, <2>6, <2>8 DEF Next
<1>3. LookupInv => NoLookupMisses
  BY DEF LookupInv, NoLookupMisses
<1> QED
  BY <1>1, <1>2, <1>3, Inductive, PTL DEF Spec

-----------------------------------------------------------------------------
(* The chain of a node that mines continuously, the specification of Miner. *)

\* The chain is a non-empty, hash-linked sequence.
LinkInv == IsSeq(chain) /\ Len(chain) > 0 /\ ChainLinked

\* One step's effect on the chain: nothing, or a block that fits the tip.
Extends ==
  \/ chain' = chain
  \/ \E b : /\ chain' = Append(chain, b)
            /\ b.index = Len(chain)
            /\ b.prevHash = Tip.hash

-----------------------------------------------------------------------------

\* addBlock appends only what fits.
LEMMA AddBlockExtends ==
  ASSUME NEW b, addBlock(b)
  PROVE  Extends
<1>1. CASE Accepts(b)
  BY <1>1 DEF addBlock, Accepts, Extends
<1>2. CASE ~Accepts(b)
  BY <1>2 DEF addBlock, Extends
<1> QED
  BY <1>1, <1>2

\* mineBlock appends only what fits.
LEMMA MineExtends ==
  ASSUME mineBlock
  PROVE  Extends
<1>1. CASE MinePush
  <2>1. PICK now \in Times : chain' = Append(chain, MinedBlock(now))
    BY <1>1 DEF MinePush
  <2>2. MinedBlock(now).index = Len(chain) /\ MinedBlock(now).prevHash = Tip.hash
    BY DEF MinedBlock, NewBlock
  <2> QED
    BY <2>1, <2>2 DEF Extends
<1>2. CASE ~MinePush
  BY <1>2 DEF mineBlock, MineStart, MineTouch, MineThrow, MineDebit, MineNonce, MineCredit, MineClear, Extends
<1> QED
  BY <1>1, <1>2

\* Building a template does not touch the chain; every step extends it.
LEMMA StepExtends ==
  ASSUME [MinerNext]_minerVars
  PROVE  Extends
<1>1. CASE Others
  <2>1. CASE \E s \in Submitters : Submit(s)
    BY <2>1 DEF Submit, ValidateNonce, RejectNonce, ValidateFunds, RejectFunds,
                addTransaction, LookupRace, members, vars, Extends
  <2>2. CASE Dead
    BY <2>2 DEF Dead, vars, Extends
  <2>3. CASE \E r \in Readers : getTransactionByHash(r)
    BY <2>3 DEF getTransactionByHash, LookupBegin, LookupEnd, SearchRace,
                members, Extends
  <2> QED
    BY <1>1, <2>1, <2>2, <2>3 DEF Others
<1>2. ASSUME NEW w \in Workers, Work(w)
      PROVE  Extends
  <2>1. CASE Build(w)
    BY <2>1 DEF Build, ReadRoot, CopyState, BeginWalk, TemplateThrows,
                ReadRace, HashMempool, ReadSize, ReadLast, AttachTxs,
                vars, members, Extends
  <2>2. CASE SubmitBlock(w)
    BY <2>2, AddBlockExtends DEF SubmitBlock
  <2>3. CASE Broadcast(w)
    BY <2>3 DEF Broadcast, vars, Extends
  <2> QED
    BY <1>2, <2>1, <2>2, <2>3 DEF Work
<1>3. CASE UNCHANGED minerVars
  BY <1>3 DEF minerVars, Extends
<1>4. CASE MainMines
  BY <1>4, MineExtends DEF MainMines
<1>5. CASE MainBroadcasts
  BY <1>5 DEF MainBroadcasts, vars, Extends
<1> QED
  BY <1>1, <1>2, <1>3, <1>4, <1>5 DEF MinerNext

\* Appending a block that fits keeps the chain linked.
LEMMA ExtendsLinkInv ==
  ASSUME LinkInv, Extends
  PROVE  LinkInv'
<1>1. CASE chain' = chain
  BY <1>1 DEF LinkInv, ChainLinked
<1>2. CASE \E b : /\ chain' = Append(chain, b)
                  /\ b.index = Len(chain)
                  /\ b.prevHash = Tip.hash
  <2>1. PICK b : /\ chain' = Append(chain, b)
                 /\ b.index = Len(chain)
                 /\ b.prevHash = Tip.hash
    BY <1>2
  <2>2. /\ IsSeq(chain') /\ Len(chain) \in Nat /\ Len(chain') = Len(chain) + 1
        /\ DOMAIN chain = 1..Len(chain)
        /\ \A i \in 1..Len(chain) : chain'[i] = chain[i]
        /\ chain'[Len(chain) + 1] = b
    BY <2>1, AppendIsSeq DEF LinkInv
  <2>3. DOMAIN chain' = 1..(Len(chain) + 1)
    BY <2>2, AppendIsSeq
  <2>4. ASSUME NEW i \in DOMAIN chain'
        PROVE  chain'[i].index = i - 1 /\ (i > 1 => chain'[i].prevHash = chain'[i - 1].hash)
    <3>1. CASE i = Len(chain) + 1
      <4>1. i - 1 = Len(chain) /\ Len(chain) \in 1..Len(chain)
        BY <3>1, <2>2 DEF LinkInv
      <4>2. chain'[i - 1] = Tip
        BY <4>1, <2>2 DEF Tip
      <4> QED
        BY <3>1, <4>1, <4>2, <2>1, <2>2
    <3>2. CASE i # Len(chain) + 1
      <4>1. i \in DOMAIN chain /\ (i > 1 => i - 1 \in DOMAIN chain)
        BY <3>2, <2>2, <2>3
      <4> QED
        BY <4>1, <2>2 DEF LinkInv, ChainLinked
    <3> QED
      BY <3>1, <3>2
  <2> QED
    BY <2>2, <2>4 DEF LinkInv, ChainLinked
<1> QED
  BY <1>1, <1>2 DEF Extends

\* A chain of the genesis block is linked.
LEMMA InitLinkInv == MinerInit => LinkInv
<1> SUFFICES ASSUME MinerInit PROVE LinkInv
  OBVIOUS
<1>1. PICK now \in Times : chain = <<GenesisBlock(Genesis, now)>>
  BY DEF MinerInit, Init
<1>2. IsSeq(chain) /\ Len(chain) = 1 /\ chain[1] = GenesisBlock(Genesis, now)
  BY <1>1, SingletonIsSeq
<1>3. DOMAIN chain = {1}
  BY <1>1
<1>4. chain[1].index = 0
  BY <1>2 DEF GenesisBlock, NewBlock
<1> QED
  BY <1>2, <1>3, <1>4 DEF LinkInv, ChainLinked

-----------------------------------------------------------------------------

\* The chain stays linked by height and hash, for any number of workers whose
\* templates mix reads of any moments, any submitters and any blocks of main.
THEOREM Linked == MinerSpec => []ChainLinked
<1>1. LinkInv /\ [MinerNext]_minerVars => LinkInv'
  BY StepExtends, ExtendsLinkInv
<1>2. LinkInv => ChainLinked
  BY DEF LinkInv
<1> QED
  BY <1>1, <1>2, InitLinkInv, PTL DEF MinerSpec

\* No step removes or changes a block that is on the chain.
THEOREM NeverRewritten == MinerSpec => AppendOnly
<1>1. LinkInv /\ [MinerNext]_minerVars => LinkInv'
  BY StepExtends, ExtendsLinkInv
<1>2. LinkInv /\ [MinerNext]_minerVars => [IsPrefix(chain, chain')]_minerVars
  <2> SUFFICES ASSUME LinkInv, Extends PROVE IsPrefix(chain, chain')
    BY StepExtends
  <2>1. ASSUME Len(chain') \in Nat, Len(chain) <= Len(chain'),
               \A i \in 1..Len(chain) : chain'[i] = chain[i]
        PROVE  IsPrefix(chain, chain')
    BY <2>1 DEF IsPrefix
  <2>2. Len(chain) \in Nat
    BY AppendIsSeq DEF LinkInv
  <2>3. CASE chain' = chain
    BY <2>1, <2>2, <2>3
  <2>4. CASE \E b : chain' = Append(chain, b)
    BY <2>1, <2>2, <2>4, AppendIsSeq DEF LinkInv
  <2> QED
    BY <2>3, <2>4 DEF Extends
<1> QED
  BY <1>1, <1>2, InitLinkInv, PTL DEF MinerSpec, AppendOnly

-----------------------------------------------------------------------------
(* What is mined is announced.                                             *)

\* Main is inside mineBlock only while it holds the lock, and the block it
\* has pushed has a hash.
MainInv ==
  /\ DOMAIN main = {"pc", "i", "n", "before", "left"}
  /\ main.pc # "idle" => mutex # Free
  /\ main.pc = "clear" => Tip.hash # NoHash

\* The workers' locals, and the steps they are at.
WorkInv ==
  /\ DOMAIN work = Workers
  /\ \A w \in Workers : DOMAIN work[w] = DOMAIN Asleep

\* How block i gets to the peers: it was announced, main has its hash and is
\* to announce it, a worker is, or main is about to get it from mineBlock.
Announces(i) ==
  \/ chain[i].hash \in announced
  \/ mined # NoHash /\ chain[i].hash = mined
  \/ \E w \in Workers : work[w].pc = "broadcast" /\ work[w].block = chain[i]
  \/ i = Len(chain) /\ main.pc = "clear"

AnnounceInv == LinkInv /\ MainInv /\ WorkInv /\ \A i \in 2..Len(chain) : Announces(i)

\* The steps of the threads that do not mine change no block, and nothing of
\* main, of the lock or of the announcements.
LEMMA OthersKeep ==
  ASSUME Others
  PROVE  UNCHANGED <<chain, main, mutex>>
<1>1. CASE \E s \in Submitters : Submit(s)
  BY <1>1 DEF Submit, ValidateNonce, RejectNonce, ValidateFunds, RejectFunds,
              addTransaction, LookupRace, members, locals, vars
<1>2. CASE \E r \in Readers : getTransactionByHash(r)
  BY <1>2 DEF getTransactionByHash, LookupBegin, LookupEnd, SearchRace, members, locals
<1>3. CASE Dead
  BY <1>3 DEF Dead, vars
<1> QED
  BY <1>1, <1>2, <1>3 DEF Others

\* A worker that builds a template is not about to announce one, and touches
\* no other worker.
LEMMA BuildKeeps ==
  ASSUME WorkInv, NEW w \in Workers, Build(w)
  PROVE  /\ UNCHANGED <<chain, main, mutex, mined, announced>>
         /\ WorkInv'
         /\ \A v \in Workers : work[v].pc = "broadcast" => work'[v] = work[v]
<1>1. UNCHANGED <<chain, main, mutex, mined, announced>>
  BY DEF Build, ReadRoot, CopyState, BeginWalk, TemplateThrows, ReadRace,
         HashMempool, ReadSize, ReadLast, AttachTxs, vars, members, locals
<1>2. ReadRace(w) => work' = work
  BY DEF ReadRace
<1>3. ASSUME ~ReadRace(w)
      PROVE  /\ work[w].pc # "broadcast"
             /\ \E t : DOMAIN t = DOMAIN Asleep /\ work' = [work EXCEPT ![w] = t]
  <2>1. CASE ReadRoot(w)
    BY <2>1 DEF ReadRoot, At, Asleep
  <2>2. CASE CopyState(w)
    BY <2>2 DEF CopyState, At, WorkInv
  <2>3. CASE BeginWalk(w)
    BY <2>3 DEF BeginWalk, At, WorkInv
  <2>5. CASE TemplateThrows(w)
    BY <2>5 DEF TemplateThrows, At
  <2>6. CASE HashMempool(w)
    BY <2>6 DEF HashMempool, At, WorkInv
  <2>7. CASE ReadSize(w)
    BY <2>7 DEF ReadSize, At, WorkInv
  <2>8. CASE ReadLast(w)
    BY <2>8 DEF ReadLast, At, WorkInv
  <2>9. CASE AttachTxs(w)
    BY <2>9 DEF AttachTxs, At, Asleep
  <2> QED
    BY <1>3, <2>1, <2>2, <2>3, <2>5, <2>6, <2>7, <2>8, <2>9 DEF Build
<1>4. WorkInv' /\ \A v \in Workers : work[v].pc = "broadcast" => work'[v] = work[v]
  <2>1. CASE ReadRace(w)
    BY <1>2, <2>1 DEF WorkInv
  <2>2. CASE ~ReadRace(w)
    BY <1>3, <2>2 DEF WorkInv
  <2> QED
    BY <2>1, <2>2
<1> QED
  BY <1>1, <1>4

\* As long as the chain and main stay as they are, a block whose announcer
\* stays, or has announced it, is still on its way.
LEMMA AnnounceKept ==
  ASSUME AnnounceInv, UNCHANGED <<chain, main, mutex>>, WorkInv',
         announced \subseteq announced', mined # NoHash => mined \in announced' \/ mined' = mined,
         \A v \in Workers : work[v].pc = "broadcast" =>
           work'[v] = work[v] \/ work[v].block.hash \in announced'
  PROVE  AnnounceInv'
<1>1. LinkInv' /\ MainInv'
  BY DEF AnnounceInv, LinkInv, ChainLinked, MainInv, Tip
<1>2. ASSUME NEW i \in 2..Len(chain) PROVE Announces(i)'
  <2>1. Announces(i)
    BY DEF AnnounceInv
  <2>2. CASE chain[i].hash \in announced
    BY <2>2 DEF Announces
  <2>3. CASE mined # NoHash /\ chain[i].hash = mined
    BY <2>3 DEF Announces
  <2>4. CASE \E w \in Workers : work[w].pc = "broadcast" /\ work[w].block = chain[i]
    BY <2>4 DEF Announces
  <2>5. CASE i = Len(chain) /\ main.pc = "clear"
    BY <2>5 DEF Announces
  <2> QED
    BY <2>1, <2>2, <2>3, <2>4, <2>5 DEF Announces
<1> QED
  BY <1>1, <1>2 DEF AnnounceInv

\* What mineBlock does to the chain and the lock.
LEMMA MineKeeps ==
  ASSUME AnnounceInv, mineBlock
  PROVE  /\ MainInv'
         /\ MinePush => main.pc = "apply" /\ main'.pc = "clear" /\ chain' # chain
         /\ ~MinePush => chain' = chain
         /\ main.pc = "clear" <=> MineClear
<1>1. CASE MinePush
  <2>1. PICK now \in Times : chain' = Append(chain, MinedBlock(now))
    BY <1>1 DEF MinePush
  <2>2. MinedBlock(now).hash # NoHash
    BY DEF MinedBlock, NewBlock, computeHash, keccak256, NoHash, EmptyString
  <2>3. Len(chain) \in Nat /\ Len(chain') = Len(chain) + 1 /\ chain'[Len(chain) + 1] = MinedBlock(now)
    BY <2>1, AppendIsSeq DEF AnnounceInv, LinkInv
  <2>4. (Tip.hash)' # NoHash /\ chain' # chain
    BY <2>2, <2>3 DEF Tip
  <2>5. /\ main.pc = "apply" /\ main'.pc = "clear" /\ mutex' = mutex
        /\ DOMAIN main' = DOMAIN main
    BY <1>1 DEF MinePush, AnnounceInv, MainInv
  <2> QED
    BY <1>1, <2>4, <2>5 DEF MineClear, AnnounceInv, MainInv, NoHash
<1>2. CASE MineStart
  BY <1>2, ThreadsAssumption DEF MineStart, MinePush, MineClear, AnnounceInv, MainInv
<1>3. CASE MineWrite
  BY <1>3 DEF MineWrite, MineTouch, MineDebit, MineNonce, MineCredit, MinePush, MineClear,
              AnnounceInv, MainInv
<1>4. CASE MineThrow
  BY <1>4 DEF MineThrow, MinePush, MineClear, AnnounceInv, MainInv
<1>5. CASE MineClear
  BY <1>5 DEF MinePush, MineClear, AnnounceInv, MainInv
<1> QED
  BY <1>1, <1>2, <1>3, <1>4, <1>5 DEF mineBlock, MineWrite

\* A step of main keeps every block on its way to the peers: the one pushed is
\* main's to announce, and main gets its hash when mineBlock returns.
LEMMA MainAnnounces ==
  ASSUME AnnounceInv, MainMines
  PROVE  AnnounceInv'
<1>1. mineBlock /\ mined = NoHash /\ UNCHANGED <<work, announced>>
  BY DEF MainMines
<1>2. MainInv' /\ LinkInv' /\ WorkInv'
  BY <1>1, MineKeeps, MineExtends, ExtendsLinkInv DEF AnnounceInv, WorkInv
<1>3. CASE MinePush
  <2>1. PICK now \in Times : chain' = Append(chain, MinedBlock(now))
    BY <1>3 DEF MinePush
  <2>2. /\ Len(chain) \in Nat /\ Len(chain') = Len(chain) + 1
        /\ \A i \in 1..Len(chain) : chain'[i] = chain[i]
    BY <2>1, AppendIsSeq DEF AnnounceInv, LinkInv
  <2>3. main.pc = "apply" /\ main'.pc = "clear"
    BY <1>1, <1>3, MineKeeps
  <2>4. ASSUME NEW i \in 2..Len(chain') PROVE Announces(i)'
    <3>1. CASE i = Len(chain')
      BY <2>3, <3>1 DEF Announces
    <3>2. CASE i # Len(chain')
      <4>1. i \in 2..Len(chain) /\ chain'[i] = chain[i]
        BY <2>2, <3>2
      <4>2. Announces(i)
        BY <4>1 DEF AnnounceInv
      <4> QED
        BY <1>1, <2>3, <4>1, <4>2 DEF Announces
    <3> QED
      BY <3>1, <3>2
  <2> QED
    BY <1>2, <2>4 DEF AnnounceInv
<1>4. CASE ~MinePush
  <2>1. chain' = chain
    BY <1>1, <1>4, MineKeeps
  <2>2. main.pc = "clear" => mined' = Tip.hash /\ Tip.hash # NoHash
    BY DEF MainMines, AnnounceInv, MainInv
  <2>3. ASSUME NEW i \in 2..Len(chain) PROVE Announces(i)'
    <3>1. Announces(i)
      BY DEF AnnounceInv
    <3>2. CASE i = Len(chain) /\ main.pc = "clear"
      BY <2>1, <2>2, <3>2 DEF Announces, Tip
    <3>3. CASE ~(i = Len(chain) /\ main.pc = "clear")
      BY <1>1, <2>1, <3>1, <3>3 DEF Announces
    <3> QED
      BY <3>2, <3>3
  <2> QED
    BY <1>2, <2>1, <2>3 DEF AnnounceInv
<1> QED
  BY <1>3, <1>4

\* A worker whose block is accepted is the one to announce it. Main is not
\* inside mineBlock then, for addBlock has the lock.
LEMMA SubmitAnnounces ==
  ASSUME AnnounceInv, NEW w \in Workers, SubmitBlock(w)
  PROVE  AnnounceInv'
<1> DEFINE b == work[w].block
<1>1. /\ work[w].pc = "submit" /\ addBlock(b) /\ UNCHANGED <<main, mined, announced>>
      /\ work' = [work EXCEPT ![w].pc = "broadcast"]
  BY DEF SubmitBlock, At, locals
<1>2. /\ mutex = Free /\ mutex' = mutex
      /\ chain' = chain \/ chain' = Append(chain, b)
  BY <1>1 DEF addBlock
<1>3. main.pc = "idle"
  BY <1>2 DEF AnnounceInv, MainInv
<1>4. MainInv' /\ WorkInv' /\ LinkInv'
  BY <1>1, <1>2, <1>3, AddBlockExtends, ExtendsLinkInv DEF AnnounceInv, MainInv, WorkInv
<1>5. /\ work'[w].pc = "broadcast" /\ work'[w].block = b
      /\ \A v \in Workers : work[v].pc = "broadcast" => work'[v] = work[v]
  BY <1>1 DEF AnnounceInv, WorkInv, Asleep
<1>6. ASSUME NEW i \in 2..Len(chain), chain'[i] = chain[i] PROVE Announces(i)'
  <2>1. Announces(i)
    BY DEF AnnounceInv
  <2> QED
    BY <1>1, <1>3, <1>5, <1>6, <2>1 DEF Announces
<1>7. CASE chain' = chain
  BY <1>4, <1>6, <1>7 DEF AnnounceInv
<1>8. CASE chain' = Append(chain, b)
  <2>1. /\ Len(chain) \in Nat /\ Len(chain') = Len(chain) + 1
        /\ \A i \in 1..Len(chain) : chain'[i] = chain[i]
        /\ chain'[Len(chain) + 1] = b
    BY <1>8, AppendIsSeq DEF AnnounceInv, LinkInv
  <2>2. ASSUME NEW i \in 2..Len(chain') PROVE Announces(i)'
    <3>1. CASE i = Len(chain')
      BY <1>5, <2>1, <3>1 DEF Announces
    <3>2. CASE i # Len(chain')
      BY <1>6, <2>1, <3>2
    <3> QED
      BY <3>1, <3>2
  <2> QED
    BY <1>4, <2>2 DEF AnnounceInv
<1> QED
  BY <1>2, <1>7, <1>8

\* No block gets onto the chain unannounced: each was announced, or the thread
\* that put it there, a worker or main, is at a step from which it announces
\* it, whatever other blocks it was overtaken by.
THEOREM Announced == MinerSpec => []MinedIsAnnounced
<1>1. MinerInit => AnnounceInv
  <2> SUFFICES ASSUME MinerInit PROVE AnnounceInv
    OBVIOUS
  <2>1. LinkInv /\ Len(chain) = 1
    BY InitLinkInv DEF MinerInit, Init
  <2>2. MainInv /\ WorkInv
    BY DEF MinerInit, Init, MainInv, WorkInv
  <2> QED
    BY <2>1, <2>2 DEF AnnounceInv
<1>2. AnnounceInv /\ [MinerNext]_minerVars => AnnounceInv'
  <2> SUFFICES ASSUME AnnounceInv, [MinerNext]_minerVars PROVE AnnounceInv'
    OBVIOUS
  <2>1. CASE Others /\ UNCHANGED <<work, mined, announced>>
    BY <2>1, OthersKeep, AnnounceKept DEF AnnounceInv, WorkInv
  <2>2. CASE MainMines
    BY <2>2, MainAnnounces
  <2>3. CASE MainBroadcasts
    BY <2>3, AnnounceKept DEF MainBroadcasts, vars, AnnounceInv, WorkInv
  <2>4. ASSUME NEW w \in Workers, Work(w) PROVE AnnounceInv'
    <3>1. CASE Build(w)
      BY <3>1, BuildKeeps, AnnounceKept DEF AnnounceInv
    <3>2. CASE SubmitBlock(w)
      BY <3>2, SubmitAnnounces
    <3>3. CASE Broadcast(w)
      <4>1. /\ UNCHANGED <<chain, main, mutex, mined>>
            /\ announced' = announced \cup {work[w].block.hash}
            /\ work' = [work EXCEPT ![w] = Asleep]
        BY <3>3 DEF Broadcast, vars
      <4>2. WorkInv' /\ \A v \in Workers : v # w => work'[v] = work[v]
        BY <4>1 DEF AnnounceInv, WorkInv
      <4> QED
        BY <4>1, <4>2, AnnounceKept
    <3> QED
      BY <2>4, <3>1, <3>2, <3>3 DEF Work
  <2>5. CASE UNCHANGED minerVars
    BY <2>5, AnnounceKept DEF minerVars, AnnounceInv, WorkInv
  <2> QED
    BY <2>1, <2>2, <2>3, <2>4, <2>5 DEF MinerNext
<1>3. AnnounceInv => MinedIsAnnounced
  BY DEF AnnounceInv, Announces, MinedIsAnnounced
<1> QED
  BY <1>1, <1>2, <1>3, PTL DEF MinerSpec

-----------------------------------------------------------------------------
(* Execution, one transaction after the other.                             *)

\* f holds the account maps that executing the first n of txs goes through.
StatesOf(f, accts, txs, n) ==
  f = [i \in 0..n |-> IF i = 0 THEN accts ELSE applyTransaction(f[i - 1], txs[i])]

\* The execution of any transactions goes through some account maps.
LEMMA StatesExist ==
  ASSUME NEW n \in Nat, NEW accts, NEW txs
  PROVE  \E f : StatesOf(f, accts, txs, n)
<1> DEFINE step(f, i) == IF i = 0 THEN accts ELSE applyTransaction(f[i - 1], txs[i])
           S == {m \in Nat : \E f : f = [i \in 0..m |-> step(f, i)]}
<1>1. 0 \in S
  <2> DEFINE g == [i \in 0..0 |-> accts]
  <2>1. g = [i \in 0..0 |-> step(g, i)]
    OBVIOUS
  <2> QED
    BY <2>1
<1>2. ASSUME NEW m \in 1..n, m - 1 \in S
      PROVE  m \in S
  <2>1. PICK g : g = [i \in 0..(m - 1) |-> step(g, i)]
    BY <1>2
  <2> DEFINE h == [i \in 0..m |-> IF i < m THEN g[i] ELSE applyTransaction(g[m - 1], txs[m])]
  <2>2. ASSUME NEW i \in 0..m PROVE h[i] = step(h, i)
    <3>1. CASE i = 0
      BY <2>1, <3>1
    <3>2. CASE i \in 1..(m - 1)
      <4>1. g[i] = applyTransaction(g[i - 1], txs[i])
        BY <2>1, <3>2
      <4>2. h[i] = g[i] /\ h[i - 1] = g[i - 1]
        BY <3>2
      <4> QED
        BY <3>2, <4>1, <4>2
    <3>3. CASE i = m
      BY <2>1, <3>3
    <3> QED
      BY <3>1, <3>2, <3>3
  <2>3. h = [i \in 0..m |-> step(h, i)]
    BY <2>2
  <2>4. m \in Nat
    OBVIOUS
  <2> HIDE DEF h
  <2> QED
    BY <2>3, <2>4
<1> HIDE DEF S
<1>3. n \in S
  BY <1>1, <1>2, UpTo
<1> QED
  BY <1>3 DEF S, StatesOf

\* The maps that the abstract ledger's execution goes through.
LEMMA StatesStep ==
  ASSUME NEW accts, NEW txs \in Seq(Transaction)
  PROVE  /\ Abstract!States(accts, txs)[0] = accts
         /\ \A i \in 1..Len(txs) : Abstract!States(accts, txs)[i] =
              applyTransaction(Abstract!States(accts, txs)[i - 1], txs[i])
<1> DEFINE chosen == CHOOSE f : StatesOf(f, accts, txs, Len(txs))
<1>1. Len(txs) \in Nat
  OBVIOUS
<1>2. StatesOf(chosen, accts, txs, Len(txs))
  BY <1>1, StatesExist
<1>3. Abstract!States(accts, txs) = chosen
  BY DEF Abstract!States, StatesOf, Abstract!applyTransaction, Abstract!Credit, Abstract!Bump,
         Abstract!Withdraw, Abstract!Touch, Abstract!getOrCreate, Abstract!Wrap,
         applyTransaction, Credit, Bump, Withdraw, Touch, getOrCreate, Wrap
<1> HIDE DEF chosen
<1> QED
  BY <1>1, <1>2, <1>3 DEF StatesOf

\* The maps up to the n-th depend on the first n transactions only.
LEMMA StatesPrefix ==
  ASSUME NEW accts, NEW s \in Seq(Transaction), NEW t \in Seq(Transaction),
         NEW n \in Nat, n <= Len(s), n <= Len(t), \A i \in 1..n : s[i] = t[i]
  PROVE  \A i \in 0..n : Abstract!States(accts, s)[i] = Abstract!States(accts, t)[i]
<1> DEFINE a == Abstract!States(accts, s)
           b == Abstract!States(accts, t)
           S == {i \in 0..n : a[i] = b[i]}
<1>1. a[0] = accts /\ \A i \in 1..Len(s) : a[i] = applyTransaction(a[i - 1], s[i])
  BY StatesStep
<1>2. b[0] = accts /\ \A i \in 1..Len(t) : b[i] = applyTransaction(b[i - 1], t[i])
  BY StatesStep
<1> HIDE DEF a, b
<1>3. 0 \in S
  BY <1>1, <1>2
<1>4. ASSUME NEW i \in 1..n, i - 1 \in S PROVE i \in S
  BY <1>1, <1>2, <1>4
<1>5. 0..n \subseteq S
  <2> HIDE DEF S
  <2> QED
    BY <1>3, <1>4, UpTo
<1> QED
  BY <1>5 DEF a, b

\* Execution of two sequences, one after the other.
LEMMA StatesConcat ==
  ASSUME NEW accts, NEW s \in Seq(Transaction), NEW t \in Seq(Transaction)
  PROVE  \A k \in 0..Len(t) :
           Abstract!States(accts, s \o t)[Len(s) + k] =
             Abstract!States(Abstract!Execute(accts, s), t)[k]
<1> DEFINE st == s \o t
           a == Abstract!States(accts, st)
           mid == Abstract!Execute(accts, s)
           b == Abstract!States(mid, t)
           S == {k \in 0..Len(t) : a[Len(s) + k] = b[k]}
<1>1. /\ st \in Seq(Transaction) /\ Len(st) = Len(s) + Len(t)
      /\ Len(s) \in Nat /\ Len(t) \in Nat
      /\ \A i \in 1..Len(s) : st[i] = s[i]
      /\ \A k \in 1..Len(t) : st[Len(s) + k] = t[k]
  OBVIOUS
<1> HIDE DEF st
<1>2. a[0] = accts /\ \A i \in 1..Len(st) : a[i] = applyTransaction(a[i - 1], st[i])
  BY <1>1, StatesStep
<1>3. b[0] = mid /\ \A k \in 1..Len(t) : b[k] = applyTransaction(b[k - 1], t[k])
  BY StatesStep
<1>4. a[Len(s)] = mid
  <2> DEFINE n == Len(s)
  <2>1. n \in Nat /\ n <= Len(s) /\ n <= Len(st) /\ \A i \in 1..n : s[i] = st[i]
    BY <1>1
  <2>2. \A i \in 0..n : Abstract!States(accts, s)[i] = Abstract!States(accts, st)[i]
    <3> HIDE DEF n
    <3> QED
      BY <1>1, <2>1, StatesPrefix
  <2> QED
    BY <2>1, <2>2 DEF Abstract!Execute
<1> HIDE DEF a, b, mid
<1>5. 0 \in S
  BY <1>1, <1>3, <1>4
<1>6. ASSUME NEW k \in 1..Len(t), k - 1 \in S PROVE k \in S
  <2>1. Len(s) + k \in 1..Len(st) /\ (Len(s) + k) - 1 = Len(s) + (k - 1)
    BY <1>1
  <2>2. a[Len(s) + k] = applyTransaction(a[Len(s) + (k - 1)], st[Len(s) + k])
    BY <1>2, <2>1
  <2> QED
    BY <1>1, <1>3, <1>6, <2>2
<1>7. 0..Len(t) \subseteq S
  <2> HIDE DEF S
  <2> QED
    BY <1>1, <1>5, <1>6, UpTo
<1> QED
  BY <1>7 DEF a, b, mid, st
-----------------------------------------------------------------------------
(* The history recorded in the blocks.                                     *)

Join(s, t) == s \o t

\* f holds the concatenations of the first 1, 2, ..., n of the sequences ss.
JoinsOf(f, ss, n) == f = [i \in 1..n |-> IF i = 1 THEN ss[i] ELSE Join(f[i - 1], ss[i])]

\* Any sequences can be joined.
LEMMA JoinsExist ==
  ASSUME NEW n \in Nat, NEW ss
  PROVE  \E f : JoinsOf(f, ss, n)
<1> DEFINE step(f, i) == IF i = 1 THEN ss[i] ELSE Join(f[i - 1], ss[i])
           S == {m \in Nat : \E f : f = [i \in 1..m |-> step(f, i)]}
<1>1. 0 \in S
  <2> DEFINE g == [i \in 1..0 |-> 0]
  <2>1. g = [i \in 1..0 |-> step(g, i)]
    OBVIOUS
  <2> QED
    BY <2>1
<1>2. ASSUME NEW m \in 1..n, m - 1 \in S
      PROVE  m \in S
  <2>1. PICK g : g = [i \in 1..(m - 1) |-> step(g, i)]
    BY <1>2
  <2> DEFINE h == [i \in 1..m |-> IF i < m THEN g[i] ELSE step(g, m)]
  <2>2. ASSUME NEW i \in 1..m PROVE h[i] = step(h, i)
    <3>1. CASE i < m
      <4>1. g[i] = step(g, i)
        BY <2>1, <3>1
      <4>2. i # 1 => h[i - 1] = g[i - 1]
        BY <3>1
      <4> QED
        BY <3>1, <4>1, <4>2
    <3>2. CASE i = m
      <4>1. i # 1 => h[i - 1] = g[i - 1]
        BY <3>2
      <4> QED
        BY <3>2, <4>1
    <3> QED
      BY <3>1, <3>2
  <2>3. h = [i \in 1..m |-> step(h, i)]
    BY <2>2
  <2>4. m \in Nat
    OBVIOUS
  <2> HIDE DEF h
  <2> QED
    BY <2>3, <2>4
<1> HIDE DEF S
<1>3. n \in S
  BY <1>1, <1>2, UpTo
<1> QED
  BY <1>3 DEF S, JoinsOf

\* What FlattenSeq makes of at least one sequence.
LEMMA Flattened ==
  ASSUME NEW ss \in Seq(Seq(Transaction)), Len(ss) > 0
  PROVE  \E f : JoinsOf(f, ss, Len(ss)) /\ FlattenSeq(ss) = f[Len(ss)]
<1> DEFINE chosen == CHOOSE f : JoinsOf(f, ss, Len(ss))
<1>1. Len(ss) \in Nat
  OBVIOUS
<1>2. JoinsOf(chosen, ss, Len(ss))
  BY <1>1, JoinsExist
<1>3. FlattenSeq(ss) = chosen[Len(ss)]
  BY DEF FlattenSeq, JoinsOf, Join
<1> QED
  BY <1>2, <1>3

\* Joined sequences of transactions are one, and depend on what is joined only.
LEMMA JoinsAgree ==
  ASSUME NEW ss \in Seq(Seq(Transaction)), NEW n \in Nat, n <= Len(ss),
         NEW tt, NEW m \in Nat, n <= m, \A i \in 1..n : ss[i] = tt[i],
         NEW f, JoinsOf(f, ss, n), NEW g, JoinsOf(g, tt, m)
  PROVE  \A i \in 1..n : f[i] = g[i] /\ f[i] \in Seq(Transaction)
<1> DEFINE S == {i \in 0..n : i = 0 \/ (f[i] = g[i] /\ f[i] \in Seq(Transaction))}
<1>1. \A i \in 1..n : /\ f[i] = IF i = 1 THEN ss[i] ELSE Join(f[i - 1], ss[i])
                      /\ g[i] = IF i = 1 THEN ss[i] ELSE Join(g[i - 1], ss[i])
                      /\ ss[i] \in Seq(Transaction)
  <2>1. f = [i \in 1..n |-> IF i = 1 THEN ss[i] ELSE Join(f[i - 1], ss[i])]
    BY DEF JoinsOf
  <2>2. g = [i \in 1..m |-> IF i = 1 THEN tt[i] ELSE Join(g[i - 1], tt[i])]
    BY DEF JoinsOf
  <2> QED
    BY <2>1, <2>2
<1>2. 0 \in S
  OBVIOUS
<1>3. ASSUME NEW i \in 1..n, i - 1 \in S PROVE i \in S
  <2>1. CASE i = 1
    BY <1>1, <2>1
  <2>2. CASE i # 1
    <3>1. f[i - 1] = g[i - 1] /\ f[i - 1] \in Seq(Transaction)
      BY <1>3, <2>2
    <3>2. Join(f[i - 1], ss[i]) \in Seq(Transaction)
      BY <1>1, <3>1 DEF Join
    <3> QED
      BY <1>1, <2>2, <3>1, <3>2
  <2> QED
    BY <2>1, <2>2
<1>4. 0..n \subseteq S
  <2> HIDE DEF S
  <2> QED
    BY <1>2, <1>3, UpTo
<1> QED
  BY <1>4

\* All transactions of the first n blocks of a chain c, in order.
HistoryOf(c, n) == FlattenSeq([i \in 1..n |-> c[i].transactions])

\* The first n blocks of a chain carry transactions.
Carried(c, n) == \A i \in 1..n : c[i].transactions \in Seq(Transaction)

\* No blocks have no history.
LEMMA NoHistory == ASSUME NEW c PROVE HistoryOf(c, 0) = <<>>
<1>1. [i \in 1..0 |-> c[i].transactions] = <<>>
  OBVIOUS
<1> QED
  BY <1>1 DEF HistoryOf, FlattenSeq

\* The history of n blocks is a sequence of transactions.
LEMMA HistoryType ==
  ASSUME NEW c, NEW n \in Nat, Carried(c, n)
  PROVE  HistoryOf(c, n) \in Seq(Transaction)
<1> DEFINE ss == [i \in 1..n |-> c[i].transactions]
<1>1. ss \in Seq(Seq(Transaction)) /\ Len(ss) = n
  BY DEF Carried
<1>2. HistoryOf(c, n) = FlattenSeq(ss)
  BY DEF HistoryOf
<1> HIDE DEF ss
<1>3. CASE n = 0
  <2>1. HistoryOf(c, 0) = <<>>
    BY NoHistory
  <2>2. <<>> \in Seq(Transaction)
    OBVIOUS
  <2> QED
    BY <1>3, <2>1, <2>2
<1>4. CASE n # 0
  <2>1. PICK f : JoinsOf(f, ss, n) /\ FlattenSeq(ss) = f[n]
    BY <1>1, <1>4, Flattened
  <2>2. n <= Len(ss) /\ n <= n /\ \A i \in 1..n : ss[i] = ss[i]
    BY <1>1
  <2>3. \A i \in 1..n : f[i] = f[i] /\ f[i] \in Seq(Transaction)
    BY <1>1, <2>1, <2>2, JoinsAgree
  <2> QED
    BY <1>2, <1>4, <2>1, <2>3
<1> QED
  BY <1>3, <1>4

\* A further block adds its transactions.
LEMMA HistoryStep ==
  ASSUME NEW c, NEW n \in Nat, Carried(c, n + 1)
  PROVE  HistoryOf(c, n + 1) = HistoryOf(c, n) \o c[n + 1].transactions
<1> DEFINE ss == [i \in 1..n |-> c[i].transactions]
           tt == [i \in 1..(n + 1) |-> c[i].transactions]
           last == c[n + 1].transactions
<1>1. /\ ss \in Seq(Seq(Transaction)) /\ Len(ss) = n
      /\ tt \in Seq(Seq(Transaction)) /\ Len(tt) = n + 1
      /\ \A i \in 1..n : ss[i] = tt[i]
      /\ tt[n + 1] = last /\ last \in Seq(Transaction)
  BY DEF Carried
<1>2. HistoryOf(c, n) = FlattenSeq(ss) /\ HistoryOf(c, n + 1) = FlattenSeq(tt)
  BY DEF HistoryOf
<1> HIDE DEF ss, tt, last
<1>3. PICK g : JoinsOf(g, tt, n + 1) /\ FlattenSeq(tt) = g[n + 1]
  BY <1>1, Flattened
<1>4. g[n + 1] = IF n + 1 = 1 THEN last ELSE Join(g[n], last)
  BY <1>1, <1>3 DEF JoinsOf
<1>5. CASE n = 0
  <2>1. HistoryOf(c, n) = <<>>
    BY <1>5, NoHistory
  <2>2. <<>> \o last = last
    BY <1>1
  <2>3. g[n + 1] = last
    BY <1>4, <1>5
  <2> QED
    BY <1>2, <1>3, <2>1, <2>2, <2>3 DEF last
<1>6. CASE n # 0
  <2>1. PICK f : JoinsOf(f, ss, n) /\ FlattenSeq(ss) = f[n]
    BY <1>1, <1>6, Flattened
  <2> DEFINE m == n + 1
  <2>2. m \in Nat /\ n <= m /\ n <= Len(ss) /\ JoinsOf(g, tt, m)
    BY <1>1, <1>3
  <2>3. \A i \in 1..n : f[i] = g[i] /\ f[i] \in Seq(Transaction)
    <3> HIDE DEF m
    <3> QED
      BY <1>1, <2>1, <2>2, JoinsAgree
  <2>4. f[n] = g[n] /\ g[n + 1] = Join(g[n], last)
    BY <1>4, <1>6, <2>3
  <2> QED
    BY <1>2, <1>3, <2>1, <2>4 DEF last, Join
<1> QED
  BY <1>5, <1>6

\* The history depends on the blocks only.
LEMMA HistorySame ==
  ASSUME NEW c, NEW d, NEW n \in Nat, \A i \in 1..n : c[i] = d[i]
  PROVE  HistoryOf(c, n) = HistoryOf(d, n)
<1>1. [i \in 1..n |-> c[i].transactions] = [i \in 1..n |-> d[i].transactions]
  OBVIOUS
<1> QED
  BY <1>1 DEF HistoryOf
-----------------------------------------------------------------------------
(* The inductive invariant.                                                *)

\* A block's txRoot, receipts and hash are those of its contents.
Consistent(b) ==
  /\ b.transactions \in Seq(Transaction)
  /\ b.txRoot = computeTxRoot(b.transactions)
  /\ b.receipts = receiptsOf(b.transactions)
  /\ b.hash = computeHash([b EXCEPT !.receiptsRoot = EmptyString])

\* Block i of a chain c stands at its height, on the block below, and ends in
\* the state that the history up to it leads to.
Placed(c, i) ==
  LET b == c[i]
  IN  /\ Consistent(b)
      /\ b.index = i - 1
      /\ b.prevHash = IF i = 1 THEN ZeroRoot ELSE c[i - 1].hash
      /\ i > 1 => b.receiptsRoot = receiptsRootOf(b.receipts)
      /\ b.stateAfter = root(Abstract!Execute(Genesis, HistoryOf(c, i)))

ChainInv == \A i \in 1..Len(chain) : Placed(chain, i)

\* What the newest block committed to.
Committed == Abstract!Execute(Genesis, HistoryOf(chain, Len(chain)))

\* What is written of a transaction by the time main is at a place of its loop.
Written(pc, accts, tx) ==
  IF pc = "apply" THEN accts
  ELSE IF pc = "debit" THEN Touch(accts, tx)
  ELSE IF pc = "nonce" THEN Withdraw(Touch(accts, tx), tx)
  ELSE Bump(Withdraw(Touch(accts, tx), tx), tx)

\* While mineBlock executes, the accounts are those after the transactions
\* before the loop index and a part of the one at the index, each of the former
\* could be applied, and the latter can if its debit is made.
RunInv ==
  Working =>
    LET states == Abstract!States(Committed, mempool)
    IN  /\ states[main.i - 1] \in AccountMap
        /\ accounts = Written(main.pc, states[main.i - 1], mempool[main.i])
        /\ \A j \in 1..(main.i - 1) : CanApply(states[j - 1], mempool[j])
        /\ InTransit => CanApply(states[main.i - 1], mempool[main.i])

\* An account that does not exist reads as nothing, and the two accounts of a
\* transaction under way exist.
AbsentInv ==
  /\ \A a \in Addr : ~accounts[a].exists => accounts[a] = NoAccount
  /\ main.pc \in {"debit", "nonce", "credit"} =>
       /\ accounts[mempool[main.i].from].exists
       /\ accounts[mempool[main.i].to].exists

CInv == IInv /\ TxsInv /\ ChainInv /\ RunInv /\ AbsentInv
-----------------------------------------------------------------------------

\* Execution of a joined sequence, in terms of what it ends in.
LEMMA ExecuteConcat ==
  ASSUME NEW accts, NEW s \in Seq(Transaction), NEW t \in Seq(Transaction)
  PROVE  Abstract!Execute(accts, s \o t) = Abstract!Execute(Abstract!Execute(accts, s), t)
<1>1. Len(s \o t) = Len(s) + Len(t) /\ Len(t) \in 0..Len(t)
  OBVIOUS
<1>2. Abstract!States(accts, s \o t)[Len(s) + Len(t)] =
        Abstract!States(Abstract!Execute(accts, s), t)[Len(t)]
  BY <1>1, StatesConcat
<1>3. /\ Abstract!Execute(accts, s \o t) = Abstract!States(accts, s \o t)[Len(s \o t)]
      /\ Abstract!Execute(Abstract!Execute(accts, s), t) =
           Abstract!States(Abstract!Execute(accts, s), t)[Len(t)]
  BY DEF Abstract!Execute
<1> QED
  BY <1>1, <1>2, <1>3

\* Nothing executed, nothing changed.
LEMMA ExecuteNone ==
  ASSUME NEW accts
  PROVE  Abstract!Execute(accts, <<>>) = accts
<1>1. <<>> \in Seq(Transaction) /\ Len(<<>>) = 0
  OBVIOUS
<1> QED
  BY <1>1, StatesStep DEF Abstract!Execute

\* A block keeps its place when the chain grows.
LEMMA PlacedSame ==
  ASSUME NEW c, NEW d, NEW i \in Nat \ {0}, \A j \in 1..i : c[j] = d[j], Placed(c, i)
  PROVE  Placed(d, i)
<1>1. HistoryOf(c, i) = HistoryOf(d, i)
  BY HistorySame
<1>2. c[i] = d[i] /\ (i # 1 => c[i - 1] = d[i - 1])
  OBVIOUS
<1> QED
  BY <1>1, <1>2 DEF Placed

\* What mineBlock puts into a block.
LEMMA Made ==
  ASSUME mempool \in Seq(Transaction), NEW now
  PROVE  LET b == MinedBlock(now)
         IN  /\ Consistent(b)
             /\ b.index = Len(chain) /\ b.prevHash = Tip.hash
             /\ b.receiptsRoot = receiptsRootOf(b.receipts)
             /\ b.transactions = mempool /\ b.stateAfter = root(accounts)
<1> DEFINE b == MinedBlock(now)
<1>1. /\ b.transactions = mempool /\ b.txRoot = computeTxRoot(mempool)
      /\ b.receipts = receiptsOf(mempool)
      /\ b.receiptsRoot = receiptsRootOf(receiptsOf(mempool))
      /\ b.index = Len(chain) /\ b.prevHash = Tip.hash /\ b.stateAfter = root(accounts)
  BY DEF MinedBlock, NewBlock
<1>2. b.hash = computeHash([b EXCEPT !.receiptsRoot = EmptyString])
  BY DEF MinedBlock, NewBlock, computeHash
<1> QED
  BY <1>1, <1>2 DEF Consistent

\* The genesis block carries nothing.
LEMMA GenesisHistory ==
  ASSUME NEW c, NEW now, c[1] = GenesisBlock(Genesis, now)
  PROVE  HistoryOf(c, 1) = <<>>
<1>1. c[1].transactions = <<>>
  BY DEF GenesisBlock, NewBlock
<1>2. Carried(c, 0 + 1)
  <2>1. \A i \in 1..(0 + 1) : i = 1
    OBVIOUS
  <2>2. <<>> \in Seq(Transaction)
    OBVIOUS
  <2> QED
    BY <1>1, <2>1, <2>2 DEF Carried
<1>3. HistoryOf(c, 0 + 1) = HistoryOf(c, 0) \o c[0 + 1].transactions
  BY <1>2, HistoryStep
<1>4. HistoryOf(c, 0) = <<>>
  BY NoHistory
<1> QED
  BY <1>1, <1>3, <1>4

\* The chain at the start.
LEMMA InitChain == Init => ChainInv
<1> SUFFICES ASSUME Init PROVE ChainInv
  OBVIOUS
<1>1. PICK now \in Times : chain = <<GenesisBlock(Genesis, now)>>
  BY DEF Init
<1> DEFINE b == GenesisBlock(Genesis, now)
<1>2. Len(chain) = 1 /\ chain[1] = b
  BY <1>1
<1>3. /\ b.transactions = <<>> /\ b.txRoot = ZeroRoot /\ b.receipts = <<>>
      /\ b.index = 0 /\ b.prevHash = ZeroRoot /\ b.stateAfter = root(Genesis)
  BY DEF GenesisBlock, NewBlock
<1>4. b.hash = computeHash([b EXCEPT !.receiptsRoot = EmptyString])
  BY DEF GenesisBlock, NewBlock, computeHash
<1>5. receiptsOf(<<>>) = <<>> /\ computeTxRoot(<<>>) = ZeroRoot /\ <<>> \in Seq(Transaction)
  BY DEF receiptsOf, computeTxRoot
<1>6. Consistent(b)
  BY <1>3, <1>4, <1>5 DEF Consistent
<1>7. HistoryOf(chain, 1) = <<>>
  BY <1>2, GenesisHistory
<1>8. Abstract!Execute(Genesis, HistoryOf(chain, 1)) = Genesis
  BY <1>7, ExecuteNone
<1>9. Placed(chain, 1)
  BY <1>2, <1>3, <1>6, <1>8 DEF Placed
<1> QED
  BY <1>2, <1>9 DEF ChainInv

\* The blocks carry transactions, and so the history is made of them.
LEMMA ChainHistory ==
  ASSUME ChainInv, Len(chain) \in Nat
  PROVE  /\ Carried(chain, Len(chain))
         /\ HistoryOf(chain, Len(chain)) \in Seq(Transaction)
<1>1. Carried(chain, Len(chain))
  BY DEF ChainInv, Placed, Consistent, Carried
<1> QED
  BY <1>1, HistoryType

\* The block that mineBlock pushes adds the mempool to the history and commits
\* to the accounts, which are what executing the mempool leads to.
LEMMA PushStep ==
  ASSUME IInv, ChainInv, RunInv, MinePush
  PROVE  /\ ChainInv'
         /\ Abstract!Execute(Committed, mempool) = accounts
         /\ HistoryOf(chain', Len(chain')) = HistoryOf(chain, Len(chain)) \o mempool
         /\ Committed' = accounts
         /\ Abstract!Executable(Committed, mempool)
<1> DEFINE n == Len(chain)
<1>1. PICK now \in Times : chain' = Append(chain, MinedBlock(now))
  BY DEF MinePush
<1>2. mempool \in Seq(Transaction) /\ IsSeq(chain) /\ Len(chain) > 0
  BY DEF IInv, TypeOK, IsSeq
<1>3. /\ n \in Nat /\ n > 0 /\ Len(chain') = n + 1
      /\ \A i \in 1..n : chain'[i] = chain[i]
      /\ chain'[n + 1] = MinedBlock(now)
  BY <1>1, <1>2, AppendIsSeq
<1>4. /\ Consistent(chain'[n + 1])
      /\ chain'[n + 1].index = n /\ chain'[n + 1].prevHash = chain[n].hash
      /\ chain'[n + 1].receiptsRoot = receiptsRootOf(chain'[n + 1].receipts)
      /\ chain'[n + 1].transactions = mempool /\ chain'[n + 1].stateAfter = root(accounts)
  BY <1>2, <1>3, Made DEF Tip
<1>5. Carried(chain, n) /\ HistoryOf(chain, n) \in Seq(Transaction)
  BY <1>3, ChainHistory
<1>6. HistoryOf(chain', n + 1) = HistoryOf(chain, n) \o mempool
  <2>1. Carried(chain', n + 1)
    BY <1>2, <1>3, <1>4, <1>5 DEF Carried
  <2>2. HistoryOf(chain', n) = HistoryOf(chain, n)
    BY <1>3, HistorySame
  <2> QED
    BY <1>3, <1>4, <2>1, <2>2, HistoryStep
<1>7. main.pc = "apply" /\ main.i - 1 = Len(mempool) /\ Len(mempool) \in Nat
  BY <1>2 DEF MinePush, IInv, LoopInv, Working, TypeOK
<1>8. accounts = Abstract!Execute(Committed, mempool)
  BY <1>7 DEF RunInv, Working, Written, Abstract!Execute
<1>9. Abstract!Executable(Committed, mempool)
  BY <1>7 DEF RunInv, Working, Abstract!Executable, Abstract!CanApply, CanApply
<1>10. Abstract!Execute(Genesis, HistoryOf(chain', n + 1)) = accounts
  <2> DEFINE h == HistoryOf(chain, n)
  <2>1. Committed = Abstract!Execute(Genesis, h)
    BY DEF Committed
  <2>2. h \in Seq(Transaction) /\ HistoryOf(chain', n + 1) = h \o mempool
    BY <1>5, <1>6
  <2> HIDE DEF h
  <2>3. Abstract!Execute(Genesis, h \o mempool) =
          Abstract!Execute(Abstract!Execute(Genesis, h), mempool)
    BY <1>2, <2>2, ExecuteConcat
  <2> QED
    BY <1>8, <2>1, <2>2, <2>3
<1>11. ASSUME NEW i \in 1..(n + 1)
       PROVE  Placed(chain', i)
  <2>1. CASE i = n + 1
    <3>1. i # 1 /\ i - 1 = n /\ chain'[n] = chain[n]
      BY <1>3, <2>1
    <3> QED
      BY <1>4, <1>10, <2>1, <3>1 DEF Placed
  <2>2. CASE i # n + 1
    <3>1. i \in 1..n /\ i \in Nat \ {0}
      BY <1>3, <2>2
    <3>2. Placed(chain, i)
      BY <3>1 DEF ChainInv
    <3>3. \A j \in 1..i : chain[j] = chain'[j]
      BY <1>3, <3>1
    <3> QED
      BY <3>1, <3>2, <3>3, PlacedSame
  <2> QED
    BY <2>1, <2>2
<1> QED
  BY <1>3, <1>6, <1>8, <1>9, <1>10, <1>11 DEF ChainInv, Committed

\* Outside mineBlock the chain, the accounts and main's locals stand still, and
\* the mempool grows only while main is not mining.
LEMMA CallerStep ==
  ASSUME IInv, TxsInv, [Next]_vars, ~mineBlock
  PROVE  /\ UNCHANGED <<chain, accounts, main>>
         /\ \/ mempool' = mempool
            \/ main.pc = "idle" /\ \E tx \in Txs : mempool' = Append(mempool, tx)
<1>1. CASE \E s \in Submitters : Submit(s)
  <2>1. PICK s \in Submitters : Submit(s)
    BY <1>1
  <2>2. CASE addTransaction(s)
    <3>1. main.pc = "idle"
      BY <2>2, ThreadsAssumption DEF addTransaction, IInv, LockInv, TypeOK
    <3> QED
      BY <2>2, <3>1 DEF addTransaction, TxsInv
  <2>3. CASE ~addTransaction(s)
    BY <2>1, <2>3 DEF Submit, ValidateNonce, RejectNonce, ValidateFunds, RejectFunds,
                      LookupRace, members, locals, vars
  <2> QED
    BY <2>2, <2>3
<1>2. CASE \E r \in Readers : getTransactionByHash(r)
  BY <1>2 DEF getTransactionByHash, LookupBegin, LookupEnd, SearchRace, members, locals
<1>3. CASE Dead \/ UNCHANGED vars
  BY <1>3 DEF Dead, vars
<1> QED
  BY <1>1, <1>2, <1>3 DEF Next

\* What main executes is a client's transaction from the mempool.
LEMMA Executing ==
  ASSUME IInv, Working, main.i <= main.n
  PROVE  /\ main.i \in 1..Len(mempool) /\ mempool[main.i] \in Transaction
         /\ mempool \in Seq(Transaction) /\ accounts \in AccountMap
<1>1. /\ mempool \in Seq(Transaction) /\ accounts \in AccountMap
      /\ main.i \in Nat \ {0} /\ main.n \in Nat /\ main.n = Len(mempool)
  BY DEF IInv, TypeOK, LoopInv
<1> QED
  BY <1>1

\* Between two blocks the accounts are what the newest block committed to.
LEMMA AtRest ==
  ASSUME IInv, ChainInv, alive, ~Working
  PROVE  accounts = Committed
<1>1. root(accounts) = Tip.stateAfter
  BY DEF IInv, HistoryInv
<1>2. Len(chain) \in Nat /\ Len(chain) > 0
  BY AppendIsSeq DEF IInv, TypeOK, IsSeq
<1>3. Tip.stateAfter = root(Committed)
  BY <1>2 DEF ChainInv, Placed, Tip, Committed
<1> QED
  BY <1>1, <1>3 DEF root, keccak256

\* mineBlock keeps the chain replayable and its own execution on course.
LEMMA MineCInv ==
  ASSUME CInv, mineBlock
  PROVE  ChainInv' /\ RunInv'
<1> USE DEF CInv
<1> DEFINE states == Abstract!States(Committed, mempool)
<1>1. CASE MineStart
  <2>1. main'.pc = "apply" /\ main'.i = 1 /\ alive /\ main.pc = "idle"
        /\ UNCHANGED <<chain, accounts, mempool>>
    BY <1>1 DEF MineStart, IInv, TypeOK
  <2>2. accounts = Committed /\ accounts \in AccountMap
    BY <2>1, AtRest DEF Working, IInv, TypeOK
  <2>3. states[0] = Committed
    BY StatesStep DEF IInv, TypeOK
  <2>4. Committed' = Committed
    BY <2>1 DEF Committed
  <2>5. ChainInv'
    BY <2>1 DEF ChainInv
  <2>6. RunInv'
    BY <2>1, <2>2, <2>3, <2>4 DEF RunInv, Written, InTransit
  <2> QED
    BY <2>5, <2>6
<1>2. CASE MineWrite
  <2> DEFINE tx == mempool[main.i]
             from == states[main.i - 1]
  <2>1. /\ Working /\ main.i \in 1..Len(mempool) /\ tx \in Transaction
        /\ UNCHANGED <<chain, mempool>>
        /\ IF MineCredit THEN main'.pc = "apply" /\ main'.i = main.i + 1
                         ELSE main'.pc # "apply" /\ main'.i = main.i
    BY <1>2, WriteFrame
  <2>2. mempool \in Seq(Transaction) /\ accounts' \in AccountMap
    BY <1>2, WriteType DEF IInv, TypeOK
  <2>3. Committed' = Committed /\ states' = states /\ ChainInv'
    BY <2>1 DEF Committed, ChainInv
  <2>4. /\ from \in AccountMap /\ accounts = Written(main.pc, from, tx)
        /\ \A j \in 1..(main.i - 1) : CanApply(states[j - 1], mempool[j])
        /\ InTransit => CanApply(from, tx)
    BY <2>1 DEF RunInv
  <2>5. states[main.i] = applyTransaction(from, tx)
    BY <2>1, <2>2, StatesStep
  <2> HIDE DEF states, from, tx
  <2>6. CASE MineCredit
    <3>1. main.pc = "credit" /\ accounts' = Credit(accounts, tx)
      BY <2>6 DEF MineCredit, tx
    <3>2. accounts' = states[main.i] /\ CanApply(from, tx)
      BY <2>4, <2>5, <3>1 DEF Written, InTransit, applyTransaction
    <3>3. main'.pc = "apply" /\ main'.i - 1 = main.i
      BY <2>1, <2>6
    <3>4. \A j \in 1..main.i : CanApply(states[j - 1], mempool[j])
      BY <2>1, <2>4, <3>2 DEF from, tx
    <3> QED
      BY <2>1, <2>2, <2>3, <3>2, <3>3, <3>4 DEF RunInv, Written, InTransit, states
  <2>7. CASE ~MineCredit
    <3>1. main'.i = main.i
      BY <2>1, <2>7
    <3>2. accounts' = Written(main'.pc, from, tx) /\ (InTransit' => CanApply(from, tx))
      <4>1. CASE MineTouch
        <5>1. main.pc = "apply" /\ main'.pc = "debit" /\ accounts' = Touch(accounts, tx)
          BY <4>1 DEF MineTouch, IInv, TypeOK, tx
        <5> QED
          BY <2>4, <5>1 DEF Written, InTransit
      <4>2. CASE MineDebit
        <5>1. /\ main.pc = "debit" /\ main'.pc = "nonce" /\ accounts' = Withdraw(accounts, tx)
              /\ CanApply(accounts, tx)
          BY <4>2 DEF MineDebit, IInv, TypeOK, tx
        <5>2. accounts = Touch(from, tx)
          BY <2>4, <5>1 DEF Written
        <5>3. CanApply(from, tx)
          BY <2>1, <2>4, <5>1, <5>2, TouchType DEF CanApply
        <5> QED
          BY <5>1, <5>2, <5>3 DEF Written
      <4>3. CASE MineNonce
        <5>1. main.pc = "nonce" /\ main'.pc = "credit" /\ accounts' = Bump(accounts, tx)
          BY <4>3 DEF MineNonce, IInv, TypeOK, tx
        <5> QED
          BY <2>4, <5>1 DEF Written, InTransit
      <4> QED
        BY <1>2, <2>7, <4>1, <4>2, <4>3 DEF MineWrite
    <3> QED
      BY <2>1, <2>3, <2>4, <3>1, <3>2 DEF RunInv, states, from, tx
  <2> QED
    BY <2>3, <2>6, <2>7
<1>3. CASE MineThrow \/ MineClear
  <2>1. main'.pc = "idle" /\ UNCHANGED chain
    BY <1>3 DEF MineThrow, MineClear, IInv, TypeOK
  <2> QED
    BY <2>1 DEF ChainInv, RunInv, Working
<1>4. CASE MinePush
  <2>1. main'.pc = "clear"
    BY <1>4 DEF MinePush, IInv, TypeOK
  <2>2. ChainInv'
    BY <1>4, PushStep
  <2> QED
    BY <2>1, <2>2 DEF RunInv, Working
<1> QED
  BY <1>1, <1>2, <1>3, <1>4 DEF mineBlock, MineWrite

\* Accounts come into being by being touched.
LEMMA AbsentStep ==
  ASSUME CInv, [Next]_vars
  PROVE  AbsentInv'
<1> USE DEF CInv
<1>1. CASE MineWrite
  <2> DEFINE tx == mempool[main.i]
  <2>1. /\ tx \in Transaction /\ accounts \in AccountMap /\ mempool' = mempool
        /\ IF MineCredit THEN main'.pc = "apply" ELSE main'.i = main.i
    BY <1>1, WriteFrame DEF IInv, TypeOK
  <2>2. tx.from \in Addr /\ tx.to \in Addr
    BY <2>1 DEF Transaction
  <2>3. \/ accounts' = Touch(accounts, tx)
        \/ /\ accounts[tx.from].exists /\ accounts[tx.to].exists
           /\ accounts' \in {Withdraw(accounts, tx), Bump(accounts, tx), Credit(accounts, tx)}
    BY <1>1 DEF MineWrite, MineTouch, MineDebit, MineNonce, MineCredit, AbsentInv
  <2>4. MineCredit \/ mempool'[main'.i] = tx
    BY <2>1
  <2> HIDE DEF tx
  <2>5. ASSUME NEW a \in Addr
        PROVE  /\ accounts'[a].exists = (accounts[a].exists \/ a \in {tx.from, tx.to})
               /\ a \notin {tx.from, tx.to} => accounts'[a] = accounts[a]
    <3>1. accounts[a].exists \in BOOLEAN
      BY <2>1 DEF AccountMap, Account
    <3>2. CASE accounts' = Touch(accounts, tx)
      BY <2>1, <3>2, WriteEffect
    <3>3. CASE accounts[tx.from].exists /\ accounts[tx.to].exists /\ accounts' = Withdraw(accounts, tx)
      <4>1. /\ accounts'[a].exists = accounts[a].exists
            /\ a \notin {tx.from, tx.to} => accounts'[a] = accounts[a]
        BY <2>1, <3>3, WriteEffect
      <4>2. a \in {tx.from, tx.to} => accounts[a].exists
        BY <3>3
      <4> QED
        BY <3>1, <4>1, <4>2
    <3>4. CASE accounts[tx.from].exists /\ accounts[tx.to].exists /\ accounts' = Bump(accounts, tx)
      <4>1. /\ accounts'[a].exists = accounts[a].exists
            /\ a \notin {tx.from, tx.to} => accounts'[a] = accounts[a]
        BY <2>1, <3>4, WriteEffect
      <4>2. a \in {tx.from, tx.to} => accounts[a].exists
        BY <3>4
      <4> QED
        BY <3>1, <4>1, <4>2
    <3>5. CASE accounts[tx.from].exists /\ accounts[tx.to].exists /\ accounts' = Credit(accounts, tx)
      <4>1. /\ accounts'[a].exists = accounts[a].exists
            /\ a \notin {tx.from, tx.to} => accounts'[a] = accounts[a]
        BY <2>1, <3>5, WriteEffect
      <4>2. a \in {tx.from, tx.to} => accounts[a].exists
        BY <3>5
      <4> QED
        BY <3>1, <4>1, <4>2
    <3> QED
      BY <2>3, <3>2, <3>3, <3>4, <3>5
  <2>6. \A a \in Addr : ~accounts'[a].exists => accounts'[a] = NoAccount
    BY <2>5 DEF AbsentInv
  <2>7. accounts'[tx.from].exists /\ accounts'[tx.to].exists
    BY <2>2, <2>5
  <2> QED
    BY <2>1, <2>4, <2>6, <2>7 DEF AbsentInv
<1>2. CASE MineStart \/ MineThrow \/ MinePush \/ MineClear
  <2>1. accounts' = accounts /\ main'.pc \notin {"debit", "nonce", "credit"}
    BY <1>2 DEF MineStart, MineThrow, MinePush, MineClear, IInv, TypeOK
  <2> QED
    BY <2>1 DEF AbsentInv
<1>3. CASE ~mineBlock
  <2>1. UNCHANGED <<accounts, main>> /\ (mempool' = mempool \/ main.pc = "idle")
    BY <1>3, CallerStep
  <2> QED
    BY <2>1 DEF AbsentInv
<1> QED
  BY <1>1, <1>2, <1>3 DEF mineBlock, MineWrite

\* Every step keeps the invariant.
LEMMA NextCInv == CInv /\ [Next]_vars => CInv'
<1> SUFFICES ASSUME CInv, [Next]_vars PROVE CInv'
  OBVIOUS
<1>1. IInv' /\ TxsInv' /\ AbsentInv'
  BY NextIInv, TxsStep, AbsentStep DEF CInv
<1>2. CASE mineBlock
  BY <1>1, <1>2, MineCInv DEF CInv
<1>3. CASE ~mineBlock
  <2>1. UNCHANGED <<chain, accounts, main>>
        /\ (mempool' = mempool \/ main.pc = "idle")
    BY <1>3, CallerStep DEF CInv
  <2>2. ChainInv' /\ Committed' = Committed
    BY <2>1 DEF CInv, ChainInv, Committed
  <2>3. RunInv'
    <3>1. CASE mempool' = mempool
      BY <2>1, <2>2, <3>1 DEF CInv, RunInv, Working, InTransit
    <3>2. CASE main.pc = "idle"
      BY <2>1, <3>2 DEF RunInv, Working
    <3> QED
      BY <2>1, <3>1, <3>2
  <2> QED
    BY <1>1, <2>2, <2>3 DEF CInv
<1> QED
  BY <1>2, <1>3

\* The blocks replay, mineBlock's execution is on course and absent accounts
\* are empty in every reachable state.
THEOREM ChainInductive == Spec => []CInv
<1>1. Init => CInv
  <2>1. Init => TxsInv
    BY DEF Init, TxsInv, Idle
  <2>2. Init => RunInv
    BY DEF Init, RunInv, Working
  <2>3. Init => AbsentInv
    BY GenesisAssumption DEF Init, AbsentInv
  <2> QED
    BY <2>1, <2>2, <2>3, InitIInv, InitChain DEF CInv
<1>2. CInv /\ [Next]_vars => CInv'
  BY NextCInv
<1> QED
  BY <1>1, <1>2, PTL DEF Spec
-----------------------------------------------------------------------------
(* What follows for the blocks and the answers.                            *)

\* The state that the newest block committed to.
LEMMA TipState ==
  ASSUME CInv
  PROVE  /\ Len(chain) \in Nat /\ Len(chain) > 0
         /\ Preimage(Tip.stateAfter) = Committed
<1>1. Len(chain) \in Nat /\ Len(chain) > 0
  BY AppendIsSeq DEF CInv, IInv, TypeOK, IsSeq
<1>2. Tip.stateAfter = root(Committed)
  BY <1>1 DEF CInv, ChainInv, Placed, Tip, Committed
<1> QED
  BY <1>1, <1>2 DEF Preimage, root, keccak256

\* Blockchain implements the atomic ledger: threads, lock and half-executed
\* blocks cannot be told from a ledger that executes each block at once.
THEOREM Refines == Spec => ExecutesAtomically
<1> DEFINE ledger  == Preimage(Tip.stateAfter)
           history == History(Len(chain))
           pending == IF main.pc = "clear" THEN <<>> ELSE mempool
<1>1. Init => Abstract!Init
  <2> SUFFICES ASSUME Init PROVE Abstract!Init
    OBVIOUS
  <2>1. PICK now \in Times : chain = <<GenesisBlock(Genesis, now)>>
    BY DEF Init
  <2>2. Len(chain) = 1 /\ chain[1] = GenesisBlock(Genesis, now)
    BY <2>1
  <2>3. ledger = Genesis
    BY <2>2 DEF Tip, GenesisBlock, NewBlock, Preimage, root, keccak256
  <2>4. history = <<>>
    <3>1. HistoryOf(chain, 1) = <<>>
      BY <2>2, GenesisHistory
    <3> QED
      BY <2>2, <3>1 DEF History, HistoryOf
  <2>5. pending = <<>>
    BY DEF Init
  <2> QED
    BY <2>3, <2>4, <2>5 DEF Abstract!Init
<1>2. ASSUME CInv, CInv', [Next]_vars
      PROVE  [Abstract!Next]_<<ledger, history, pending>>
  <2>1. ledger = Committed
    BY <1>2, TipState
  <2>2. history = HistoryOf(chain, Len(chain)) /\ history' = HistoryOf(chain', Len(chain'))
    BY DEF History, HistoryOf
  <2>3. chain' = chain => ledger' = ledger /\ history' = history
    BY <2>2 DEF Tip
  <2>4. CASE MinePush
    <3>1. /\ Abstract!Execute(Committed, mempool) = accounts
          /\ history' = history \o mempool
          /\ Committed' = accounts
          /\ Abstract!Executable(Committed, mempool)
      BY <1>2, <2>2, <2>4, PushStep DEF CInv
    <3>2. pending = mempool /\ pending' = <<>>
      BY <1>2, <2>4 DEF MinePush, CInv, IInv, TypeOK
    <3>3. ledger' = accounts
      <4>1. root(accounts') = (Tip.stateAfter)' /\ accounts' = accounts
        BY <1>2, <2>4 DEF MinePush, CInv, IInv, TypeOK, HistoryInv, Working
      <4> QED
        BY <4>1 DEF Preimage, root, keccak256
    <3> QED
      BY <2>1, <3>1, <3>2, <3>3 DEF Abstract!Next, Abstract!Commit
  <2>5. CASE MineClear
    BY <1>2, <2>3, <2>5 DEF MineClear, CInv, IInv, TypeOK
  <2>6. CASE MineStart \/ MineWrite \/ MineThrow
    BY <1>2, <2>3, <2>6 DEF MineStart, MineWrite, MineTouch, MineDebit, MineNonce, MineCredit,
                            MineThrow, CInv, IInv, TypeOK
  <2>7. CASE ~mineBlock
    <3>1. /\ UNCHANGED <<chain, accounts, main>>
          /\ \/ mempool' = mempool
             \/ main.pc = "idle" /\ \E tx \in Txs : mempool' = Append(mempool, tx)
      BY <1>2, <2>7, CallerStep DEF CInv
    <3>2. CASE mempool' = mempool
      BY <2>3, <3>1, <3>2
    <3>3. CASE main.pc = "idle" /\ \E tx \in Txs : mempool' = Append(mempool, tx)
      <4>1. PICK tx \in Txs : mempool' = Append(mempool, tx)
        BY <3>3
      <4>2. pending' = Append(pending, tx)
        BY <3>1, <3>3, <4>1
      <4>3. Abstract!Accept(tx)
        BY <2>3, <3>1, <4>2 DEF Abstract!Accept
      <4> QED
        BY <4>3 DEF Abstract!Next
    <3> QED
      BY <3>1, <3>2, <3>3
  <2> QED
    BY <2>4, <2>5, <2>6, <2>7 DEF mineBlock, MineWrite
<1> QED
  BY <1>1, <1>2, ChainInductive, PTL DEF Spec, ExecutesAtomically, Abstract!Spec

\* The chain can be replayed: the genesis state and the recorded transactions
\* give the state root, the txRoot and the receipts of every block.
THEOREM Replays == Spec => []BlocksReplay
<1>1. CInv => BlocksReplay
  BY DEF CInv, ChainInv, Placed, Consistent, BlocksReplay, History, HistoryOf
<1> QED
  BY <1>1, ChainInductive, PTL

\* The maps of the loop are moments of a sequential execution: that after n
\* transactions is reached by the history and the first n of the mempool.
LEMMA Moment ==
  ASSUME CInv, NEW n \in 0..Len(mempool)
  PROVE  Abstract!Execute(Genesis, History(Len(chain)) \o SubSeq(mempool, 1, n)) =
           Abstract!States(Committed, mempool)[n]
<1> DEFINE h == HistoryOf(chain, Len(chain))
           part == SubSeq(mempool, 1, n)
<1>1. Len(chain) \in Nat /\ mempool \in Seq(Transaction)
  BY TipState DEF CInv, IInv, TypeOK
<1>2. h \in Seq(Transaction) /\ History(Len(chain)) = h
  BY <1>1, ChainHistory DEF CInv, History, HistoryOf
<1>3. /\ part \in Seq(Transaction) /\ n = Len(part) /\ \A i \in 1..n : part[i] = mempool[i]
      /\ n \in Nat /\ n <= Len(mempool)
  BY <1>1
<1>4. Committed = Abstract!Execute(Genesis, h)
  BY DEF Committed
<1> HIDE DEF h, part
<1>5. Abstract!Execute(Genesis, h \o part) = Abstract!Execute(Committed, part)
  BY <1>2, <1>3, <1>4, ExecuteConcat
<1>6. \A i \in 0..n :
        Abstract!States(Committed, part)[i] = Abstract!States(Committed, mempool)[i]
  BY <1>1, <1>3, StatesPrefix
<1>7. Abstract!Execute(Committed, part) = Abstract!States(Committed, mempool)[n]
  BY <1>3, <1>6 DEF Abstract!Execute
<1> QED
  BY <1>2, <1>5, <1>7 DEF part

\* The two methods answer what the account map has.
LEMMA Answered ==
  ASSUME CInv, NEW a \in Addr
  PROVE  /\ handle_getBalance(a) = accounts[a].balance
         /\ handle_getTransactionCount(a) = accounts[a].nonce
<1>1. CASE accounts[a].exists
  BY <1>1 DEF handle_getBalance, handle_getTransactionCount
<1>2. CASE ~accounts[a].exists
  <2>1. accounts[a].balance = 0 /\ accounts[a].nonce = 0
    BY <1>2 DEF CInv, AbsentInv, NoAccount
  <2> QED
    BY <1>2, <2>1 DEF handle_getBalance, handle_getTransactionCount
<1> QED
  BY <1>1, <1>2

\* Before the debit nothing is seen of a transfer but that its accounts exist;
\* between debit and credit the sender has its new balance and the recipient
\* its old one, and one who is both is short of the value.
LEMMA SeenInTransit ==
  ASSUME NEW accts \in AccountMap, NEW tx \in Transaction, NEW a \in Addr,
         NEW pc \in {"apply", "debit", "nonce", "credit"},
         pc \in {"nonce", "credit"} => CanApply(accts, tx)
  PROVE  LET now == Written(pc, accts, tx)
             after == applyTransaction(accts, tx)
             own == IF a = tx.from /\ a = tx.to THEN tx.value ELSE 0
         IN  /\ pc \in {"apply", "debit"} =>
                  now[a].balance = accts[a].balance /\ now[a].nonce = accts[a].nonce
             /\ pc \in {"nonce", "credit"} =>
                  /\ now[a].balance + own \in {accts[a].balance, after[a].balance}
                  /\ now[a].nonce \in {accts[a].nonce, after[a].nonce}
<1> DEFINE touched == Touch(accts, tx)
           debited == Withdraw(touched, tx)
           bumped  == Bump(debited, tx)
           after   == applyTransaction(accts, tx)
<1>1. /\ accts[a] \in Account /\ accts[a].balance \in Nat /\ tx.value \in Nat
      /\ tx.from \in Addr /\ tx.to \in Addr
  BY MaxUintAssumption DEF AccountMap, Account, Word, Transaction
<1>2. touched \in AccountMap /\ (CanApply(accts, tx) => CanApply(touched, tx))
  BY TouchType DEF CanApply
<1>3. touched[a].balance = accts[a].balance /\ touched[a].nonce = accts[a].nonce
  BY WriteEffect
<1>4. CASE pc \in {"apply", "debit"}
  BY <1>3, <1>4 DEF Written
<1>5. CASE pc \in {"nonce", "credit"}
  <2>1. CanApply(accts, tx) /\ debited \in AccountMap
    BY <1>2, <1>5, WithdrawType
  <2> HIDE DEF touched, debited, bumped
  <2>2. /\ debited[a].nonce = touched[a].nonce
        /\ debited[a].balance = IF a = tx.from THEN touched[a].balance - tx.value
                                               ELSE touched[a].balance
        /\ bumped[a].balance = debited[a].balance
        /\ bumped[a].nonce = IF a = tx.from THEN Wrap(debited[a].nonce + 1)
                                            ELSE debited[a].nonce
    <3>1. Withdraw(touched, tx) = debited /\ Bump(debited, tx) = bumped
      BY DEF debited, bumped
    <3> QED
      BY <1>2, <2>1, <3>1, WriteEffect
  <2>3. /\ debited[a].nonce = accts[a].nonce
        /\ debited[a].balance = IF a = tx.from THEN accts[a].balance - tx.value
                                               ELSE accts[a].balance
        /\ bumped[a].balance = debited[a].balance
        /\ bumped[a].nonce = IF a = tx.from THEN Wrap(accts[a].nonce + 1) ELSE accts[a].nonce
    BY <1>3, <2>2
  <2>4. /\ after[a].nonce = IF a = tx.from THEN Wrap(accts[a].nonce + 1) ELSE accts[a].nonce
        /\ a = tx.from /\ a # tx.to => after[a].balance = accts[a].balance - tx.value
    BY <2>1, ApplyEffect
  <2>5. Written(pc, accts, tx) \in {debited, bumped}
    BY <1>5 DEF Written, touched, debited, bumped
  <2> HIDE DEF after
  <2>6. ASSUME NEW now \in {debited, bumped}
        PROVE  /\ now[a].balance + (IF a = tx.from /\ a = tx.to THEN tx.value ELSE 0)
                    \in {accts[a].balance, after[a].balance}
               /\ now[a].nonce \in {accts[a].nonce, after[a].nonce}
    <3>1. now[a].balance = IF a = tx.from THEN accts[a].balance - tx.value ELSE accts[a].balance
      BY <2>3
    <3>2. now[a].nonce \in {accts[a].nonce, after[a].nonce}
      BY <2>3, <2>4
    <3> QED
      BY <1>1, <2>4, <3>1, <3>2
  <2> QED
    BY <1>5, <2>5, <2>6 DEF after
<1> QED
  BY <1>4, <1>5

\* Whatever eth_getBalance and eth_getTransactionCount answer, also while a
\* block is mined and while a value is debited and not yet credited, is the
\* answer of a sequential execution, but for the value that an account is
\* paying to itself.
THEOREM ReadsAreSequential == Spec => []ReadsSequential
<1>1. CInv => ReadsSequential
  <2> SUFFICES ASSUME CInv, alive PROVE ReadsSequential
    BY DEF ReadsSequential
  <2> DEFINE h == History(Len(chain))
             states == Abstract!States(Committed, mempool)
             tx == mempool[main.i]
             before == Abstract!Execute(Genesis, h \o Settled)
             after == Abstract!Execute(Genesis, h \o Begun)
  <2>1. accounts \in AccountMap /\ mempool \in Seq(Transaction)
    BY DEF CInv, IInv, TypeOK
  <2>2. CASE ~Working
    <3>1. ~InTransit
      BY <2>2 DEF Working, InTransit
    <3>2. Settled = SubSeq(mempool, 1, 0) /\ Begun = Settled
      BY <2>2, <3>1, <2>1 DEF Settled, Begun
    <3>3. before = states[0] /\ after = before
      BY <2>1, <3>2, Moment
    <3>4. states[0] = Committed
      BY <2>1, StatesStep
    <3>5. accounts = before
      BY <2>2, <3>3, <3>4, AtRest DEF CInv
    <3> HIDE DEF before, after, states
    <3>6. ASSUME NEW a \in Addr
          PROVE  /\ handle_getBalance(a) + PaidToItself(a)
                      \in {before[a].balance, after[a].balance}
                 /\ handle_getTransactionCount(a) \in {before[a].nonce, after[a].nonce}
      <4>1. accounts[a].balance \in Nat
        BY <2>1, MaxUintAssumption DEF AccountMap, Account, Word
      <4>2. PaidToItself(a) = 0
        BY <3>1 DEF PaidToItself
      <4> QED
        BY <3>5, <4>1, <4>2, Answered
    <3> QED
      BY <3>6 DEF ReadsSequential, before, after
  <2>3. CASE Working
    <3>1. /\ main.i - 1 \in 0..Len(mempool) /\ main.i \in Nat \ {0}
          /\ InTransit => main.i \in 0..Len(mempool) /\ main.i \in 1..Len(mempool)
          /\ main.pc # "apply" => tx \in Transaction
      BY <2>1, <2>3 DEF CInv, IInv, TypeOK, LoopInv, InTransit
    <3>2. /\ states[main.i - 1] \in AccountMap
          /\ accounts = Written(main.pc, states[main.i - 1], tx)
          /\ InTransit => CanApply(states[main.i - 1], tx)
      BY <2>3 DEF CInv, RunInv
    <3>3. before = states[main.i - 1]
      BY <2>3, <3>1, Moment DEF Settled
    <3>4. CASE ~InTransit
      <4>1. main.pc \in {"apply", "debit"}
        BY <2>3, <3>4 DEF Working, InTransit
      <4>2. after = before
        BY <3>4 DEF Begun
      <4> HIDE DEF before, after, states, tx
      <4>3. ASSUME NEW a \in Addr
            PROVE  /\ handle_getBalance(a) + PaidToItself(a)
                        \in {before[a].balance, after[a].balance}
                   /\ handle_getTransactionCount(a) \in {before[a].nonce, after[a].nonce}
        <5>1. accounts[a].balance \in Nat
          BY <2>1, MaxUintAssumption DEF AccountMap, Account, Word
        <5>2. PaidToItself(a) = 0
          BY <3>4 DEF PaidToItself
        <5>3. accounts[a].balance = before[a].balance /\ accounts[a].nonce = before[a].nonce
          <6>1. CASE main.pc = "apply"
            BY <3>2, <3>3, <6>1 DEF Written
          <6>2. CASE main.pc = "debit"
            BY <3>1, <3>2, <3>3, <6>2, SeenInTransit
          <6> QED
            BY <4>1, <6>1, <6>2
        <5> QED
          BY <5>1, <5>2, <5>3, Answered
      <4> QED
        BY <4>3 DEF ReadsSequential, before, after
    <3>5. CASE InTransit
      <4>1. main.pc \in {"nonce", "credit"}
        BY <3>5 DEF InTransit
      <4>2. after = states[main.i]
        BY <3>1, <3>5, Moment DEF Begun
      <4>3. states[main.i] = applyTransaction(states[main.i - 1], tx)
        BY <2>1, <3>1, <3>5, StatesStep
      <4>4. \A a \in Addr : PaidToItself(a) = IF a = tx.from /\ a = tx.to THEN tx.value ELSE 0
        BY <3>5 DEF PaidToItself
      <4> HIDE DEF before, after, states, tx
      <4>5. ASSUME NEW a \in Addr
            PROVE  /\ handle_getBalance(a) + PaidToItself(a)
                        \in {before[a].balance, after[a].balance}
                   /\ handle_getTransactionCount(a) \in {before[a].nonce, after[a].nonce}
        <5>1. tx \in Transaction /\ CanApply(before, tx) /\ before \in AccountMap
          BY <3>1, <3>2, <3>3, <3>5, <4>1
        <5>2. accounts = Written(main.pc, before, tx) /\ after = applyTransaction(before, tx)
          BY <3>2, <3>3, <4>2, <4>3
        <5>3. /\ accounts[a].balance + (IF a = tx.from /\ a = tx.to THEN tx.value ELSE 0)
                   \in {before[a].balance, after[a].balance}
              /\ accounts[a].nonce \in {before[a].nonce, after[a].nonce}
          BY <4>1, <5>1, <5>2, SeenInTransit
        <5> QED
          BY <4>4, <5>3, Answered
      <4> QED
        BY <4>5 DEF ReadsSequential, before, after
    <3> QED
      BY <3>4, <3>5
  <2> QED
    BY <2>2, <2>3
<1> QED
  BY <1>1, ChainInductive, PTL
-----------------------------------------------------------------------------
(* Receipts.                                                               *)

\* The trie key of a receipt, and the last of n receipts with a key.
KeyOf(i) == (i - 1) % ReceiptKeys

IsLast(i, n, k) == KeyOf(i) = k /\ \A l \in 1..n : KeyOf(l) = k => l <= i

LastOf(n, k) == CHOOSE i \in 1..n : IsLast(i, n, k)

\* The trie has the last receipt under each key.
LEMMA TrieOfLast ==
  ASSUME NEW receipts, NEW n \in Nat, DOMAIN receipts = 1..n
  PROVE  receiptsRootOf(receipts) =
           keccak256([k \in {KeyOf(i) : i \in 1..n} |-> receipts[LastOf(n, k)]])
  BY DEF receiptsRootOf, KeyOf, LastOf, IsLast

\* The last receipt with a key is one of the last ReceiptKeys receipts, and each
\* of these is the last with its key.
LEMMA LastReceipts ==
  ASSUME NEW n \in Nat, NEW j \in 1..n
  PROVE  /\ LastOf(n, KeyOf(j)) \in 1..n
         /\ LastOf(n, KeyOf(j)) + ReceiptKeys > n
         /\ j + ReceiptKeys > n => LastOf(n, KeyOf(j)) = j
<1> DEFINE K == ReceiptKeys
           q == (n - j) \div K
           r == (n - j) % K
           w == j + q * K
           last == LastOf(n, KeyOf(j))
<1>0. K \in Nat \ {0} /\ n - j \in Nat
  BY ReceiptKeysAssumption
<1>1. q \in Nat /\ r \in 0..(K - 1) /\ n - j = q * K + r
  BY <1>0, DivMod
<1> HIDE DEF q, r, K
<1>2. q * K \in Nat
  BY <1>0, <1>1
<1>3. w \in 1..n /\ w + K > n
  <2> DEFINE p == q * K
  <2> HIDE DEF p
  <2>1. p \in Nat /\ n - j = p + r /\ w = j + p
    BY <1>1, <1>2 DEF p
  <2> HIDE DEF w
  <2> QED
    BY <1>0, <1>1, <2>1
<1>4. KeyOf(w) = KeyOf(j)
  <2>1. j - 1 \in Nat /\ w - 1 = (j - 1) + q * K
    BY <1>2
  <2>2. ((j - 1) + q * K) % K = (j - 1) % K
    BY <1>0, <1>1, <2>1, ModShift
  <2> QED
    BY <2>1, <2>2 DEF KeyOf, K
<1> HIDE DEF w
<1>5. ASSUME NEW i \in 1..n, KeyOf(i) = KeyOf(j), i + K > n
      PROVE  IsLast(i, n, KeyOf(j))
  <2>1. ASSUME NEW l \in 1..n, KeyOf(l) = KeyOf(j), l > i PROVE FALSE
    <3>1. i - 1 \in Nat /\ l - 1 \in Nat /\ i - 1 < l - 1 /\ (i - 1) % K = (l - 1) % K
      BY <1>5, <2>1 DEF KeyOf, K
    <3>2. (i - 1) + K <= l - 1
      BY <1>0, <3>1, ModApart
    <3> QED
      BY <1>0, <1>5, <3>2
  <2> QED
    BY <1>5, <2>1 DEF IsLast
<1>6. IsLast(w, n, KeyOf(j))
  BY <1>3, <1>4, <1>5
<1>7. last \in 1..n /\ IsLast(last, n, KeyOf(j))
  BY <1>3, <1>6 DEF LastOf
<1> HIDE DEF last
<1>8. w <= last
  BY <1>3, <1>4, <1>7 DEF IsLast
<1>9. last + K > n
  BY <1>0, <1>3, <1>7, <1>8
<1>10. ASSUME j + K > n PROVE last = j
  <2>1. IsLast(j, n, KeyOf(j))
    BY <1>5, <1>10
  <2>2. j <= last /\ last <= j
    BY <1>7, <2>1 DEF IsLast
  <2> QED
    BY <1>7, <2>2
<1> QED
  BY <1>7, <1>9, <1>10 DEF last, K

\* There are n receipts and all report success.
Successes(receipts, n) ==
  /\ DOMAIN receipts = 1..n /\ Len(receipts) = n
  /\ \A j \in 1..n : "status" \in DOMAIN receipts[j] /\ receipts[j].status = TRUE

\* Every receipt of a block reports success.
LEMMA ReceiptsShape ==
  ASSUME NEW txs \in Seq(Transaction)
  PROVE  Successes(receiptsOf(txs), Len(txs))
<1> DEFINE gas == CHOOSE f : f = [i \in 0..Len(txs) |->
                    IF i = 0 THEN 0 ELSE Wrap(f[i - 1] + txs[i].gasLimit)]
           made == [i \in 1..Len(txs) |-> [status |-> TRUE, cumulativeGasUsed |-> gas[i]]]
<1>1. receiptsOf(txs) = made
  BY DEF receiptsOf
<1> HIDE DEF gas
<1>2. /\ DOMAIN made = 1..Len(txs) /\ Len(made) = Len(txs)
      /\ \A j \in 1..Len(txs) : "status" \in DOMAIN made[j] /\ made[j].status = TRUE
  OBVIOUS
<1> QED
  BY <1>1, <1>2 DEF Successes

\* The receipts of every mined block are fixed by the fields that its hash
\* covers. Its receipts root commits to the outcome of the last ReceiptKeys of
\* them, and of those only, in a block of any length.
THEOREM ReceiptsAreBound == Spec => []ReceiptsBound
<1>1. CInv => ReceiptsBound
  <2> SUFFICES ASSUME CInv, NEW i \in 2..Len(chain)
               PROVE  LET b == chain[i]
                      IN  /\ b.hash = computeHash([b EXCEPT !.receiptsRoot = EmptyString])
                          /\ b.receiptsRoot = receiptsRootOf(receiptsOf(b.transactions))
                          /\ \A j \in DOMAIN b.receipts :
                               receiptsRootOf([b.receipts EXCEPT ![j].status = ~@])
                                   # b.receiptsRoot
                                 <=> j + ReceiptKeys > Len(b.receipts)
    BY DEF ReceiptsBound
  <2> DEFINE b == chain[i]
             r == b.receipts
  <2>1. /\ Consistent(b) /\ b.receiptsRoot = receiptsRootOf(b.receipts)
    BY TipState DEF CInv, ChainInv, Placed
  <2>2. r = receiptsOf(b.transactions) /\ b.transactions \in Seq(Transaction)
    BY <2>1 DEF Consistent
  <2> DEFINE txs == b.transactions
             n == Len(txs)
  <2> HIDE DEF b, r, txs
  <2>3. /\ n \in Nat /\ DOMAIN r = 1..n /\ Len(r) = n
        /\ \A j \in 1..n : "status" \in DOMAIN r[j] /\ r[j].status = TRUE
    <3>1. r = receiptsOf(txs) /\ txs \in Seq(Transaction)
      BY <2>2 DEF txs
    <3>2. Successes(r, n)
      BY <3>1, ReceiptsShape
    <3> QED
      BY <3>1, <3>2 DEF Successes
  <2> HIDE DEF n
  <2>4. ASSUME NEW j \in DOMAIN r
        PROVE  receiptsRootOf([r EXCEPT ![j].status = ~@]) # receiptsRootOf(r)
                 <=> j + ReceiptKeys > Len(r)
    <3> DEFINE s == [r EXCEPT ![j].status = ~@]
               keys == {KeyOf(l) : l \in 1..n}
               Under(t) == [k \in keys |-> t[LastOf(n, k)]]
    <3>1. /\ DOMAIN s = 1..n /\ s[j].status = FALSE /\ j \in 1..n
          /\ \A l \in 1..n : l # j => s[l] = r[l]
      BY <2>3, <2>4
    <3>2. r[j].status = TRUE
      BY <2>3, <3>1
    <3> HIDE DEF s
    <3>3. receiptsRootOf(s) = keccak256(Under(s)) /\ receiptsRootOf(r) = keccak256(Under(r))
      BY <2>3, <3>1, TrieOfLast
    <3>4. KeyOf(j) \in keys
      BY <3>1
    <3>5. CASE j + ReceiptKeys > n
      <4>1. LastOf(n, KeyOf(j)) = j
        BY <2>3, <3>1, <3>5, LastReceipts
      <4> HIDE DEF keys
      <4>2. Under(s)[KeyOf(j)] = s[j] /\ Under(r)[KeyOf(j)] = r[j]
        BY <3>4, <4>1
      <4> HIDE DEF Under
      <4>3. Under(s) # Under(r)
        BY <3>1, <3>2, <4>2
      <4>4. receiptsRootOf(s) # receiptsRootOf(r)
        BY <3>3, <4>3 DEF keccak256
      <4> QED
        BY <2>3, <3>5, <4>4 DEF s
    <3>6. CASE ~(j + ReceiptKeys > n)
      <4>1. ASSUME NEW k \in keys PROVE s[LastOf(n, k)] = r[LastOf(n, k)]
        <5>1. PICK l \in 1..n : k = KeyOf(l)
          OBVIOUS
        <5>2. LastOf(n, k) \in 1..n /\ LastOf(n, k) + ReceiptKeys > n
          BY <2>3, <5>1, LastReceipts
        <5> QED
          BY <3>1, <3>6, <5>2
      <4> HIDE DEF keys
      <4>2. Under(s) = Under(r)
        BY <4>1
      <4> QED
        BY <2>3, <3>3, <3>6, <4>2 DEF s
    <3> QED
      BY <3>5, <3>6
  <2>5. b.receiptsRoot = receiptsRootOf(r)
    BY <2>1 DEF r
  <2> QED
    BY <2>1, <2>2, <2>4, <2>5 DEF Consistent, b, r
<1> QED
  BY <1>1, ChainInductive, PTL
-----------------------------------------------------------------------------
(* The answers about blocks.                                               *)

\* A sequence of one element.
LEMMA AppendNone == ASSUME NEW e PROVE Append(<<>>, e) = <<e>>
  OBVIOUS

\* RLP encodes a height from 1 to 127 as one byte, the height itself.
LEMMA SmallHeight ==
  ASSUME NEW h \in 1..127
  PROVE  toUint(encodeUint(h)) = h
<1>1. BigEndian(h) = <<h>> /\ toUint(BigEndian(h)) = h
  <2>1. h \in Nat \ {0} /\ h \div 256 = 0 /\ h % 256 = h
    OBVIOUS
  <2>2. BigEndian(h) = Append(BigEndian(0), h) /\ BigEndian(0) = <<>>
    BY <2>1, BigEndianStep
  <2> QED
    BY <2>1, <2>2, AppendNone, UintRoundTrip
<1>2. encodeUint(h) = <<h>>
  BY <1>1 DEF encodeUint, encodeBytes
<1> QED
  BY <1>1, <1>2

\* A sequence of one number.
LEMMA OneDigit ==
  ASSUME NEW s \in Seq(Nat), Len(s) = 1
  PROVE  s[1] \in Nat /\ s = <<s[1]>>
<1>1. s[1] \in Nat
  <2>1. 1 \in 1..Len(s)
    OBVIOUS
  <2> QED
    BY <2>1, ElementOfSeq
<1>2. s = <<s[1]>>
  BY SeqEqual
<1> QED
  BY <1>1, <1>2

\* RLP puts a prefix before every other height, so it reads as another number.
LEMMA OtherHeight ==
  ASSUME NEW h \in Nat, h \notin 1..127
  PROVE  toUint(encodeUint(h)) \in Nat /\ toUint(encodeUint(h)) # h
<1>0. ASSUME NEW b \in Nat PROVE <<b>> \in Seq(Nat) /\ toUint(<<b>>) = b
  <2>1. Append(<<>>, b) = <<b>> /\ <<>> \in Seq(Nat)
    OBVIOUS
  <2>2. toUint(Append(<<>>, b)) = toUint(<<>>) * 256 + b /\ toUint(<<>>) = 0
    BY <2>1, ToUintDigit
  <2>3. toUint(<<b>>) = b
    BY <2>1, <2>2
  <2> QED
    BY <2>3
<1>1. CASE h = 0
  BY <1>0, <1>1 DEF encodeUint
<1>2. CASE h >= 128
  <2> DEFINE big == BigEndian(h)
             len == Len(big)
             front == encodeLength(len, 128)
  <2>1. ASSUME NEW v \in Nat PROVE BigEndian(v) \in Seq(Nat) /\ toUint(BigEndian(v)) = v
    <3>1. BigEndian(v) \in Seq(Byte)
      BY UintRoundTrip
    <3>2. BigEndian(v) \in Seq(Nat)
      BY <3>1, ByteNat
    <3> QED
      BY <3>2, UintRoundTrip
  <2>2. big \in Seq(Nat) /\ toUint(big) = h /\ len \in Nat
    BY <2>1
  <2>3. encodeUint(h) = front \o big
    <3>1. ~(Len(big) = 1 /\ big[1] < 128)
      <4> HIDE DEF big
      <4>1. ASSUME Len(big) = 1 PROVE big[1] = h
        <5>1. big[1] \in Nat /\ big = <<big[1]>>
          BY <2>2, <4>1, OneDigit
        <5> QED
          BY <1>0, <2>2, <5>1
      <4> QED
        BY <1>2, <4>1
    <3> QED
      BY <1>2, <3>1 DEF encodeUint, encodeBytes
  <2> HIDE DEF big, len
  <2>4. front \in Seq(Nat) /\ toUint(front) > 0
    <3>1. CASE len < 56
      <4>1. front = <<128 + len>> /\ 128 + len \in Nat
        BY <2>2, <3>1 DEF encodeLength
      <4>2. <<128 + len>> \in Seq(Nat) /\ toUint(<<128 + len>>) = 128 + len
        BY <1>0, <4>1
      <4>3. 128 + len > 0
        BY <2>2
      <4> HIDE DEF front
      <4> QED
        BY <4>1, <4>2, <4>3
    <3>2. CASE ~(len < 56)
      <4> DEFINE lb == BigEndian(len)
                 b == 128 + 55 + Len(lb)
      <4>1. front = <<b>> \o lb
        BY <3>2 DEF encodeLength
      <4>2. lb \in Seq(Nat) /\ toUint(lb) = len /\ b \in Nat /\ b > 0
        BY <2>1, <2>2
      <4> HIDE DEF lb, b, front
      <4>3. <<b>> \in Seq(Nat) /\ toUint(<<b>>) = b
        BY <1>0, <4>2
      <4>4. toUint(<<b>> \o lb) > toUint(lb)
        BY <4>2, <4>3, ToUintAfter
      <4>5. <<b>> \o lb \in Seq(Nat) /\ toUint(<<b>> \o lb) \in Nat
        <5>1. <<b>> \o lb \in Seq(Nat)
          BY <4>2, <4>3
        <5> QED
          BY <5>1, ToUintDigit
      <4> QED
        BY <2>2, <3>2, <4>1, <4>2, <4>4, <4>5
    <3> QED
      BY <3>1, <3>2
  <2> HIDE DEF front
  <2>5. toUint(front \o big) > toUint(big)
    BY <2>2, <2>4, ToUintAfter
  <2>6. toUint(front \o big) \in Nat
    <3>1. front \o big \in Seq(Nat)
      BY <2>2, <2>4
    <3> QED
      BY <3>1, ToUintDigit
  <2> QED
    BY <2>2, <2>3, <2>5, <2>6
<1> QED
  BY <1>1, <1>2

\* A sequence of blocks at their heights, with the hashes of their contents.
Heights(c) ==
  /\ IsSeq(c) /\ Len(c) > 0
  /\ \A i \in 1..Len(c) : c[i].index = i - 1 /\ Consistent(c[i])

\* What the handlers answer about a chain c.
NumberedIn(c, num) ==
  IF stoull(num) >= Len(c) THEN null ELSE ShownByNumber(c[stoull(num) + 1], num)

FoundIn(c, text) ==
  IF \A i \in DOMAIN c : ~HashMatches(c[i], text) THEN null
  ELSE ShownByHash(c[CHOOSE i \in DOMAIN c :
                       /\ HashMatches(c[i], text)
                       /\ \A j \in 1..(i - 1) : ~HashMatches(c[j], text)])

\* A hash has its block's height in it, and is no literal.
LEMMA HashApart ==
  ASSUME NEW c, Heights(c), NEW i \in 1..Len(c)
  PROVE  /\ c[i].hash # ZeroRoot
         /\ \A j \in 1..Len(c) : c[i].hash = c[j].hash => i = j
<1>1. ASSUME NEW j \in 1..Len(c)
      PROVE  c[j].hash[1] = "keccak256" /\ c[j].hash[2][1] = j - 1
  <2> DEFINE b == [c[j] EXCEPT !.receiptsRoot = EmptyString]
  <2>1. c[j].hash = computeHash(b) /\ c[j].index = j - 1
    BY DEF Heights, Consistent
  <2>2. b.index = c[j].index
    OBVIOUS
  <2> HIDE DEF b
  <2> QED
    BY <2>1, <2>2 DEF computeHash, keccak256
<1>2. ZeroRoot[1] = "0x00"
  BY DEF ZeroRoot
<1>3. Len(c) \in Nat
  BY AppendIsSeq DEF Heights
<1>4. ASSUME NEW j \in 1..Len(c), c[i].hash = c[j].hash PROVE i = j
  <2>1. i - 1 = j - 1
    BY <1>1, <1>4
  <2> QED
    BY <1>3, <2>1
<1> QED
  BY <1>1, <1>2, <1>4

\* A block is found under its hash, with and without a prefix.
LEMMA FoundByHash ==
  ASSUME NEW c, Heights(c), NEW i \in 1..Len(c),
         NEW text, strip0x(text) = Hex(0, c[i].hash)
  PROVE  FoundIn(c, text) = ShownByHash(c[i])
<1>1. DOMAIN c = 1..Len(c) /\ Len(c) \in Nat
  BY AppendIsSeq DEF Heights
<1>2. \A j \in 1..Len(c) : HashMatches(c[j], text) <=> j = i
  <2> SUFFICES ASSUME NEW j \in 1..Len(c) PROVE HashMatches(c[j], text) <=> j = i
    OBVIOUS
  <2>1. c[j].hash # ZeroRoot /\ (c[j].hash = c[i].hash => j = i)
    BY HashApart
  <2>2. strip0x(Stored(c[j].hash)) = Hex(0, c[j].hash)
    BY <2>1 DEF strip0x, Stored, Hex
  <2>3. Hex(0, c[j].hash) = Hex(0, c[i].hash) <=> c[j].hash = c[i].hash
    BY DEF Hex
  <2> QED
    BY <2>1, <2>2, <2>3 DEF HashMatches
<1> DEFINE Hit(k) == /\ HashMatches(c[k], text)
                     /\ \A j \in 1..(k - 1) : ~HashMatches(c[j], text)
<1>3. \A k \in DOMAIN c : Hit(k) <=> k = i
  BY <1>1, <1>2
<1>4. (CHOOSE k \in DOMAIN c : Hit(k)) = i
  <2> HIDE DEF Hit
  <2> QED
    BY <1>1, <1>3
<1> QED
  BY <1>1, <1>2, <1>4 DEF FoundIn

\* The chain of a reachable state is one of blocks at their heights.
LEMMA ChainHeights ==
  ASSUME CInv
  PROVE  Heights(chain) /\ Len(chain) \in Nat /\ handle_blockNumber = Len(chain) - 1
<1>1. IsSeq(chain) /\ Len(chain) > 0
  BY DEF CInv, IInv, TypeOK, IsSeq
<1>2. Len(chain) \in Nat
  BY <1>1, AppendIsSeq
<1>3. \A i \in 1..Len(chain) : chain[i].index = i - 1 /\ Consistent(chain[i])
  BY DEF CInv, ChainInv, Placed
<1> QED
  BY <1>1, <1>2, <1>3 DEF Heights, handle_blockNumber, Tip

\* A number leads to the block at that height and to no other.
LEMMA Leads ==
  ASSUME CInv, NEW num, stoull(num) \in Nat, NEW i \in 1..Len(chain)
  PROVE  LeadsTo(num, Stored(chain[i].hash)) <=> stoull(num) = i - 1
<1> DEFINE v == stoull(num)
           answer == handle_getBlockByNumber(num)
<1>1. Heights(chain) /\ Len(chain) \in Nat
  BY ChainHeights
<1>2. LeadsTo(num, Stored(chain[i].hash)) <=> answer # null /\ answer.hash = Stored(chain[i].hash)
  BY DEF LeadsTo
<1>3. CASE v >= Len(chain)
  <2>1. answer = null
    BY <1>3 DEF handle_getBlockByNumber
  <2> QED
    BY <1>1, <1>2, <1>3, <2>1
<1>4. CASE ~(v >= Len(chain))
  <2> DEFINE j == v + 1
  <2>1. j \in 1..Len(chain) /\ (j = i <=> v = i - 1)
    BY <1>1, <1>4
  <2>2. answer = ShownByNumber(chain[j], num)
    BY <1>4 DEF handle_getBlockByNumber
  <2>3. answer # null /\ answer.hash = Stored(chain[j].hash)
    <3>1. ShownByNumber(chain[j], num) # null
      BY DEF ShownByNumber, null
    <3> QED
      BY <2>2, <3>1 DEF ShownByNumber
  <2> HIDE DEF j, answer
  <2>4. Stored(chain[j].hash) = Stored(chain[i].hash) => j = i
    <3>1. chain[j].hash = chain[i].hash => j = i
      BY <1>1, <2>1, HashApart
    <3> QED
      BY <3>1 DEF Stored, Hex
  <2> QED
    BY <1>2, <2>1, <2>3, <2>4
<1> QED
  BY <1>3, <1>4

\* How far a client can walk a chain of any length by what it is shown: by the
\* heights from eth_blockNumber and by all hashes; by the numbers that
\* eth_getBlockByHash shows from height 1 to 127 and nowhere else, and by those
\* that eth_getBlockByNumber shows at the genesis block only.
THEOREM Walkable == Spec => []ChainWalkable
<1>1. CInv => ChainWalkable
  <2> SUFFICES ASSUME CInv PROVE ChainWalkable
    OBVIOUS
  <2> DEFINE last == Len(chain) - 1
             Numbered(n) == handle_getBlockByNumber(Hex(1, n))
             Found(text) == handle_getBlockByHash(text)
  <2>1. Heights(chain) /\ Len(chain) \in Nat /\ last \in Nat /\ handle_blockNumber = last
    BY ChainHeights DEF Heights
  <2>2. \A n \in 0..last : Numbered(n) = ShownByNumber(chain[n + 1], Hex(1, n))
    BY <2>1 DEF handle_getBlockByNumber, stoull, Hex
  <2>3. Numbered(last + 1) = null
    BY <2>1 DEF handle_getBlockByNumber, stoull, Hex
  <2>4. \A num : \A b : ShownByNumber(b, num) # null
    BY DEF ShownByNumber, null
  <2>5. \A b : ShownByHash(b) # null
    BY DEF ShownByHash, null
  <2>6. \A text : Found(text) = FoundIn(chain, text)
    BY DEF handle_getBlockByHash, FoundIn
  <2>7. ASSUME NEW n \in 0..last
        PROVE  \E byNumber \in {Numbered(n)} :
                 \E byHash \in {Found(byNumber.hash)} :
                   /\ byHash # null
                   /\ byHash.hash = Prefixed(byNumber.hash)
                   /\ byHash.stateRoot = Prefixed(byNumber.stateRoot)
                   /\ Found(byHash.hash) = byHash
                   /\ LeadsTo(byHash.number, byNumber.hash) <=> n \in 1..127
                   /\ LeadsTo(byNumber.number, byNumber.hash) <=> n = 0
                   /\ n > 0 => Found(byHash.parentHash).hash = Prefixed(Numbered(n - 1).hash)
    <3> DEFINE i == n + 1
               b == chain[i]
               byNumber == Numbered(n)
               byHash == ShownByHash(b)
    <3>1. i \in 1..Len(chain) /\ b.index = n /\ byNumber = ShownByNumber(b, Hex(1, n))
      BY <2>1, <2>2 DEF Heights
    <3>2. b.hash # ZeroRoot
      BY <2>1, <3>1, HashApart
    <3>3. byNumber.hash = Hex(0, b.hash) /\ byNumber.stateRoot = StoredRoot(b.stateAfter)
      BY <3>1, <3>2 DEF ShownByNumber, Stored
    <3>4. strip0x(Hex(0, b.hash)) = Hex(0, b.hash) /\ strip0x(Hex(1, b.hash)) = Hex(0, b.hash)
      BY DEF strip0x, Hex
    <3>5. Found(Hex(0, b.hash)) = byHash /\ Found(Hex(1, b.hash)) = byHash
      BY <2>1, <2>6, <3>1, <3>4, FoundByHash
    <3>6. byHash.hash = Hex(1, b.hash) /\ Prefixed(Hex(0, b.hash)) = Hex(1, b.hash)
      BY <3>2 DEF ShownByHash, Stored, Prefixed, Hex
    <3>7. byHash.stateRoot = Prefixed(StoredRoot(b.stateAfter))
      BY DEF ShownByHash
    <3>8. /\ LeadsTo(byHash.number, byNumber.hash) <=> n \in 1..127
          /\ LeadsTo(byNumber.number, byNumber.hash) <=> n = 0
      <4> DEFINE v == toUint(encodeUint(n))
      <4>0. n \in Nat /\ i - 1 = n
        BY <2>1
      <4>1. v \in Nat /\ (v = n <=> n \in 1..127)
        <5>1. CASE n \in 1..127
          BY <4>0, <5>1, SmallHeight
        <5>2. CASE n \notin 1..127
          BY <4>0, <5>2, OtherHeight
        <5> QED
          BY <5>1, <5>2
      <4>2. byHash.number = Hex(1, v) /\ byNumber.number = Hex(2, n)
        BY <3>1, <4>0 DEF ShownByHash, ShownByNumber, Prefixed, Hex
      <4>3. stoull(Hex(1, v)) = v /\ stoull(Hex(2, n)) = 0
        BY DEF stoull, Hex
      <4>4. byNumber.hash = Stored(b.hash)
        BY <3>1 DEF ShownByNumber
      <4> HIDE DEF byHash, byNumber, v
      <4>5. LeadsTo(Hex(1, v), Stored(b.hash)) <=> v = n
        BY <3>1, <4>0, <4>1, <4>3, Leads
      <4>6. LeadsTo(Hex(2, n), Stored(b.hash)) <=> 0 = n
        BY <3>1, <4>0, <4>3, Leads
      <4> QED
        BY <4>1, <4>2, <4>4, <4>5, <4>6
    <3>9. ASSUME n > 0
          PROVE  Found(byHash.parentHash).hash = Prefixed(Numbered(n - 1).hash)
      <4> DEFINE p == chain[n]
      <4>1. n \in 1..Len(chain) /\ n - 1 \in 0..last /\ (n - 1) + 1 = n /\ i # 1 /\ i - 1 = n
        BY <2>1, <3>9
      <4>2. b.prevHash = p.hash
        BY <3>1, <4>1 DEF CInv, ChainInv, Placed
      <4>3. p.hash # ZeroRoot
        BY <2>1, <4>1, HashApart
      <4>4. byHash.parentHash = Hex(1, p.hash)
        BY <4>2, <4>3 DEF ShownByHash, Stored, Prefixed, Hex
      <4>5. strip0x(Hex(1, p.hash)) = Hex(0, p.hash)
        BY DEF strip0x, Hex
      <4>6. Found(Hex(1, p.hash)) = ShownByHash(p)
        BY <2>1, <2>6, <4>1, <4>5, FoundByHash
      <4>7. Numbered(n - 1) = ShownByNumber(p, Hex(1, n - 1))
        BY <2>2, <4>1
      <4> HIDE DEF Found, Numbered, byHash
      <4>8. Numbered(n - 1).hash = Stored(p.hash)
        BY <4>7 DEF ShownByNumber
      <4>9. ShownByHash(p).hash = Prefixed(Stored(p.hash))
        BY DEF ShownByHash
      <4> QED
        BY <4>4, <4>6, <4>8, <4>9
    <3>10. byHash # null
      BY <2>5
    <3> HIDE DEF Found, Numbered, byHash, b
    <3> QED
      BY <3>3, <3>5, <3>6, <3>7, <3>8, <3>9, <3>10
  <2>8. Numbered(last) # null
    BY <2>1, <2>2, <2>4
  <2> HIDE DEF last
  <2> QED
    BY <2>1, <2>3, <2>7, <2>8 DEF ChainWalkable
<1> QED
  BY <1>1, ChainInductive, PTL

\* No account sends so many transactions that its nonce comes to its end.
NoncesLast == \A a \in Addr : accounts[a].nonce < MaxUint

\* A step leaves the chain as it is or puts one block on top.
LEMMA ChainStep ==
  ASSUME CInv, [Next]_vars
  PROVE  chain' = chain \/ \E b : chain' = Append(chain, b)
<1>1. CASE mineBlock
  BY <1>1 DEF mineBlock, MineStart, MineTouch, MineThrow, MineDebit, MineNonce, MineCredit, MinePush, MineClear
<1>2. CASE ~mineBlock
  BY <1>2, CallerStep DEF CInv
<1> QED
  BY <1>1, <1>2

\* A step never takes a nonce back.
LEMMA NonceStep ==
  ASSUME CInv, NoncesLast, [Next]_vars, NEW a \in Addr
  PROVE  handle_getTransactionCount(a)' >= handle_getTransactionCount(a)
<1>1. accounts \in AccountMap /\ accounts[a].nonce \in Nat /\ accounts[a].exists \in BOOLEAN
  BY MaxUintAssumption DEF CInv, IInv, TypeOK, AccountMap, Account, Word
<1>2. ASSUME accounts[a].exists => accounts'[a].exists,
             accounts'[a].nonce \in Nat, accounts'[a].nonce >= accounts[a].nonce
      PROVE  handle_getTransactionCount(a)' >= handle_getTransactionCount(a)
  BY <1>1, <1>2 DEF handle_getTransactionCount
<1>3. CASE MineWrite
  <2> DEFINE tx == mempool[main.i]
  <2>1. tx \in Transaction
    BY <1>3, WriteFrame DEF CInv
  <2>2. accounts' \in {Touch(accounts, tx), Withdraw(accounts, tx), Bump(accounts, tx),
                       Credit(accounts, tx)}
    BY <1>3 DEF MineWrite, MineTouch, MineDebit, MineNonce, MineCredit
  <2> HIDE DEF tx
  <2>3. Wrap(accounts[a].nonce + 1) = accounts[a].nonce + 1
    BY <1>1, WrapWord, MaxUintAssumption DEF NoncesLast
  <2>4. accounts[a] \in Account
    BY <1>1 DEF AccountMap
  <2>5. /\ accounts[a].exists => accounts'[a].exists
        /\ accounts'[a].nonce \in {accounts[a].nonce, accounts[a].nonce + 1}
    BY <1>1, <2>1, <2>2, <2>3, <2>4, WriteEffect
  <2> QED
    BY <1>1, <1>2, <2>5
<1>4. CASE accounts' = accounts
  BY <1>1, <1>2, <1>4
<1>5. CASE mineBlock
  BY <1>3, <1>4, <1>5 DEF mineBlock, MineWrite, MineStart, MineThrow, MinePush, MineClear
<1> QED
  BY <1>4, <1>5, CallerStep DEF CInv

\* What a client has been told about heights, blocks and nonces stands, as long
\* as no nonce comes to the end of its word.
THEOREM AnswersDoStand == Spec /\ []NoncesLast => AnswersStand
<1> DEFINE Stand ==
      /\ handle_blockNumber' >= handle_blockNumber
      /\ \A a \in Addr : handle_getTransactionCount(a)' >= handle_getTransactionCount(a)
      /\ \A n \in 0..handle_blockNumber :
           \A told \in {handle_getBlockByNumber(Hex(1, n))} :
             /\ handle_getBlockByNumber(Hex(1, n))' = told
             /\ handle_getBlockByHash(told.hash)' = handle_getBlockByHash(told.hash)
<1>1. ASSUME CInv, CInv', NoncesLast, [Next]_vars
      PROVE  Stand
  <2>1. Heights(chain) /\ Len(chain) \in Nat /\ handle_blockNumber = Len(chain) - 1
    BY <1>1, ChainHeights
  <2>2. Heights(chain') /\ Len(chain') \in Nat /\ handle_blockNumber' = Len(chain') - 1
    <3>1. IsSeq(chain') /\ Len(chain') > 0
      BY <1>1 DEF CInv, IInv, TypeOK, IsSeq
    <3>2. Len(chain') \in Nat
      BY <3>1, AppendIsSeq
    <3>3. \A i \in 1..Len(chain') : chain'[i].index = i - 1 /\ Consistent(chain'[i])
      BY <1>1 DEF CInv, ChainInv, Placed
    <3> QED
      BY <3>1, <3>2, <3>3 DEF Heights, handle_blockNumber, Tip
  <2>3. Len(chain') >= Len(chain) /\ \A i \in 1..Len(chain) : chain'[i] = chain[i]
    <3>1. chain' = chain \/ \E b : chain' = Append(chain, b)
      BY <1>1, ChainStep
    <3>2. CASE chain' = chain
      BY <2>1, <3>2
    <3>3. CASE \E b : chain' = Append(chain, b)
      BY <2>1, <3>3, AppendIsSeq DEF Heights
    <3> QED
      BY <3>1, <3>2, <3>3
  <2>4. ASSUME NEW n \in 0..(Len(chain) - 1),
               NEW told, told = handle_getBlockByNumber(Hex(1, n))
        PROVE  /\ handle_getBlockByNumber(Hex(1, n))' = told
               /\ handle_getBlockByHash(told.hash)' = handle_getBlockByHash(told.hash)
    <3> DEFINE i == n + 1
    <3>1. i \in 1..Len(chain) /\ i \in 1..Len(chain') /\ chain'[i] = chain[i]
          /\ ~(n >= Len(chain)) /\ ~(n >= Len(chain'))
      BY <2>1, <2>2, <2>3
    <3>2. told = ShownByNumber(chain[i], Hex(1, n))
      BY <2>4, <3>1 DEF handle_getBlockByNumber, stoull, Hex
    <3>3. handle_getBlockByNumber(Hex(1, n))' = told
      BY <3>1, <3>2 DEF handle_getBlockByNumber, stoull, Hex
    <3>4. chain[i].hash # ZeroRoot
      BY <2>1, <3>1, HashApart
    <3>5. told.hash = Hex(0, chain[i].hash)
      BY <3>2, <3>4 DEF ShownByNumber, Stored
    <3>6. strip0x(told.hash) = Hex(0, chain[i].hash)
      BY <3>5 DEF strip0x, Hex
    <3>7. FoundIn(chain, told.hash) = ShownByHash(chain[i])
      BY <2>1, <3>1, <3>6, FoundByHash
    <3>8. FoundIn(chain', told.hash) = ShownByHash(chain'[i])
      <4> DEFINE d == chain'
      <4>1. Heights(d) /\ i \in 1..Len(d) /\ strip0x(told.hash) = Hex(0, d[i].hash)
        BY <2>2, <3>1, <3>6
      <4> HIDE DEF d, i
      <4>2. FoundIn(d, told.hash) = ShownByHash(d[i])
        BY <4>1, FoundByHash
      <4> QED
        BY <4>2 DEF d
    <3>9. /\ handle_getBlockByHash(told.hash) = FoundIn(chain, told.hash)
          /\ handle_getBlockByHash(told.hash)' = FoundIn(chain', told.hash)
      BY DEF handle_getBlockByHash, FoundIn
    <3> QED
      BY <3>1, <3>3, <3>7, <3>8, <3>9
  <2>5. handle_blockNumber' >= handle_blockNumber
    BY <2>1, <2>2, <2>3
  <2>6. \A a \in Addr : handle_getTransactionCount(a)' >= handle_getTransactionCount(a)
    BY <1>1, NonceStep
  <2> QED
    BY <2>1, <2>4, <2>5, <2>6
<1> QED
  BY <1>1, ChainInductive, PTL DEF Spec, AnswersStand
-----------------------------------------------------------------------------
(* Nonces.                                                                 *)

\* How many of some transactions an account sent.
Sent(txs, a) == Cardinality({i \in DOMAIN txs : txs[i].from = a})

\* An account has sent none of no transactions.
LEMMA SentNone == ASSUME NEW a PROVE Sent(<<>>, a) = 0
<1>1. {i \in DOMAIN <<>> : <<>>[i].from = a} = {}
  OBVIOUS
<1> QED
  BY <1>1, FS_EmptySet DEF Sent

\* One transaction more counts for its sender.
LEMMA SentAppend ==
  ASSUME NEW txs \in Seq(Transaction), NEW tx \in Transaction, NEW a
  PROVE  /\ Sent(txs, a) \in Nat
         /\ Sent(Append(txs, tx), a) = IF tx.from = a THEN Sent(txs, a) + 1 ELSE Sent(txs, a)
<1> DEFINE S == {i \in DOMAIN txs : txs[i].from = a}
           T == {i \in DOMAIN Append(txs, tx) : Append(txs, tx)[i].from = a}
           n == Len(txs) + 1
<1>1. /\ n \in Nat /\ DOMAIN txs = 1..(n - 1) /\ DOMAIN Append(txs, tx) = 1..n
      /\ \A i \in 1..(n - 1) : Append(txs, tx)[i] = txs[i]
      /\ Append(txs, tx)[n] = tx
  OBVIOUS
<1>2. IsFiniteSet(S) /\ n \notin S
  <2>1. S \subseteq 1..(n - 1) /\ n - 1 \in Nat
    BY <1>1
  <2>2. IsFiniteSet(1..(n - 1))
    BY <2>1, FS_Interval
  <2> QED
    BY <2>1, <2>2, FS_Subset
<1>3. T = IF tx.from = a THEN S \cup {n} ELSE S
  BY <1>1
<1> HIDE DEF S, T
<1>4. Cardinality(S) \in Nat /\ Cardinality(S \cup {n}) = Cardinality(S) + 1
  BY <1>2, FS_CardinalityType, FS_AddElement
<1>5. Sent(txs, a) = Cardinality(S) /\ Sent(Append(txs, tx), a) = Cardinality(T)
  BY DEF Sent, S, T
<1> QED
  BY <1>3, <1>4, <1>5

\* What is in blocks or executed for the next one.
Done == HistoryOf(chain, Len(chain)) \o Executed

NonceInv == alive => \A a \in Addr : accounts[a].nonce = Wrap(Sent(Done, a))

\* Done grows by the transaction whose nonce is counted, and the push moves what
\* it holds from the mempool into the history.
LEMMA DoneStep ==
  ASSUME CInv, [Next]_vars
  PROVE  /\ Done \in Seq(Transaction)
         /\ MineNonce => Done' = Append(Done, mempool[main.i])
         /\ ~MineNonce /\ alive' => Done' = Done
<1> DEFINE h == HistoryOf(chain, Len(chain))
<1>1. /\ Len(chain) \in Nat /\ mempool \in Seq(Transaction) /\ Len(mempool) \in Nat
      /\ main.i \in Nat \ {0} /\ DOMAIN main = {"pc", "i", "n", "before", "left"}
      /\ Working => /\ main.i <= Len(mempool) + 1 /\ main.n = Len(mempool)
                    /\ main.pc # "apply" => main.i <= Len(mempool)
  BY TipState DEF CInv, IInv, TypeOK, LoopInv
<1>2. h \in Seq(Transaction)
  BY <1>1, ChainHistory DEF CInv
<1>3. Executed \in Seq(Transaction)
  BY <1>1 DEF Executed, Settled, Working
<1>4. Done \in Seq(Transaction)
  BY <1>2, <1>3 DEF Done
<1>5. chain' = chain => HistoryOf(chain', Len(chain')) = h
  OBVIOUS
<1>6. ASSUME MineNonce PROVE Done' = Append(Done, mempool[main.i])
  <2>1. /\ main.pc = "nonce" /\ UNCHANGED <<chain, mempool>>
        /\ main'.pc = "credit" /\ main'.i = main.i
    BY <1>1, <1>6 DEF MineNonce
  <2>2. Executed = SubSeq(mempool, 1, main.i - 1) /\ Executed' = SubSeq(mempool, 1, main.i)
    BY <2>1 DEF Executed, Settled, Working
  <2>3. main.i \in 1..Len(mempool)
    BY <1>1, <2>1 DEF Working
  <2>4. SubSeq(mempool, 1, main.i) = Append(SubSeq(mempool, 1, main.i - 1), mempool[main.i])
    BY <1>1, <2>3
  <2>5. mempool[main.i] \in Transaction
    BY <1>1, <2>3
  <2>6. h \o Append(Executed, mempool[main.i]) = Append(h \o Executed, mempool[main.i])
    <3> HIDE DEF h
    <3> QED
      BY <1>2, <1>3, <2>5
  <2> QED
    BY <1>5, <2>1, <2>2, <2>4, <2>6 DEF Done
<1>7. ASSUME MinePush PROVE Done' = Done
  <2>1. HistoryOf(chain', Len(chain')) = h \o mempool
    BY <1>7, PushStep DEF CInv
  <2>2. main.pc = "apply" /\ main.i = Len(mempool) + 1
    BY <1>1, <1>7 DEF MinePush, Working
  <2>3. Executed = mempool
    BY <1>1, <2>2 DEF Executed, Settled, Working
  <2>4. Executed' = <<>>
    BY <1>1, <1>7 DEF MinePush, Executed, Settled, Working
  <2> DEFINE d == h \o mempool
  <2>5. d \in Seq(Transaction)
    BY <1>1, <1>2
  <2>6. d \o <<>> = d
    <3> HIDE DEF d
    <3> QED
      BY <2>5
  <2> QED
    BY <2>1, <2>3, <2>4, <2>6 DEF Done
<1>8. ASSUME MineStart PROVE Done' = Done
  <2>1. /\ main.pc = "idle" /\ UNCHANGED <<chain, mempool>>
        /\ main'.pc = "apply" /\ main'.i = 1
    BY <1>1, <1>8 DEF MineStart
  <2>2. Executed = <<>> /\ Executed' = SubSeq(mempool, 1, 0)
    BY <2>1 DEF Executed, Settled, Working
  <2>3. SubSeq(mempool, 1, 0) = <<>>
    BY <1>1
  <2> QED
    BY <1>5, <2>1, <2>2, <2>3 DEF Done
<1>9. ASSUME MineClear PROVE Done' = Done
  <2>1. main.pc = "clear" /\ main'.pc = "idle" /\ UNCHANGED chain
    BY <1>1, <1>9 DEF MineClear
  <2> QED
    BY <1>5, <2>1 DEF Done, Executed, Settled, Working
<1>10. ASSUME MineTouch \/ MineDebit \/ MineCredit PROVE Done' = Done
  <2>1. UNCHANGED <<chain, mempool>>
    BY <1>10 DEF MineTouch, MineDebit, MineCredit
  <2>2. CASE MineTouch \/ MineDebit
    <3>1. /\ main.pc \in {"apply", "debit"} /\ main'.pc \in {"debit", "nonce"}
          /\ main'.i = main.i
      BY <1>1, <2>2 DEF MineTouch, MineDebit
    <3>2. Executed' = Executed
      BY <2>1, <3>1 DEF Executed, Settled, Working
    <3> QED
      BY <1>5, <2>1, <3>2 DEF Done
  <2>3. CASE MineCredit
    <3>1. main.pc = "credit" /\ main'.pc = "apply" /\ main'.i = main.i + 1
      BY <1>1, <2>3 DEF MineCredit
    <3>2. Executed = SubSeq(mempool, 1, main.i) /\ Executed' = SubSeq(mempool, 1, main'.i - 1)
      BY <2>1, <3>1 DEF Executed, Settled, Working
    <3>3. main'.i - 1 = main.i
      BY <1>1, <3>1
    <3> QED
      BY <1>5, <2>1, <3>2, <3>3 DEF Done
  <2> QED
    BY <1>10, <2>2, <2>3
<1>11. ASSUME ~mineBlock PROVE Done' = Done
  <2>1. UNCHANGED <<chain, main>> /\ (mempool' = mempool \/ main.pc = "idle")
    BY <1>11, CallerStep DEF CInv
  <2>2. Executed' = Executed
    <3>1. CASE mempool' = mempool
      BY <2>1, <3>1 DEF Executed, Settled, Working
    <3>2. CASE main.pc = "idle"
      BY <2>1, <3>2 DEF Executed, Settled, Working
    <3> QED
      BY <2>1, <3>1, <3>2
  <2> QED
    BY <1>5, <2>1, <2>2 DEF Done
<1>12. MineThrow => ~alive'
  BY DEF MineThrow
<1> QED
  BY <1>4, <1>6, <1>7, <1>8, <1>9, <1>10, <1>11, <1>12 DEF mineBlock

\* The process does not come back to life.
LEMMA StaysDead ==
  ASSUME [Next]_vars, alive'
  PROVE  alive
<1>1. CASE \E s \in Submitters : Submit(s)
  BY <1>1 DEF Submit, ValidateNonce, RejectNonce, ValidateFunds, RejectFunds,
              addTransaction, LookupRace
<1>2. CASE \E r \in Readers : getTransactionByHash(r)
  BY <1>2 DEF getTransactionByHash, LookupBegin, LookupEnd, SearchRace
<1>3. CASE mineBlock
  BY <1>3 DEF mineBlock, MineStart, MineTouch, MineThrow, MineDebit, MineNonce, MineCredit, MinePush, MineClear
<1>4. CASE Dead \/ UNCHANGED vars
  BY <1>4 DEF Dead, vars
<1> QED
  BY <1>1, <1>2, <1>3, <1>4 DEF Next

\* An account's nonce counts, modulo the word, the transactions it sent that
\* are in blocks or executed for the next one: none is executed and forgotten.
THEOREM NoncesCount == Spec => []NonceCountsExecutions
<1>1. Init => NonceInv
  <2> SUFFICES ASSUME Init, NEW a \in Addr PROVE accounts[a].nonce = Wrap(Sent(Done, a))
    BY DEF NonceInv
  <2>1. PICK now \in Times : chain = <<GenesisBlock(Genesis, now)>>
    BY DEF Init
  <2>2. Len(chain) = 1 /\ chain[1] = GenesisBlock(Genesis, now)
    BY <2>1
  <2>3. HistoryOf(chain, 1) = <<>>
    BY <2>2, GenesisHistory
  <2>4. Done = <<>>
    BY <2>2, <2>3 DEF Done, Executed, Settled, Working, Init
  <2>5. Wrap(0) = 0 /\ accounts[a].nonce = 0
    BY MaxUintAssumption, WrapWord, GenesisAssumption DEF Init
  <2> QED
    BY <2>4, <2>5, SentNone
<1>2. CInv /\ NonceInv /\ [Next]_vars => NonceInv'
  <2> SUFFICES ASSUME CInv, NonceInv, [Next]_vars, alive' PROVE NonceInv'
    BY DEF NonceInv
  <2>1. alive /\ Done \in Seq(Transaction)
    BY StaysDead, DoneStep
  <2>2. CASE MineNonce
    <3> DEFINE tx == mempool[main.i]
    <3>1. /\ tx \in Transaction /\ accounts \in AccountMap /\ accounts' = Bump(accounts, tx)
      BY <2>2, WriteFrame DEF MineWrite, MineNonce, CInv, IInv, TypeOK
    <3>2. Done' = Append(Done, tx)
      BY <2>2, DoneStep
    <3> HIDE DEF tx
    <3>3. ASSUME NEW a \in Addr PROVE accounts'[a].nonce = Wrap(Sent(Done', a))
      <4>1. accounts'[a].nonce = IF a = tx.from THEN Wrap(accounts[a].nonce + 1)
                                                ELSE accounts[a].nonce
        <5>1. accounts[a] \in Account
          BY <3>1 DEF AccountMap
        <5> QED
          BY <3>1, <5>1, WriteEffect
      <4>2. /\ Sent(Done, a) \in Nat
            /\ Sent(Done', a) = IF tx.from = a THEN Sent(Done, a) + 1 ELSE Sent(Done, a)
        BY <2>1, <3>1, <3>2, SentAppend
      <4>3. accounts[a].nonce = Wrap(Sent(Done, a))
        BY <2>1 DEF NonceInv
      <4>4. Wrap(Wrap(Sent(Done, a)) + 1) = Wrap(Sent(Done, a) + 1)
        <5> DEFINE m == MaxUint + 1
        <5>1. m \in Nat \ {0}
          BY MaxUintAssumption
        <5>2. ((Sent(Done, a) % m) + 1) % m = (Sent(Done, a) + 1) % m
          <6> HIDE DEF m
          <6> QED
            BY <4>2, <5>1, ModNext
        <5> QED
          BY <5>2 DEF Wrap
      <4> QED
        BY <4>1, <4>2, <4>3, <4>4
    <3> QED
      BY <3>3 DEF NonceInv
  <2>3. CASE ~MineNonce
    <3>1. Done' = Done
      BY <2>3, DoneStep
    <3>2. ASSUME NEW a \in Addr PROVE accounts'[a].nonce = accounts[a].nonce
      <4>1. CASE MineWrite
        <5> DEFINE tx == mempool[main.i]
        <5>1. tx \in Transaction /\ accounts \in AccountMap
          BY <4>1, WriteFrame DEF CInv, IInv, TypeOK
        <5>2. accounts' \in {Touch(accounts, tx), Withdraw(accounts, tx), Credit(accounts, tx)}
          BY <2>3, <4>1 DEF MineWrite, MineTouch, MineDebit, MineCredit
        <5> HIDE DEF tx
        <5>3. accounts[a] \in Account
          BY <5>1 DEF AccountMap
        <5> QED
          BY <5>1, <5>2, <5>3, WriteEffect
      <4>2. CASE mineBlock /\ ~MineWrite
        BY <4>2 DEF mineBlock, MineWrite, MineStart, MineThrow, MinePush, MineClear
      <4>3. CASE ~mineBlock
        BY <4>3, CallerStep DEF CInv
      <4> QED
        BY <4>1, <4>2, <4>3
    <3> QED
      BY <2>1, <3>1, <3>2 DEF NonceInv
  <2> QED
    BY <2>2, <2>3
<1>3. NonceInv => NonceCountsExecutions
  BY DEF NonceInv, NonceCountsExecutions, Sent, Done, History, HistoryOf
<1> QED
  BY <1>1, <1>2, <1>3, ChainInductive, PTL DEF Spec

-----------------------------------------------------------------------------
(* Sums of balances.                                                       *)

\* The subsets of Addr with at most n members.
UpToSize(n) == {s \in SUBSET Addr : Cardinality(s) <= n}

\* Removing a member of a set of addresses leaves a smaller one.
LEMMA Smaller ==
  ASSUME NEW s \in SUBSET Addr
  PROVE  /\ Cardinality(s) \in Nat
         /\ Cardinality(s) = 0 <=> s = {}
         /\ \A x \in s : s \ {x} \in SUBSET Addr /\ Cardinality(s \ {x}) = Cardinality(s) - 1
<1>1. IsFiniteSet(s)
  BY AddrAssumption, FS_Subset
<1> QED
  BY <1>1, FS_CardinalityType, FS_EmptySet, FS_RemoveElement

\* What holds of the empty set, and of a set if it holds of the set without
\* any one of its members, holds of all sets of addresses.
LEMMA SetInduction ==
  ASSUME NEW P, {} \in P,
         \A s \in SUBSET Addr : s # {} /\ (\A x \in s : s \ {x} \in P) => s \in P
  PROVE  SUBSET Addr \subseteq P
<1> DEFINE N == {n \in Nat : UpToSize(n) \subseteq P}
           top == Cardinality(Addr)
<1>1. top \in Nat
  BY Smaller
<1>2. 0 \in N
  <2>1. \A s \in UpToSize(0) : s = {}
    BY Smaller DEF UpToSize
  <2> QED
    BY <2>1
<1>3. ASSUME NEW n \in 1..top, n - 1 \in N PROVE n \in N
  <2>1. UpToSize(n - 1) \subseteq P
    BY <1>3
  <2>2. ASSUME NEW s \in UpToSize(n) PROVE s \in P
    <3>1. s \in SUBSET Addr /\ Cardinality(s) <= n
      BY DEF UpToSize
    <3>2. ASSUME NEW x \in s PROVE s \ {x} \in P
      BY <2>1, <3>1, Smaller, <1>1 DEF UpToSize
    <3> QED
      BY <3>1, <3>2
  <2> QED
    BY <1>1, <2>2
<1> HIDE DEF N, top
<1>4. 0..top \subseteq N
  BY <1>1, <1>2, <1>3, UpTo
<1>5. UpToSize(top) \subseteq P
  BY <1>1, <1>4 DEF N
<1>6. ASSUME NEW s \in SUBSET Addr PROVE Cardinality(s) <= top
  BY AddrAssumption, FS_Subset DEF top
<1> QED
  BY <1>5, <1>6 DEF UpToSize

Pick(s) == CHOOSE x \in s : TRUE

\* One step of the sum over a set, and the function of all sums.
SumStep(g, accts, s) ==
  IF s = {} THEN 0 ELSE accts[Pick(s)].balance + g[s \ {Pick(s)}]

SumsOf(g, accts) == g = [s \in SUBSET Addr |-> SumStep(g, accts, s)]

\* The function of all sums exists.
LEMMA SumsExist ==
  ASSUME NEW accts
  PROVE  \E g : SumsOf(g, accts)
<1> DEFINE N == {n \in Nat : \E g : g = [s \in UpToSize(n) |-> SumStep(g, accts, s)]}
           top == Cardinality(Addr)
<1>1. top \in Nat
  BY Smaller
<1>2. 0 \in N
  <2> DEFINE g == [s \in UpToSize(0) |-> 0]
  <2>1. \A s \in UpToSize(0) : SumStep(g, accts, s) = 0
    BY Smaller DEF UpToSize, SumStep
  <2>2. g = [s \in UpToSize(0) |-> SumStep(g, accts, s)]
    BY <2>1
  <2> HIDE DEF g
  <2> QED
    BY <2>2
<1>3. ASSUME NEW n \in 1..top, n - 1 \in N PROVE n \in N
  <2>1. PICK g : g = [s \in UpToSize(n - 1) |-> SumStep(g, accts, s)]
    BY <1>3
  <2> DEFINE h == [s \in UpToSize(n) |-> SumStep(g, accts, s)]
  <2>2. n \in Nat /\ n - 1 \in Nat
    BY <1>1
  <2>3. ASSUME NEW s \in UpToSize(n) PROVE SumStep(g, accts, s) = SumStep(h, accts, s)
    <3>1. CASE s = {}
      BY <3>1 DEF SumStep
    <3>2. CASE s # {}
      <4> DEFINE t == s \ {Pick(s)}
      <4>1. Pick(s) \in s
        BY <3>2 DEF Pick
      <4>2. t \in UpToSize(n - 1) /\ t \in UpToSize(n)
        BY <2>2, <4>1, Smaller DEF UpToSize
      <4>3. g[t] = SumStep(g, accts, t) /\ h[t] = SumStep(g, accts, t)
        <5> HIDE DEF t
        <5> QED
          BY <2>1, <4>2
      <4> QED
        BY <4>3 DEF SumStep
    <3> QED
      BY <3>1, <3>2
  <2>4. h = [s \in UpToSize(n) |-> SumStep(h, accts, s)]
    BY <2>3
  <2> HIDE DEF h
  <2> QED
    BY <2>2, <2>4
<1> HIDE DEF N, top
<1>4. top \in N
  BY <1>1, <1>2, <1>3, UpTo
<1>5. \E g : g = [s \in UpToSize(top) |-> SumStep(g, accts, s)]
  BY <1>4 DEF N
<1>6. UpToSize(top) = SUBSET Addr
  BY AddrAssumption, FS_Subset DEF top, UpToSize
<1> QED
  BY <1>5, <1>6 DEF SumsOf

\* The total of the balances in an account map.
Sums(accts) == CHOOSE g : SumsOf(g, accts)

Supply(accts) == Sums(accts)[Addr]

\* A sum takes its members in any order.
LEMMA SumPick ==
  ASSUME NEW accts \in AccountMap
  PROVE  /\ Sums(accts)[{}] = 0
         /\ \A s \in SUBSET Addr :
              /\ Sums(accts)[s] \in Nat
              /\ \A x \in s : Sums(accts)[s] = accts[x].balance + Sums(accts)[s \ {x}]
<1> DEFINE g == Sums(accts)
<1>1. SumsOf(g, accts)
  BY SumsExist DEF Sums
<1> HIDE DEF g
<1>2. \A s \in SUBSET Addr : g[s] = SumStep(g, accts, s)
  BY <1>1 DEF SumsOf
<1>3. g[{}] = 0
  BY <1>2 DEF SumStep
<1>4. \A x \in Addr : accts[x].balance \in Nat
  BY MaxUintAssumption DEF AccountMap, Account, Word
<1>5. \A s \in SUBSET Addr : s # {} =>
        Pick(s) \in s /\ g[s] = accts[Pick(s)].balance + g[s \ {Pick(s)}]
  BY <1>2 DEF SumStep, Pick
<1>6. ASSUME NEW s \in SUBSET Addr PROVE g[s] \in Nat
  <2> DEFINE P == {t \in SUBSET Addr : g[t] \in Nat}
  <2>1. {} \in P
    BY <1>3
  <2>2. ASSUME NEW t \in SUBSET Addr, t # {}, \A x \in t : t \ {x} \in P
        PROVE  t \in P
    <3>1. Pick(t) \in t /\ g[t] = accts[Pick(t)].balance + g[t \ {Pick(t)}]
      BY <1>5, <2>2
    <3>2. g[t \ {Pick(t)}] \in Nat /\ accts[Pick(t)].balance \in Nat
      BY <1>4, <2>2, <3>1
    <3>3. g[t] \in Nat
      BY <3>1, <3>2
    <3> QED
      BY <3>3
  <2> HIDE DEF P
  <2>3. SUBSET Addr \subseteq P
    BY <2>1, <2>2, SetInduction
  <2> QED
    BY <2>3 DEF P
<1> DEFINE InAnyOrder(s) == \A x \in s : g[s] = accts[x].balance + g[s \ {x}]
           P == {s \in SUBSET Addr : InAnyOrder(s)}
<1>7. {} \in P
  OBVIOUS
<1>8. ASSUME NEW s \in SUBSET Addr, s # {}, \A x \in s : s \ {x} \in P
      PROVE  s \in P
  <2>1. PICK y \in s : g[s] = accts[y].balance + g[s \ {y}]
    BY <1>5, <1>8
  <2>2. ASSUME NEW x \in s, x # y PROVE g[s] = accts[x].balance + g[s \ {x}]
    <3>1. g[s \ {y}] = accts[x].balance + g[(s \ {y}) \ {x}]
      BY <1>8, <2>2
    <3>2. g[s \ {x}] = accts[y].balance + g[(s \ {x}) \ {y}]
      BY <1>8, <2>2
    <3>3. (s \ {y}) \ {x} = (s \ {x}) \ {y}
      OBVIOUS
    <3> DEFINE both == g[(s \ {x}) \ {y}]
    <3>4. both \in Nat /\ accts[x].balance \in Nat /\ accts[y].balance \in Nat
      BY <1>4, <1>6
    <3>5. /\ g[s] = accts[y].balance + (accts[x].balance + both)
          /\ g[s \ {x}] = accts[y].balance + both
      BY <2>1, <3>1, <3>2, <3>3
    <3> HIDE DEF both
    <3> QED
      BY <3>4, <3>5
  <2> QED
    BY <2>1, <2>2
<1> HIDE DEF P
<1>9. SUBSET Addr \subseteq P
  BY <1>7, <1>8, SetInduction
<1> QED
  BY <1>3, <1>6, <1>9 DEF P, g

\* Sums depend on the balances of the members only.
LEMMA SumSame ==
  ASSUME NEW accts \in AccountMap, NEW next \in AccountMap, NEW T \in SUBSET Addr,
         \A a \in T : next[a].balance = accts[a].balance
  PROVE  Sums(next)[T] = Sums(accts)[T]
<1> DEFINE P == {s \in SUBSET Addr : s \subseteq T => Sums(next)[s] = Sums(accts)[s]}
<1>1. {} \in P
  BY SumPick
<1>2. ASSUME NEW s \in SUBSET Addr, s # {}, \A x \in s : s \ {x} \in P
      PROVE  s \in P
  <2> SUFFICES ASSUME s \subseteq T PROVE Sums(next)[s] = Sums(accts)[s]
    OBVIOUS
  <2>1. PICK x \in s : TRUE
    BY <1>2
  <2>2. /\ Sums(next)[s] = next[x].balance + Sums(next)[s \ {x}]
        /\ Sums(accts)[s] = accts[x].balance + Sums(accts)[s \ {x}]
    BY SumPick
  <2>3. Sums(next)[s \ {x}] = Sums(accts)[s \ {x}]
    BY <1>2
  <2> QED
    BY <2>2, <2>3
<1> HIDE DEF P
<1>3. SUBSET Addr \subseteq P
  BY <1>1, <1>2, SetInduction
<1> QED
  BY <1>3 DEF P

\* One account taken out of the supply.
LEMMA SupplyPick ==
  ASSUME NEW accts \in AccountMap, NEW x \in Addr
  PROVE  LET rest == Sums(accts)[Addr \ {x}]
         IN  rest \in Nat /\ Supply(accts) = accts[x].balance + rest
<1>1. Addr \ {x} \in SUBSET Addr /\ Addr \in SUBSET Addr
  OBVIOUS
<1> QED
  BY <1>1, SumPick DEF Supply

\* Writing one balance changes the supply by as much.
LEMMA SupplyWrite ==
  ASSUME NEW accts \in AccountMap, NEW next \in AccountMap, NEW x \in Addr,
         \A a \in Addr \ {x} : next[a].balance = accts[a].balance
  PROVE  /\ Supply(accts) \in Nat /\ accts[x].balance \in Nat /\ next[x].balance \in Nat
         /\ accts[x].balance <= Supply(accts)
         /\ Supply(next) - next[x].balance = Supply(accts) - accts[x].balance
         /\ Supply(next) \in Nat
<1> DEFINE rest == Sums(accts)[Addr \ {x}]
<1>1. rest \in Nat /\ Supply(accts) = accts[x].balance + rest
  BY SupplyPick
<1>2. Supply(next) = next[x].balance + Sums(next)[Addr \ {x}]
  BY SupplyPick
<1>3. Sums(next)[Addr \ {x}] = rest
  BY SumSame
<1>4. accts[x].balance \in Nat /\ next[x].balance \in Nat
  BY MaxUintAssumption DEF AccountMap, Account, Word
<1> HIDE DEF rest
<1> QED
  BY <1>1, <1>2, <1>3, <1>4

\* What the writes of applyTransaction do to the supply: the debit takes the
\* value out and the credit puts it back, as long as all funds together fit
\* into a word.
LEMMA WriteSupply ==
  ASSUME NEW accts \in AccountMap, NEW tx \in Transaction
  PROVE  /\ tx.value \in Nat /\ Supply(accts) \in Nat
         /\ Supply(Touch(accts, tx)) = Supply(accts)
         /\ Supply(Bump(accts, tx)) = Supply(accts)
         /\ CanApply(accts, tx) => Supply(Withdraw(accts, tx)) + tx.value = Supply(accts)
         /\ Supply(accts) + tx.value <= MaxUint =>
              Supply(Credit(accts, tx)) = Supply(accts) + tx.value
<1>1. tx.from \in Addr /\ tx.to \in Addr /\ tx.value \in Nat
  BY MaxUintAssumption DEF Transaction, Word
<1>2. Supply(accts) \in Nat
  BY SumPick DEF Supply
<1>3. \A a \in Addr : accts[a] \in Account
  BY DEF AccountMap
<1>4. Supply(Touch(accts, tx)) = Supply(accts)
  <2>1. Touch(accts, tx) \in AccountMap
    BY TouchType
  <2>2. ASSUME NEW a \in Addr PROVE Touch(accts, tx)[a].balance = accts[a].balance
    BY WriteEffect
  <2> QED
    BY <2>1, <2>2, SumSame DEF Supply
<1>5. Supply(Bump(accts, tx)) = Supply(accts)
  <2>1. Bump(accts, tx) \in AccountMap
    BY BumpType
  <2>2. ASSUME NEW a \in Addr PROVE Bump(accts, tx)[a].balance = accts[a].balance
    BY WriteEffect
  <2> QED
    BY <2>1, <2>2, SumSame DEF Supply
<1>6. ASSUME CanApply(accts, tx)
      PROVE  Supply(Withdraw(accts, tx)) + tx.value = Supply(accts)
  <2> DEFINE next == Withdraw(accts, tx)
  <2>1. next \in AccountMap
    BY <1>6, WithdrawType
  <2>2. /\ next[tx.from].balance = accts[tx.from].balance - tx.value
        /\ \A a \in Addr \ {tx.from} : next[a].balance = accts[a].balance
    BY <1>1, <1>3, WriteEffect
  <2> HIDE DEF next
  <2>3. /\ Supply(next) - next[tx.from].balance = Supply(accts) - accts[tx.from].balance
        /\ Supply(next) \in Nat /\ accts[tx.from].balance \in Nat
    BY <1>1, <2>1, <2>2, SupplyWrite
  <2>4. Supply(next) + tx.value = Supply(accts)
    BY <1>1, <1>2, <2>2, <2>3
  <2> QED
    BY <2>4 DEF next
<1>7. ASSUME Supply(accts) + tx.value <= MaxUint
      PROVE  Supply(Credit(accts, tx)) = Supply(accts) + tx.value
  <2> DEFINE next == Credit(accts, tx)
  <2>1. next \in AccountMap
    BY CreditType
  <2>2. /\ next[tx.to].balance = Wrap(accts[tx.to].balance + tx.value)
        /\ \A a \in Addr \ {tx.to} : next[a].balance = accts[a].balance
    BY <1>1, <1>3, WriteEffect
  <2> HIDE DEF next
  <2>3. /\ Supply(next) - next[tx.to].balance = Supply(accts) - accts[tx.to].balance
        /\ Supply(next) \in Nat /\ accts[tx.to].balance \in Nat
        /\ accts[tx.to].balance <= Supply(accts)
    BY <1>1, <2>1, <2>2, SupplyWrite
  <2>4. Wrap(accts[tx.to].balance + tx.value) = accts[tx.to].balance + tx.value
    <3>1. accts[tx.to].balance + tx.value \in 0..MaxUint
      BY <1>1, <1>2, <1>7, <2>3, MaxUintAssumption
    <3> QED
      BY <3>1, WrapWord, MaxUintAssumption
  <2>5. Supply(next) = Supply(accts) + tx.value
    BY <1>1, <1>2, <2>2, <2>3, <2>4
  <2> QED
    BY <2>5 DEF next
<1> QED
  BY <1>1, <1>2, <1>4, <1>5, <1>6, <1>7

\* What the sums of the properties stand for.
LEMMA SupplyIs ==
  ASSUME NEW accts
  PROVE  MapThenSumSet(LAMBDA a : accts[a].balance, Addr) = Supply(accts)
  BY DEF MapThenSumSet, MapThenFoldSet, Supply, Sums, SumsOf, SumStep, Pick

\* The premine fits into a word.
SupplyFits == MapThenSumSet(LAMBDA a : Genesis[a].balance, Addr) <= MaxUint

\* No step creates or destroys funds: in every state, also in the middle of a
\* transfer and after an exception, the balances and the value that is debited
\* and not yet credited add up to the premine, if the premine itself fits into a
\* word. The funds check of validateTransaction has no part in this; the balance
\* test in applyTransaction does.
THEOREM SupplyKept == ASSUME SupplyFits PROVE Spec => []SupplyConserved
<1> DEFINE Moving == IF InTransit THEN mempool[main.i].value ELSE 0
           SupplyInv == Supply(accounts) + Moving = Supply(Genesis)
<1>1. Supply(Genesis) <= MaxUint /\ Supply(Genesis) \in Nat
  BY SupplyIs, SumPick, GenesisAssumption DEF SupplyFits, Supply
<1>2. Init => SupplyInv
  BY <1>1 DEF Init, InTransit
<1>3. CInv /\ SupplyInv /\ [Next]_vars => SupplyInv'
  <2> SUFFICES ASSUME CInv, SupplyInv, [Next]_vars PROVE SupplyInv'
    OBVIOUS
  <2>1. /\ accounts \in AccountMap /\ DOMAIN main = {"pc", "i", "n", "before", "left"}
        /\ Supply(accounts) \in Nat
    BY SumPick DEF CInv, IInv, TypeOK, Supply
  <2>2. CASE MineWrite
    <3> DEFINE tx == mempool[main.i]
    <3>1. tx \in Transaction /\ UNCHANGED mempool
      BY <2>2, WriteFrame DEF CInv
    <3>2. CASE MineTouch
      <4>1. accounts' = Touch(accounts, tx) /\ main.pc = "apply" /\ main'.pc = "debit"
        BY <2>1, <3>2 DEF MineTouch
      <4>2. Moving = 0 /\ Moving' = 0
        BY <4>1 DEF InTransit
      <4> QED
        BY <3>1, <4>1, <4>2, <2>1, WriteSupply
    <3>3. CASE MineDebit
      <4>1. /\ accounts' = Withdraw(accounts, tx) /\ CanApply(accounts, tx)
            /\ main.pc = "debit" /\ main'.pc = "nonce" /\ main'.i = main.i
        BY <2>1, <3>3 DEF MineDebit
      <4>2. Moving = 0 /\ Moving' = tx.value
        BY <3>1, <4>1 DEF InTransit
      <4> HIDE DEF tx, Moving
      <4>3. Supply(accounts') + tx.value = Supply(accounts)
        BY <2>1, <3>1, <4>1, WriteSupply
      <4> QED
        BY <2>1, <4>2, <4>3
    <3>4. CASE MineNonce
      <4>1. /\ accounts' = Bump(accounts, tx)
            /\ main.pc = "nonce" /\ main'.pc = "credit" /\ main'.i = main.i
        BY <2>1, <3>4 DEF MineNonce
      <4>2. Moving' = Moving
        BY <3>1, <4>1 DEF InTransit
      <4> HIDE DEF tx, Moving
      <4>3. Supply(accounts') = Supply(accounts)
        BY <2>1, <3>1, <4>1, WriteSupply
      <4> QED
        BY <4>2, <4>3
    <3>5. CASE MineCredit
      <4>1. accounts' = Credit(accounts, tx) /\ main.pc = "credit" /\ main'.pc = "apply"
        BY <2>1, <3>5 DEF MineCredit
      <4>2. Moving = tx.value /\ Moving' = 0
        BY <4>1 DEF InTransit
      <4> HIDE DEF tx, Moving
      <4>3. Supply(accounts) + tx.value <= MaxUint
        BY <1>1, <4>2
      <4>4. Supply(accounts') = Supply(accounts) + tx.value /\ tx.value \in Nat
        BY <2>1, <3>1, <4>1, <4>3, WriteSupply
      <4> QED
        BY <2>1, <4>2, <4>4
    <3> QED
      BY <2>2, <3>2, <3>3, <3>4, <3>5 DEF MineWrite
  <2>3. CASE mineBlock /\ ~MineWrite
    <3>1. /\ accounts' = accounts
          /\ \/ main.pc = "idle" /\ main'.pc = "apply"
             \/ main.pc = "debit" /\ main'.pc = "idle"
             \/ main.pc = "apply" /\ main'.pc = "clear"
             \/ main.pc = "clear" /\ main'.pc = "idle"
      BY <2>1, <2>3 DEF mineBlock, MineWrite, MineStart, MineThrow, MinePush, MineClear
    <3>2. ~InTransit /\ ~InTransit'
      BY <3>1 DEF InTransit
    <3> QED
      BY <3>1, <3>2
  <2>4. CASE ~mineBlock
    <3>1. UNCHANGED <<accounts, main>> /\ (mempool' = mempool \/ main.pc = "idle")
      BY <2>4, CallerStep DEF CInv
    <3> QED
      BY <3>1 DEF InTransit
  <2> QED
    BY <2>2, <2>3, <2>4
<1>4. SupplyInv => SupplyConserved
  BY SupplyIs DEF SupplyConserved
<1> QED
  BY <1>2, <1>3, <1>4, ChainInductive, PTL DEF Spec
=============================================================================
