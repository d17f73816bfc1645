-------------------------------- MODULE Rpc ---------------------------------
(***************************************************************************)
(* What the read methods of RpcServer (src/rpc_server.cpp) answer. They    *)
(* take no lock and change nothing, so an answer is a function of the      *)
(* state of Blockchain at some moment, the middle of a block included.     *)
(* eth_getTransactionByHash, which reads at two moments, is in Blockchain. *)
(*                                                                         *)
(* A hex string is a record: how many "0x" it starts with, and the value   *)
(* of its digits.                                                          *)
(***************************************************************************)
EXTENDS Blockchain, Rlp

Hex(prefixes, value) == [prefixes |-> prefixes, value |-> value]

null == [null |-> TRUE]

\* At most one prefix is taken off.
strip0x(text) == IF text.prefixes > 0 THEN Hex(text.prefixes - 1, text.value) ELSE text

\* "0x" in front of what is there.
Prefixed(text) == Hex(text.prefixes + 1, text.value)

\* Block hashes and transaction roots are stored without a prefix, except for
\* the literal "0x00"; the roots that the trie computes are stored with one.
Stored(digest) == Hex(IF digest = ZeroRoot THEN 1 ELSE 0, digest)

StoredRoot(digest) == Hex(1, digest)

-----------------------------------------------------------------------------
(* Accounts.                                                               *)

handle_getBalance(a) == IF accounts[a].exists THEN accounts[a].balance ELSE 0

\* Mutant: transactions that wait in the mempool are counted.
TransactionCountPending(a) ==
  accounts[a].nonce + Cardinality({i \in DOMAIN mempool : mempool[i].from = a})

handle_getTransactionCount(a) == IF accounts[a].exists THEN accounts[a].nonce ELSE 0

-----------------------------------------------------------------------------
(* Blocks.                                                                 *)

handle_blockNumber == Tip.index

\* The number is the client's own text with a prefix before it.
ShownByNumber(b, num) ==
  [number     |-> Prefixed(num),
   hash       |-> Stored(b.hash),
   parentHash |-> Stored(b.prevHash),
   stateRoot  |-> StoredRoot(b.stateAfter),
   txRoot     |-> Stored(b.txRoot)]

\* std::stoull in base 16 skips one prefix and stops at the first character
\* that is not a digit: of "0x0x1" it reads "0x0".
stoull(text) == IF text.prefixes <= 1 THEN text.value ELSE 0

\* Mutant: the blocks are numbered from the tip.
BlockByNumberFromTip(num) ==
  IF stoull(num) >= Len(chain) THEN null
                               ELSE ShownByNumber(chain[Len(chain) - stoull(num)], num)

handle_getBlockByNumber(num) ==
  IF stoull(num) >= Len(chain) THEN null ELSE ShownByNumber(chain[stoull(num) + 1], num)

\* Mutant: the block is found under its parent's hash.
HashMatchesParent(b, text) == strip0x(Stored(b.prevHash)) = strip0x(text)

HashMatches(b, text) == strip0x(Stored(b.hash)) = strip0x(text)

\* The number shown is the RLP encoding of the height, read as a number.
ShownByHash(b) ==
  [number     |-> Hex(1, toUint(encodeUint(b.index))),
   hash       |-> Prefixed(Stored(b.hash)),
   parentHash |-> Prefixed(Stored(b.prevHash)),
   stateRoot  |-> Prefixed(StoredRoot(b.stateAfter)),
   txRoot     |-> Prefixed(Stored(b.txRoot))]

\* The first match is answered.
handle_getBlockByHash(text) ==
  IF \A i \in DOMAIN chain : ~HashMatches(chain[i], text) THEN null
  ELSE ShownByHash(chain[CHOOSE i \in DOMAIN chain :
                           /\ HashMatches(chain[i], text)
                           /\ \A j \in 1..(i - 1) : ~HashMatches(chain[j], text)])

-----------------------------------------------------------------------------
(* Properties.                                                             *)

\* What a client has been told stands: the height and the nonces never go
\* back, and a block that was served under a number or a hash is served
\* under it for ever, although answers are read in the middle of mining.
\* (No instance executes so many transactions that a nonce wraps.)
AnswersStand ==
  [][ /\ handle_blockNumber' >= handle_blockNumber
      /\ \A a \in Addr : handle_getTransactionCount(a)' >= handle_getTransactionCount(a)
      /\ \A n \in 0..handle_blockNumber :
           \A told \in {handle_getBlockByNumber(Hex(1, n))} :
             /\ handle_getBlockByNumber(Hex(1, n))' = told
             /\ handle_getBlockByHash(told.hash)' = handle_getBlockByHash(told.hash)
    ]_<<chain, accounts>>

\* Asked for that number, eth_getBlockByNumber answers the block of that hash.
LeadsTo(number, hash) ==
  LET answer == handle_getBlockByNumber(number)
  IN  answer # null /\ answer.hash = hash

\* How far a client can walk the chain by what it is shown. The height that
\* eth_blockNumber answers is the last one that has a block, every hash shown,
\* with or without a prefix added, leads eth_getBlockByHash to the same block,
\* and every parent hash leads to the block below. Of the numbers shown in the
\* blocks themselves, the one that eth_getBlockByHash shows leads back to its
\* block exactly for the heights 1 to 127 (it is the RLP encoding of the
\* height: 0x80 for 0, 0x8180 for 128), and the one that eth_getBlockByNumber
\* shows ("0x0x1" for 1) only for the genesis block.
ChainWalkable ==
  /\ handle_getBlockByNumber(Hex(1, handle_blockNumber)) # null
  /\ handle_getBlockByNumber(Hex(1, handle_blockNumber + 1)) = null
  /\ \A n \in 0..handle_blockNumber :
       \E byNumber \in {handle_getBlockByNumber(Hex(1, n))} :
         \E byHash \in {handle_getBlockByHash(byNumber.hash)} :
           /\ byHash # null
           /\ byHash.hash = Prefixed(byNumber.hash)
           /\ byHash.stateRoot = Prefixed(byNumber.stateRoot)
           /\ handle_getBlockByHash(byHash.hash) = byHash
           /\ LeadsTo(byHash.number, byNumber.hash) <=> n \in 1..127
           /\ LeadsTo(byNumber.number, byNumber.hash) <=> n = 0
           /\ n > 0 => handle_getBlockByHash(byHash.parentHash).hash =
                         Prefixed(handle_getBlockByNumber(Hex(1, n - 1)).hash)
=============================================================================
