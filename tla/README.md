# A TLA+ verification of the Gambit node

Gambit (`src/`, `include/gambit/`, `app/main.cpp`) is an account-based
blockchain node in C++: transactions arrive over JSON-RPC or P2P, wait in a
mempool, and are put into hash-linked blocks by the main thread
(`--mine-blocks=N`) or by a miner thread (`--auto-mining`). This directory
models the node's core in TLA+, checks it with TLC and proves every safety
property of the passing runs with TLAPS. Paths below are relative to the repository root.

## 1. Inventory

| Component | State | Operations | Talks to | Hard because |
|---|---|---|---|---|
| Account state (`src/state.cpp`) | map address -> balance, nonce | `get`, `getOrCreate`, `applyTransaction`, `root` | called by Blockchain, engine, RPC | throws half way, aliasing of sender and recipient, 64-bit wrap, unlocked reads |
| Blockchain (`src/blockchain.cpp`) | `chain_`, `state_`, `mempool_`, one mutex | `validateTransaction` (unlocked), `addTransaction`, `mineBlock`, `addBlock` | everything | validation and insertion are two steps, long critical section, exceptions |
| Blocks, proofs, receipts (`src/block.cpp`, `src/zk.cpp`, `src/receipt.cpp`) | values | constructor, `computeHash`, `generate`, `verify`, wire format | Blockchain, P2P | hash computed before all fields are set, fields left out on the wire |
| Mining engine (`src/zk_mining_engine.cpp`) | none | `buildBlockTemplate`, `validateMinedBlock` | reads Blockchain without lock | a template mixes several moments |
| Miner (`src/miner.cpp`) | thread, `running_`, interval | `start`, `stop`, `loop`, `getWork`, `submitWork` | engine, Blockchain, P2P | exceptions ignored, results dropped |
| RPC server (`src/rpc_server.cpp`) | listening socket, detached client threads | eight methods | Blockchain, without lock | reads of moving state |
| P2P node and peers (`src/p2p_node.cpp`, `src/p2p_peer.cpp`, `src/p2p_message.cpp`) | peer list and mutex, sockets, a thread per peer | `connectTo`, `acceptLoop`, broadcasts, handlers | Blockchain, other nodes | partial sends, dead peers, blocking sends under a lock |
| Transactions and keys (`src/transaction.cpp`, `src/keys.cpp`) | values, one lazily made context | sign, encode, decode, recover | RPC, P2P, blocks | one-byte `v` |
| Seeder (`src/zk_seeder.cpp`, `src/zk_seeder_client.cpp`) | peer records and mutex | `registerPeer`, `getPeers`, `getRecordFor` | keys | two clocks |
| Wallet (`src/wallet.cpp`) | phrase, salt, accounts, a file | create, import, derive, save | keys | the file is truncated before it is written, writes unchecked; bit arithmetic of phrases, wrap of hardened indices |
| RLP, trie, bloom, hash, address | values | codecs | all | boundaries of lengths, order of a hash map |
| VM registry, plugins | table of VMs | register, get | nothing: not in the build | unlocked `get` |
| Application (`app/main.cpp`) | the process | parse options, start everything, mine N blocks, sleep | all | no exception handler |

What makes them correct: funds are conserved and nonces count executions
(account state); the blocks record exactly what was executed, and nothing that
was accepted is lost (Blockchain); the chain is linked and only grows (miner,
P2P); every call returns and mining goes on (all threads); what clients are
told is true of one moment and stays true (RPC); what is encoded is decoded
(codecs); a saved wallet has in it what it takes to get at its accounts
(wallet). `PROJECT.json` lists the hazards line by line.

## 2. Modules

| Module | Models | Role |
|---|---|---|
| `Ledger` | `State`, the checks of `validateTransaction` | pure operators |
| `Rlp` | the RLP encoder and decoder | pure operators |
| `Trie` | `MptTrie` | pure operators, extends `Rlp` |
| `LedgerInputs` | `Ledger` over all small inputs, the bytes under `State::root` | run `ledger_inputs`, extends `Trie` |
| `Block` | `Block`, `ZkProver`, `ZkVerifier`, roots, receipts | pure operators |
| `AtomicLedger` | what `Blockchain` promises: pending transactions are executed all at once | abstract specification |
| `Blockchain` | `Blockchain` and its callers: submitters, readers, main | state machine |
| `Rpc` | the answers of `RpcServer`'s read methods | extends `Blockchain` and `Rlp` |
| `MCBlockchain` | its instance for TLC, the properties that count or replay, the refinement of `AtomicLedger` | runs `blockchain`, `blockchain_replay` |
| `Miner` | engine, miner loop, external workers, main's broadcast | extends `Blockchain` |
| `MCMiner` | its instances | runs `miner`, `miner_state`, `miner_stuck` |
| `TxCodec` | `Transaction` and `Keys`: signing, encoding, decoding, recovery | pure operators |
| `TxRelay` | a signed transaction on its way to a node and on to a second one | extends `TxCodec` |
| `TxWire` | the bytes of a signed transaction | extends `TxRelay` and `Rlp` |
| `MCTxRelay` | its instances | runs `tx_codec`, `tx_codec_default` |
| `SeederStore` | what the seeder promises: a map from node ids to records | abstract specification |
| `Seeder` | `ZkSeederService`, `ZkSeederClient` | implements `SeederStore`, uses the signatures of `TxCodec` |
| `MCSeeder` | its instance | run `seeder` |
| `Gossip` | `P2PNode`, `Peer`, `Message`, the wire format of `Block` | several nodes, extends `Block` |
| `MCGossip` | its instances | runs `gossip`, `gossip_propagation` |
| `Mnemonic` | phrases, seeds, derivation paths of `Wallet` | pure operators |
| `Wallet` | `Wallet`, its file, and the program around it | extends `Mnemonic` |
| `MCWallet` | its instance | run `wallet` |
| `RlpProofs` | | theorems about `Rlp`'s operators, and the lemmas on division and induction that the other proofs use |
| `LedgerProofs` | | theorems and lemmas about `Ledger`'s operators |
| `LedgerInputsProofs`, `SeederProofs`, `WalletProofs`, `GossipProofs` | | theorems about the module of that name |
| `TxRelayProofs` | | theorems about `TxRelay` and `TxWire` |
| `ChainProofs` | | theorems about `Blockchain`, `Miner`, `Rpc` and `MCBlockchain`: lock and history, the chain, refinement |

### State and steps

`chain`, `accounts`, `mempool` and `mutex` are the members of `Blockchain`;
`sub`, `reader`, `main` and `work` hold the program counter and the locals of
the threads; `alive` is the process. A step is a stretch of code between two
points where another thread can see or change something it uses:

- `validateTransaction` is two steps (nonce, then balance, read through the
  pointer of the lookup), each of which may reject; `addTransaction` is a
  third, under the lock.
- `mineBlock` is a step for taking the lock, four for each transaction (making
  the two accounts, the debit, the nonce, the credit: `src/state.cpp:28-37`), one
  for pushing the block and one for clearing the mempool, because readers do not
  take the lock. In place of the debit there may be an exception, which releases
  the lock, leaves the accounts as they are (both accounts of the failing
  transaction inserted) and, since `main` has no handler, ends the process.
- `eth_getTransactionByHash` is two searches, the mempool and then the blocks.
- `buildBlockTemplate` is seven steps, one for each unlocked read with the local
  work before it. The reads of height and last hash are arguments of one call, so
  their order is free.
- `addBlock` is one step under the lock.
- The other read methods of `RpcServer` change nothing and keep nothing, so
  they are operators on the state (`handle_...`) and the properties ask for
  their answers in every state, the middle of a block and of a transfer included.
- `Wallet::save` is two steps: opening the file, which truncates it, and
  writing it. `create` and `importMnemonic` end with the same two. The program
  may end anywhere (`Exit`), a write may fail unnoticed (`SaveEnd` leaves the
  file torn), and file and exported phrases outlive the program. The command
  line of `app/main.cpp` (create, add an account, save, exit) is one of the
  behaviours. Calls that throw before they change anything are `Throws`.
- `registerPeer` is two steps: reading the clock and verifying, then the upsert
  under the lock. `call` holds the locals of each call.
- In `Gossip` a node first dials (`connectTo`, one step per seed, in order),
  then listens, then mines. A broadcast is a step for taking `peersMutex_` and
  one for each blocking send. Each end of a connection has a `recvLoop` that
  handles one message a step, and `pipe` holds what is under way to it. The miner
  is the only thread of a node that broadcasts: a node that also runs main's
  `--mine-blocks` loop has two, and nothing keeps their broadcasts in the order of heights.

Two marks in `reader` (`had`, `missed`), the sets `announced` and `owed`, and the
field `after` of a seeder call exist for the properties; no step of the code depends on them.

### Abstractions

- A digest is a tag around its input, so digests are equal exactly when the
  inputs are. This uses that the hashed strings keep their parts apart (they
  are joined by `|`, which no part contains) and that the bytes under a state
  root are the same for equal maps and different for different ones, which
  `RootCommits` says of the trie itself.
- Likewise `TxCodec` takes the fields of a transaction to travel unchanged, and
  `BytesRoundTrip` says so of the bytes. The stand-ins for `r` and `s` are two
  fixed sequences of 32 bytes.
- In `Rpc` a hex string is how many `0x` it starts with and the value of its
  digits: the code stores some digests with the prefix and some without, adds
  one in some answers, and takes off at most one. `std::stoull` reads one prefix
  and stops at a second: of "0x0x1" it makes 0.
- In `Mnemonic` the widths are constants, and the instance scales them down
  (below); a hash is a function of the bytes, a derived key a tag around what
  it is derived from. The sealed phrase records password and salt; which cipher
  seals it (AES-GCM, or none in a build without OpenSSL) makes no difference to
  the properties. A path is its components: the code skips empty ones and reads
  044 as 44, so several texts are one path.
- Addresses are model values; integers keep a width (`MaxUint`), and so do the
  keys of the receipts trie (`ReceiptKeys`).
- An unlocked read that falls into a write is undefined in C++. Modelled
  outcomes: the container as it was before or after the write, or the end of
  the process (`LookupRace`, `SearchRace`, `ReadRace`). Torn values that are
  neither are not modelled. The engine's `root()` and its copy of the state walk
  the accounts one by one and are one step each here; a state root or a copy of
  several moments is outside the model. No property of `Miner` looks into them.
- Signatures: a transaction carries the address that recovery yields. Both
  callers of `validateTransaction` pass what `Transaction::fromHex` returned,
  so the inputs of the runs have the sender as signer.
- TCP: whole messages in order, at most `Buffer` each way; a process that ends
  during a send leaves part of a header or of a payload, and what `recvLoop`
  makes of bytes it never got is a choice (the loop ends, or the process).
- Platforms: `src/dns_seed.cpp` includes the Windows headers only, while the
  other files have both branches. `Gossip` has both: on Windows `start()` dials
  between `resolveAll`'s `WSACleanup` and its own `WSAStartup`, so every
  connection fails; on POSIX (that one file ported) connections come about, and
  a send to a peer that is gone may end the process by SIGPIPE.
- Mining in `Gossip` is one step: what `Miner` shows in detail. A message names
  its block by sender and height; its payload is the encoding of that block.
- Left out: a block's `nonce` (never set), its logs bloom (always empty), a
  transaction's `data` (nothing reads it), log output.
- `getWork` and `submitWork` have no caller in the repository; an external
  worker is a thread that calls one and then the other with the block it got.

## 3. Runs

| Run | Shows | States |
|---|---|---|
| `ledger_inputs` | `FundsCheckExact`: the overflow tests accept exactly what the balance covers; `TransferExact`: a transfer moves exactly its value, to oneself too; `RootCommits`: the bytes under a state root are independent of the map's order and give every account back | 65,537 |
| `blockchain` | `StateContinuity`, `BlocksReplay`, `NonceCountsExecutions`, `SupplyConserved`, `ReceiptsBound`, `NoLookupMisses`, `AcceptedTxsKept`, `CallsReturn`; of the RPC reads `ReadsSequential`, `ChainWalkable`, `AnswersStand`; `ExecutesAtomically` (the refinement of `AtomicLedger`) | 22,315 |
| `blockchain_replay` | violation of `NoDoubleExecution` | |
| `miner` | `ChainLinked`, `AppendOnly`, `MinedIsAnnounced`, `LoopIterates` | 271,939 |
| `miner_state` | violation of `StateAfterAuthoritative` | |
| `miner_stuck` | violation of `ContinuousMining` | |
| `tx_codec` | `AcceptedAuthentic`, `DecodesAsSigned`, for all pairs of chain ids up to 109; `BytesRoundTrip` | 292,958 |
| `tx_codec_default` | violation of `DecodesAsSigned` at chain id 1337 | |
| `seeder` | `RecordsAuthentic`, `RefusedOnlyForeign`, `NobodyCrowdedOut`, `NotUndone`, `StoreRefined` (the refinement of `SeederStore`) | 1,824,238 |
| `gossip` | `BlocksUnderWay`: a block is under way to every peer its miner had, in order and once, until it is handled; `BroadcastsReturn`, `PeersHear` | 129,677 |
| `gossip_propagation` | violation of `Propagation` | |
| `wallet` | `FileRecoverable`, `FileBehind`, `PathsApart`, `LongPhrasesExact` | 55,900 |

The five violations are what the code does, against what it or its
documentation says:

1. *Nonces do not stop a second execution.* Validation compares the nonce
   with the mined state only. A transaction sent twice before the next block
   is accepted and executed twice (`whitepaper.md:200`: "Double-Spend
   Protection: Account nonce mechanism").
2. *The state does not follow mined blocks.* `addBlock` neither executes nor
   clears, so with `--auto-mining` every block starts at the same state and
   repeats the mempool (`src/blockchain.cpp:178`: "assume stateAfter is
   authoritative").
3. *Mining stops.* Two payments that are covered one by one but not together
   stay in the mempool for ever; every template throws and the loop ignores it
   (`app/main.cpp:38`: "Enable continuous mining").
4. *The default chain id does not work.* `fromHex` cuts `v` to one byte
   (`src/transaction.cpp:154`: "keep full v for recovery"), `recoverAddress`
   derives the chain id from the byte, and the two agree only up to chain id
   109. With the default, 1337 (`app/main.cpp:28`), every signed transaction is
   refused. At 110 and 111 a remainder of 0 or 1 passes for a recovery id and
   the sender comes out wrong for some signatures.
5. *Blocks do not propagate.* A block that is sent, received and handled is
   refused (`whitepaper.md:224`: "Gossip protocol for block propagation").
   `Block::fromHex` leaves the proof's public inputs empty, so `verify` fails;
   it throws for a block with transactions, which it decodes from the empty
   bytes of an RLP list; the genesis blocks of two nodes differ by their time;
   and nothing is passed on to further nodes.

What the refinement of `AtomicLedger` says, and what it does not: the state
root of the newest block, the transactions of all blocks and the mempool change
as whitepaper.md:75 says ("State transitions are atomic within blocks"). The
live account map, which `eth_getBalance` reads, does not: it shows the middle of
a block and, as `applyTransaction` writes it three times, the middle of a
transfer. `ReadsSequential` says what holds for it: balance and nonce of an
account are each that before or after the transfer under way, but for an account
that pays itself, which is shown without the payment until it is credited. It is
a statement about single answers. A client that asks for both accounts of a
transfer can find the value in neither; by how much the sum of all balances is
short is what `SupplyConserved` says. All this is about the blocks of main;
blocks that come through `addBlock` are the second finding.

Met while modelling, and not stated as a run of its own:

- `BIP39_WORDLIST` has 310 entries, some repeated (`include/gambit/wallet.hpp:92`:
  "2048 words"). `generateMnemonic` leaves out what has no word, so most new
  wallets have a phrase of fewer than 12 words (`wallet.hpp:33`), which
  `importMnemonic` refuses.
- Of 12 words, `validateMnemonic` takes 15 bytes as entropy and the next four
  bits as checksum; of 24 words it takes the right ones (`LongPhrasesExact`).
- `validateMnemonic` splits at any white space, but the seed is computed from
  the text: the same words spaced otherwise open another wallet.
- A save that fails or is cut off loses the file's former content; `load`
  always throws, so only the exported phrase leads back to the accounts.
- Numbers shown in blocks often lead elsewhere. `eth_getBlockByHash` shows the
  RLP encoding of the height: right from 1 to 127, but `0x80` for 0 and `0x8180`
  for 128. `eth_getBlockByNumber` shows the client's own text with one more `0x`,
  and `"0x0x1"` asks for block 0. `ChainWalkable` says for each whether it leads back.
- The receipts root of a block of more than 256 transactions does not commit to
  the early receipts (`ReceiptsBound`).
- A registration that read the clock before another of the same node, and gets the
  seeder's lock after it, writes its older record over that of a call which has
  been answered (`src/zk_seeder.cpp:81-87`). Neither `NotUndone` nor `StoreRefined`
  forbids this: the two calls overlap, and nothing in the repository promises an order.

### Bounds

- `ledger_inputs`: words of three bits. Products and sums of two words reach
  past the word in every combination of overflow and remainder. Trie keys are
  one byte that differ in the second nibble, so that paths share a node and part.
- `blockchain`: two submitters (they race with each other and with main), one
  reader, two blocks (the second starts from the first's state, and a
  transaction can arrive during either), two transactions in the mempool or on
  their way (enough for one to throw after another was executed). The client
  transactions overspend together, depend on each other, pay oneself and are
  meant for another chain. `ReceiptKeys` is 1, so that in a block of two the first
  receipt is overwritten and in a block of one it is not.
- `miner`: the loop and one external worker, one block of main, one
  transaction between two addresses; no template is begun on a chain of `MaxBlocks`, but templates
  already begun are carried through, so that stale ones meet a longer chain.
- `blockchain` and `miner` stand for a node started with `--chain-id=1`: by the
  fourth finding, no transaction decodes under the default.
- `tx_codec`: bytes have 256 values and words three bytes (no `v` in the run
  reaches 1,000); one client and one transaction per
  behaviour, since the codec has no state. The six bodies have numbers of up to
  three bytes on both sides of 0x7f and 0xff, data of 0, 1, 55, 56 and 256
  bytes, and no recipient. A behaviour ends when nothing is under way, so
  deadlock is not checked.
- `seeder`: two nodes, one with a clock a second ahead, two end points, two
  proofs, two seconds and three calls: enough for an older call to write after a
  newer one, and for a third that began after either had ended.
- `gossip`: two seeds that resolve to one node, so two connections; two blocks
  of each node against a buffer of one message, so that both ends wait for room
  at once; one process that ends at any point.
- `wallet`: words of three bits, bytes of two, phrases of three and six words.
  As in the code, a short phrase is entropy and checksum exactly, the checksum
  of a long one fills a byte and that of a short one half of it, the list is
  shorter than the indices and repeats a word. All long phrases over four words
  (one of them not in the list) and all short ones over five are checked. Two
  wallets, which may meet in the one file; three accounts, of two names and four
  paths, one of them the default path with its hardened index written out.
- In `tx_codec`, `seeder` and `gossip` the bounds end every behaviour.
- `Times` has one element: no step depends on the clock.

### Fairness

Weak fairness of main and the miner's loop, which are running threads, and of
requests that have begun; in `Gossip` of `acceptLoop`, of broadcasts that have
begun and of each `recvLoop`, but not of mining. No request need ever arrive, and external workers may
stop at any point. The mutex needs no strong fairness in these instances since
main takes it a bounded number of times. Liveness properties allow for the end
of the process, which the code does not prevent.

## 4. Proofs

TLC checks small instances; the theorems hold for every set of addresses,
threads, nodes, phrases and transactions, every word width and every number of
blocks. They rest on assumptions named in the modules that declare the
constants: the constants have their types; `Free # Main`; there are finitely
many addresses (20 bytes) and nodes; `MaxUint` is not 0; the premine gives no
account a nonce, and an account outside it has nothing; the proportions of
BIP39 hold (the checksum of a long phrase is one byte); the range of an index is
twice its hardened half. For the codecs a word has at most eight bytes
(`WordBytesAssumption`), addresses and the numbers of a signature have between 1
and 255 (`SizesAssumption`), and the fields of a transaction have their types,
its data at most what a message can hold in hex (`BodiesAssumption`). For the
network a connection has two different ends. Every run evaluates the
assumptions of its modules.

### The method

An invariant is shown in three steps (it holds at first, every step keeps it,
it implies the property), with one lemma for each kind of step where there are
many.

The library's induction theorems take an operator as a parameter, which the
provers cannot instantiate. `RlpProofs` has induction about a set instead:
`UpTo` says that a set with 0, and with each number up to `n` the next, has
them all. It follows from the well-foundedness of `<` through `LeastNat`. The
recursive functions of the model (execution, flattening of the blocks, sums of
balances, derivation of keys, the loops of the codecs, the decoder) are values of `CHOOSE` to the prover, so each is
first shown to exist: `UpTo` applied to the set of bounds up to which some
function satisfies the recursion (`StatesExist`, `JoinsExist`, `SumsExist`,
`KeysExist`). Only then is its recursion available.

### RLP (`RlpProofs`)

- `UintRoundTrip`: for every number, the bytes that the loop of `encodeUint`
  collects have no leading zero, and `toUint` reads the number back.
- `ToUintAfter`: a prefix that is not zero makes the number that `toUint` reads
  larger, so the encoding `0x8180` of 128 does not read as 128.
- `StringRoundTrip`, `ListRoundTrip`: for every string, and every list of
  strings, whose length the encoder can write in at most eight bytes, `decode`
  returns what `encodeBytes` or `encodeList` was given. Eight is what a prefix
  has room for between 0xb8 and 0xbf; a ninth byte would make the prefix that of a list.

The decoder is one function on pairs of an offset and an end. It exists by
induction over how far the offset is from the end of the input. The header of
an item is read back for both forms of the length (across the boundary between
55 and 56, and the one between 0x7f and 0x80 for single bytes), wherever in the
input the item stands, and the items of a list follow by induction from the
last one to the first.

### Ledger (`LedgerProofs`, `LedgerInputsProofs`)

- `FundsExact`: the four overflow-aware lines of `validateTransaction` are
  equivalent to `gasPrice * gasLimit + value <= balance` over the integers.
- `ApplyType`: `applyTransaction` keeps balances and nonces in the word.
  `ApplyEffect` says what it does to each account; the proofs about the chain
  use it in place of the definition.
- `FundsCheck`, `Transfer`, `TypeCorrect`: what the run `ledger_inputs` checks
  for words of three bits, for every width, so for the build's 64 bits.
- `RootReadBack` (`RootCommits`), for every width up to eight bytes: the two
  orders in which `State::root` may walk the hash map build the same trie
  (`TrieEitherOrder`), since `put` only adds the prefixes of a path and sets one
  value; and reading the encoded trie along the nibbles of a key gives the value
  that was put, where the paths are shared and where they part. The encoded
  node lists and the account values are read back by `ListRoundTrip`.

### Blockchain (`ChainProofs`)

- `TypeCorrect`, `Continuity`, `TxsKept`, `LookupsFind`. `StateContinuity` is
  not inductive: it says nothing while the lock is held. The inductive
  invariant `IInv` adds who holds the lock (`LockInv`), that the loop of
  `mineBlock` runs over a mempool nobody changes (`LoopInv`), how many calls are
  left (`LeftInv`), and (`HistoryInv`) that `before` is the tip's `stateAfter`
  while a block is mined and that, between push and clear, the tip carries
  exactly the mempool. `LookupsFind` adds that a transaction in a block stays in
  one.

### What the chain records (`ChainProofs`)

The inductive invariant `CInv` adds to `IInv` that every block stands at its
height on the block below, carries the roots and receipts of its own
transactions, and ends in the state that executing the recorded history from
the genesis state gives (`ChainInv`); that, while a block is mined, the
accounts are those after the executed part of the mempool, each transaction of
which could be applied, with as many writes of the next one as main's place in
the loop says (`RunInv`, `Written`); and that an account that does not exist
reads as nothing, while the two of a transfer under way exist (`AbsentInv`).
`ChainInductive` proves it. From it follow

- `Refines`: `Blockchain` implements `AtomicLedger`. A push maps to the abstract
  execution of the whole mempool, adding a transaction to the abstract addition,
  and everything else, the clearing of the mempool and an exception in the
  middle of a block included, to a stutter.
- `Replays` (`BlocksReplay`).
- `ReadsAreSequential` (`ReadsSequential`): the maps of the loop are moments of a
  sequential execution (`Moment`), and `SeenInTransit` says what an account shows
  after each write.
- `ReceiptsAreBound` (`ReceiptsBound`), for blocks of any length: the receipts that
  are the last with their trie key are exactly the last `ReceiptKeys`
  (`LastReceipts`), and the root is a digest of those (`TrieOfLast`).
- `Walkable` (`ChainWalkable`), in both directions: block hashes are apart because
  a hash has the height in it; a height from 1 to 127 is its own encoding
  (`SmallHeight`), and the encoding of any other reads as another number
  (`OtherHeight`), so the number shown leads to another block or to none.
- `NoncesCount` (`NonceCountsExecutions`), from an invariant on what is in blocks
  or executed for the next one.
- `SupplyKept` (`SupplyConserved`), if the premine fits a word (`SupplyFits`;
  the application premines one account). The sum of the balances takes its
  members in any order (`SumPick`), so the account that a step writes can be taken
  out of it (`SupplyWrite`); as the balances and the value in transit together fit
  the word, the credit does not wrap (`WriteSupply`).
- `AnswersDoStand` (`AnswersStand`), for behaviours in which no nonce reaches the
  last number of the word (`NoncesLast`): after it a nonce starts again at 0, and
  so does `eth_getTransactionCount`.

### Miner (`ChainProofs`)

- `Linked`, `NeverRewritten`: every step leaves the chain alone or appends a
  block that fits the tip, because height and parent are read (`mineBlock`) or
  compared (`addBlock`) under the lock, wherever the block comes from.
- `Announced` (`MinedIsAnnounced`): `AnnounceInv` says of each block who is to
  announce it. It needs the lock (`addBlock` finds main outside `mineBlock`, so
  the block that main has pushed is still the newest when it returns) and that
  the hash of a mined block is not the empty string that stands for no block.

### Transactions (`TxRelayProofs`)

- `RoundTrip`, `Authentic`, `Decoded`, where 36 + 2 * chain id is below
  `ByteSize` and a word holds twice a byte. The inductive invariant says where
  each message and each decoded copy comes from, and that only first-hand copies
  are accepted: encoding a decoded copy adds 35 + 2 * chain id to a `v` that has
  it already, so a second node reads another chain id (`RelayedChainId`).
- `BytesReadBack` (`BytesRoundTrip`), for all bodies of `BodiesAssumption` and
  not only the six of the run: the nine fields have the sizes that
  `ListRoundTrip` asks for, the numbers come back by `UintRoundTrip`, and the
  zero address, written as no bytes, comes back as itself. The inductive
  invariant says that every message has a body of `Bodies` and a `v` of one
  word, which a second encoding keeps.

### Seeder (`SeederProofs`)

The inductive invariant: proofs are what clients build (`TypeInv`), no two
places of the list are of one node (`Distinct`), every record of the list was
registered by a call that verified it (`Registered`), and the record of a node
with an answered call is that of an answered call which was not over before it
began (`Placed`).

- `Authentic`, `OnlyForeignRefused`: `verifyProof` accepts a proof exactly for
  the record it was made for (`VerifyExact`).
- `AllListed` (`NobodyCrowdedOut`): a list without repetition is no longer than
  there are nodes, by the pigeonhole principle.
- `NeverUndone` (`NotUndone`): the record after an answer is not that of a call
  which was over before the answered one began. Overlapping calls are left out, as
  in the code any of them may be the last to write.
- `Refines`: `Seeder` implements `SeederStore`.

### Wallet (`WalletProofs`)

`FileRecoverable` says nothing of the wallet in memory, which is what the next
save writes. The inductive invariant says the same of the wallet (`WalletInv`),
of the save under way (`CallInv`) and of the file, which also lists a prefix of
the accounts of a wallet with its salt (`FileInv`).

- `Recoverable`, `Behind`.
- `Apart` (`PathsApart`): derived keys are apart for different index sequences,
  by induction over their length, and different paths whose numbers leave the
  top bit free give different index sequences.
- `LongExact` (`LongPhrasesExact`): the rounding in the number of entropy bytes
  comes out right if the checksum of a long phrase fills a byte.

### Gossip (`GossipProofs`)

- `Delivery` (`BlocksUnderWay`), for any number of nodes and connections, any
  buffer and any number of blocks. While both processes run, a block that one
  mined after it had the other in its list is under way, or the broadcast that
  goes on has not got to that connection yet; blocks come in the order of their
  heights, and none twice.

The property is not inductive. `GossipInv` adds that no connection is twice in a
node's list and only its own are in it (`PeersInv`), without which a send might
repeat a block or go to the wrong end; that a broadcast is about a block of the
node's own chain (`CastInv`); and for each end of a connection (`EndInv`) that
nothing is owed or under way to an end that the other does not have in its list,
that parts of messages come only from processes that have ended, and that the
heights under way are below that of the next block the sender mines. TLC checked
`GossipInv` on the instance of the run before it was proved.

### Only model-checked

- Liveness (`CallsReturn`, `LoopIterates`, `BroadcastsReturn`, `PeersHear`): out
  of the prover's reach. `Delivery` is the safety half of `PeersHear`: what a
  peer is owed stays under way; that the peer's loop gets to it is TLC's.
- The five violations, which are counterexamples and need no proof.

## 5. Plan

Done: all modules of section 2 with their runs; the proofs of section 4, which
state every invariant, action property and refinement of the passing runs.
What could come next, should the code grow: reading a wallet's file back, once
`load` is written; blocks from peers as steps of `Blockchain`, once they can be
accepted (fifth finding).

Not modelled: vendored libraries; name resolution, sockets, HTTP and JSON,
option parsing (input and output); ciphers, hashes and curves (cryptography);
the bloom, which is always empty; VM registry and plugins, which are not part of
the build; `stop` of miner, RPC server and P2P node, which `main` never reaches;
reading a wallet's file back, which the code does not do.
