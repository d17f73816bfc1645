------------------------------- MODULE Block --------------------------------
(***************************************************************************)
(* Blocks, their hash, transaction root, receipts and mock validity proof  *)
(* (src/block.cpp, src/zk.cpp, src/receipt.cpp and the block-building part *)
(* of src/blockchain.cpp). Pure operators.                                 *)
(*                                                                         *)
(* The strings hashed here join hex digests and decimal numbers with "|",  *)
(* which neither contains, so a digest stands for the tuple of the parts.  *)
(* The nonce field (never set) and the logs bloom (always empty) of a      *)
(* block are left out.                                                     *)
(***************************************************************************)
EXTENDS Ledger, Sequences

CONSTANT
  ReceiptKeys  \* how many keys std::uint8_t gives the receipts trie (256)

ASSUME ReceiptKeysAssumption == ReceiptKeys \in Nat \ {0}

\* The literal "0x00": prevHash of the genesis block, root of no transactions.
ZeroRoot == <<"0x00", <<>>>>

\* The default-constructed, empty std::string.
EmptyString == <<"", <<>>>>

-----------------------------------------------------------------------------
(* ZkProver and ZkVerifier: the proof is a hash of its public inputs and   *)
(* the commitment a hash of the proof and the inputs.                      *)

Commit(proof, before, after, txRoot) == keccak256(<<proof, before, after, txRoot>>)

generate(before, after, txRoot) ==
  LET proof == keccak256(<<before, after, txRoot>>)
  IN  [proof |-> proof, stateBefore |-> before, stateAfter |-> after,
       txRoot |-> txRoot, commitment |-> Commit(proof, before, after, txRoot)]

verify(p) == Commit(p.proof, p.stateBefore, p.stateAfter, p.txRoot) = p.commitment

-----------------------------------------------------------------------------
(* Roots and receipts.                                                     *)

computeTxRoot(txs) == IF txs = <<>> THEN ZeroRoot ELSE keccak256(txs)

\* Each receipt carries the gas limits added up so far, with wrap-around.
receiptsOf(txs) ==
  LET gas[i \in 0..Len(txs)] ==
        IF i = 0 THEN 0 ELSE Wrap(gas[i - 1] + txs[i].gasLimit)
  IN  [i \in 1..Len(txs) |-> [status |-> TRUE, cumulativeGasUsed |-> gas[i]]]

\* Mutant: the first receipt of a key stays.
receiptsRootOfFirst(receipts) ==
  LET KeyOf(i) == (i - 1) % ReceiptKeys
      First(k) == CHOOSE i \in DOMAIN receipts :
                    /\ KeyOf(i) = k
                    /\ \A j \in DOMAIN receipts : KeyOf(j) = k => i <= j
  IN  keccak256([k \in {KeyOf(i) : i \in DOMAIN receipts} |-> receipts[First(k)]])

\* The trie key of receipt i is static_cast<uint8_t>(i): a later receipt
\* replaces an earlier one with the same key.
receiptsRootOf(receipts) ==
  LET KeyOf(i) == (i - 1) % ReceiptKeys
      Last(k) == CHOOSE i \in DOMAIN receipts :
                   /\ KeyOf(i) = k
                   /\ \A j \in DOMAIN receipts : KeyOf(j) = k => j <= i
  IN  keccak256([k \in {KeyOf(i) : i \in DOMAIN receipts} |-> receipts[Last(k)]])

-----------------------------------------------------------------------------
(* Block.                                                                  *)

computeHash(b) ==
  keccak256(<<b.index, b.prevHash, b.stateBefore, b.stateAfter, b.txRoot,
              b.receiptsRoot, b.proof.commitment, b.timestamp>>)

\* The constructor: the hash is computed while receiptsRoot is still empty.
NewBlock(index, prevHash, before, after, txRoot, proof, now) ==
  LET fields ==
        [index |-> index, prevHash |-> prevHash, stateBefore |-> before,
         stateAfter |-> after, txRoot |-> txRoot, receiptsRoot |-> EmptyString,
         proof |-> proof, timestamp |-> now, hash |-> EmptyString,
         transactions |-> <<>>, receipts |-> <<>>]
  IN  [fields EXCEPT !.hash = computeHash(fields)]

GenesisBlock(accts, now) ==
  LET r == root(accts)
  IN  NewBlock(0, ZeroRoot, r, r, ZeroRoot, generate(r, r, ZeroRoot), now)

-----------------------------------------------------------------------------
(* The wire format. receiptsRoot and the public inputs of the proof are    *)
(* not encoded, receipts are encoded and not decoded.                      *)

\* A list inside a list, as rlp::decode returns it: its own bytes are empty.
ListItem(items) == [bytes |-> EmptyString, list |-> items]

rlpEncode(b) ==
  [index |-> b.index, prevHash |-> b.prevHash, stateBefore |-> b.stateBefore,
   stateAfter |-> b.stateAfter, txRoot |-> b.txRoot, proof |-> b.proof.proof,
   commitment |-> b.proof.commitment, timestamp |-> b.timestamp, hash |-> b.hash,
   transactions |-> [i \in DOMAIN b.transactions |-> ListItem(b.transactions[i])],
   receipts |-> b.receipts]

\* Transaction::fromHex gets the bytes of each item, and throws for no bytes.
Decodes(wire) ==
  \A i \in DOMAIN wire.transactions : wire.transactions[i].bytes # EmptyString

\* Defined where Decodes holds: the code throws elsewhere. What is not on the
\* wire has the default value.
fromHex(wire) ==
  [index |-> wire.index, prevHash |-> wire.prevHash,
   stateBefore |-> wire.stateBefore, stateAfter |-> wire.stateAfter,
   txRoot |-> wire.txRoot, receiptsRoot |-> EmptyString,
   proof |-> [proof |-> wire.proof, stateBefore |-> EmptyString,
              stateAfter |-> EmptyString, txRoot |-> EmptyString,
              commitment |-> wire.commitment],
   timestamp |-> wire.timestamp, hash |-> wire.hash,
   transactions |-> [i \in DOMAIN wire.transactions |-> wire.transactions[i].bytes],
   receipts |-> <<>>]
=============================================================================
