------------------------------ MODULE TxCodec -------------------------------
(***************************************************************************)
(* Signing, encoding and decoding of transactions (src/transaction.cpp)    *)
(* and recovery of the sender (src/keys.cpp). Pure operators.              *)
(*                                                                         *)
(* The fields that travel unchanged (nonce, gas, recipient, value, data)   *)
(* are one value, the body. What matters is v: a number that carries the   *)
(* recovery id and the chain id, 64 bits wide on the wire and 8 bits wide  *)
(* in a Signature. r and s stand for the signature they are: who signed,   *)
(* what, and with which recovery id.                                       *)
(***************************************************************************)
EXTENDS Naturals

CONSTANTS
  ZeroAddress, \* the address of a transaction without a sender
  Stranger,    \* an address that recovery yields and nobody has the key of
  ByteSize,    \* how many values std::uint8_t has (256)
  WordSize     \* how many values std::uint64_t has

ASSUME ByteSizeAssumption == ByteSize \in Nat \ {0, 1}
ASSUME WordSizeAssumption == WordSize \in Nat \ {0}

U8(n) == n % ByteSize

U64(n) == n % WordSize

-----------------------------------------------------------------------------
(* Keys.                                                                   *)

\* secp256k1: the signature gives back its signer for the message and the
\* recovery id it was made with. Any other message, or the other recovery id,
\* whose point exists as well, gives the address of a key nobody has.
ecdsa_recover(rs, msg, recId) ==
  IF msg = rs.msg /\ recId = rs.recId THEN rs.signer ELSE Stranger

sign(key, msg, recId) ==
  [rs |-> [signer |-> key, msg |-> msg, recId |-> recId], v |-> U8(recId)]

\* Mutant: a bare recovery id is not accepted.
RecoverThrowsBare(sig, chainId) == sig.v < 35 \/ (sig.v - 35) \div 2 # chainId

\* The two ways out of recoverAddress by an exception, besides malformed r, s.
RecoverThrows(sig, chainId) ==
  /\ sig.v \notin {0, 1}
  /\ sig.v < 35 \/ (sig.v - 35) \div 2 # chainId

recoverAddress(msg, sig, chainId) ==
  LET recId == IF sig.v \in {0, 1} THEN sig.v ELSE sig.v - (35 + 2 * chainId)
  IN  ecdsa_recover(sig.rs, msg, recId)

-----------------------------------------------------------------------------
(* Transactions.                                                           *)

\* keccak256 of the encoding that is signed.
signingHash(tx) == <<tx.body, tx.chainId>>

\* Mutant: the chain id is added once, not twice.
EncodedVSingle(tx) == U64(tx.sig.v + 35 + tx.chainId)

EncodedV(tx) == U64(tx.sig.v + 35 + 2 * tx.chainId)

rlpEncodeSigned(tx) == [body |-> tx.body, v |-> EncodedV(tx), rs |-> tx.sig.rs]

\* keccak256 of the signed encoding.
computeHash(tx) == rlpEncodeSigned(tx)

signWith(body, chainId, key, recId) ==
  LET sig == sign(key, signingHash([body |-> body, chainId |-> chainId]), recId)
      tx  == [body |-> body, chainId |-> chainId, sig |-> sig]
  IN  [body |-> body, chainId |-> chainId, sig |-> sig, from |-> key,
       hash |-> computeHash(tx)]

\* fromHex up to the recovery of the sender.
Parsed(wire) ==
  [body    |-> wire.body,
   chainId |-> IF wire.v >= 35 THEN (wire.v - 35) \div 2 ELSE 0,
   sig     |-> [rs |-> wire.rs, v |-> U8(wire.v)]]

Decodes(wire) == ~RecoverThrows(Parsed(wire).sig, Parsed(wire).chainId)

\* Defined where Decodes holds: the code throws elsewhere.
fromHex(wire) ==
  LET tx == Parsed(wire)
  IN  [body |-> tx.body, chainId |-> tx.chainId, sig |-> tx.sig,
       hash |-> computeHash(tx),
       from |-> recoverAddress(signingHash(tx), tx.sig, tx.chainId)]

verifySignature(tx) ==
  /\ ~RecoverThrows(tx.sig, tx.chainId)
  /\ \/ tx.from = ZeroAddress
     \/ recoverAddress(signingHash(tx), tx.sig, tx.chainId) = tx.from

\* Mutant: the chain id is not compared.
ChecksPassAnyChain(tx, chainId) == verifySignature(tx)

\* The first two checks of validateTransaction on a node of chain chainId.
ChecksPass(tx, chainId) == tx.chainId = chainId /\ verifySignature(tx)
=============================================================================
