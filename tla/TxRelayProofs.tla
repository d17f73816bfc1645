--------------------------- MODULE TxRelayProofs ----------------------------
(***************************************************************************)
(* Proofs about TxCodec and TxRelay: for every chain id whose v fits one   *)
(* byte, a signed transaction survives encoding and decoding, and a node   *)
(* accepts only what a client signed; and the bytes of every transaction   *)
(* under way read back as its fields.                                      *)
(***************************************************************************)
EXTENDS TxWire, RlpProofs

\* 35 + 2 * chainId + recid fits a std::uint8_t.
FitsByte(id) == 36 + 2 * id < ByteSize

\* A std::uint64_t has room for twice what a byte holds.
WordHoldsTwoBytes == 2 * ByteSize <= WordSize

-----------------------------------------------------------------------------
(* Arithmetic of v.                                                        *)

\* A number below the modulus is its own remainder.
LEMMA ModSmall ==
  ASSUME NEW n \in Nat, NEW k \in Nat \ {0}, n < k
  PROVE  n % k = n
  OBVIOUS

\* The chain id is read back from v.
LEMMA ChainIdOfV ==
  ASSUME NEW c \in Nat, NEW r \in {0, 1}
  PROVE  (r + 35 + 2 * c - 35) \div 2 = c
  OBVIOUS

\* What a client puts on the wire.
Sent(body, c, key, r) == rlpEncodeSigned(signWith(body, c, key, r))

\* What fromHex reads from it.
LEMMA SignedV ==
  ASSUME NEW body, NEW c \in Nat, NEW key, NEW r \in {0, 1},
         FitsByte(c), WordHoldsTwoBytes
  PROVE  Parsed(Sent(body, c, key, r)) =
           [body |-> body, chainId |-> c,
            sig |-> [rs |-> [signer |-> key, msg |-> <<body, c>>, recId |-> r],
                     v  |-> r + 35 + 2 * c]]
<1> DEFINE tx   == signWith(body, c, key, r)
           data == rlpEncodeSigned(tx)
           v    == r + 35 + 2 * c
<1>1. v \in Nat /\ v < ByteSize /\ v < WordSize /\ v >= 35 /\ r < ByteSize
  BY ByteSizeAssumption, WordSizeAssumption DEF FitsByte, WordHoldsTwoBytes
<1>2. U8(r) = r
  BY <1>1, ModSmall, ByteSizeAssumption DEF U8
<1>3. /\ tx.sig.v = r /\ tx.chainId = c /\ tx.body = body
      /\ tx.sig.rs = [signer |-> key, msg |-> <<body, c>>, recId |-> r]
  BY <1>2 DEF signWith, sign, signingHash
<1>4. EncodedV(tx) = v
  BY <1>1, <1>3, ModSmall, WordSizeAssumption DEF EncodedV, U64
<1>5. data.v = v /\ data.body = body /\ data.rs = tx.sig.rs
  BY <1>3, <1>4 DEF rlpEncodeSigned
<1>6. U8(v) = v
  BY <1>1, ModSmall, ByteSizeAssumption DEF U8
<1>7. (v - 35) \div 2 = c
  BY ChainIdOfV
<1> HIDE DEF tx, data, v
<1>8. Parsed(data) = [body |-> body, chainId |-> c, sig |-> [rs |-> tx.sig.rs, v |-> v]]
  BY <1>1, <1>5, <1>6, <1>7 DEF Parsed
<1> QED
  BY <1>3, <1>8 DEF Sent, tx, data, v

\* fromHex of what signWith and rlpEncodeSigned made does not throw, and gives
\* back the body, the chain id and the signer, for every chain id whose v fits
\* one byte.
THEOREM RoundTrip ==
  ASSUME NEW body, NEW c \in Nat, NEW key, NEW r \in {0, 1},
         FitsByte(c), WordHoldsTwoBytes
  PROVE  /\ Decodes(Sent(body, c, key, r))
         /\ fromHex(Sent(body, c, key, r)).body = body
         /\ fromHex(Sent(body, c, key, r)).chainId = c
         /\ fromHex(Sent(body, c, key, r)).from = key
         /\ fromHex(Sent(body, c, key, r)).sig.v = r + 35 + 2 * c
<1> DEFINE data == Sent(body, c, key, r)
           p    == Parsed(data)
           v    == r + 35 + 2 * c
<1>1. /\ p.chainId = c /\ p.sig.v = v /\ p.body = body
      /\ p.sig.rs = [signer |-> key, msg |-> <<body, c>>, recId |-> r]
  BY SignedV
<1>2. v \in Nat /\ v \notin {0, 1} /\ v >= 35 /\ (v - 35) \div 2 = c /\ v - (35 + 2 * c) = r
  BY ChainIdOfV
<1> HIDE DEF p, v
<1>3. ~RecoverThrows(p.sig, p.chainId)
  BY <1>1, <1>2 DEF RecoverThrows
<1>4. recoverAddress(<<body, c>>, p.sig, c) = key
  BY <1>1, <1>2 DEF recoverAddress, ecdsa_recover
<1>5. signingHash(p) = <<body, c>>
  BY <1>1 DEF signingHash
<1>6. Decodes(data)
  BY <1>3 DEF Decodes, p
<1>7. /\ fromHex(data).body = p.body /\ fromHex(data).chainId = p.chainId
      /\ fromHex(data).sig = p.sig
      /\ fromHex(data).from = recoverAddress(signingHash(p), p.sig, p.chainId)
  BY DEF fromHex, p
<1> QED
  BY <1>1, <1>4, <1>5, <1>6, <1>7 DEF data, v

\* Encoded once more from a decoded copy, v carries another chain id: no node
\* of the chain takes a transaction at second hand.
LEMMA RelayedChainId ==
  ASSUME NEW body, NEW c \in Nat, NEW key, NEW r \in {0, 1},
         FitsByte(c), WordHoldsTwoBytes
  PROVE  fromHex(rlpEncodeSigned(fromHex(Sent(body, c, key, r)))).chainId # c
<1> DEFINE tx   == fromHex(Sent(body, c, key, r))
           v    == r + 35 + 2 * c + 35 + 2 * c
           data == rlpEncodeSigned(tx)
<1>1. tx.sig.v = r + 35 + 2 * c /\ tx.chainId = c
  BY RoundTrip
<1>2. v \in Nat /\ v < WordSize /\ v >= 35
  BY ByteSizeAssumption, WordSizeAssumption DEF FitsByte, WordHoldsTwoBytes
<1>3. (v - 35) \div 2 # c
  <2>1. v - 35 >= 2 * (c + 1)
    OBVIOUS
  <2> QED
    BY <2>1
<1> HIDE DEF tx
<1>4. EncodedV(tx) = v
  BY <1>1, <1>2, ModSmall, WordSizeAssumption DEF EncodedV, U64
<1> HIDE DEF v
<1>5. data.v = v
  BY <1>4 DEF rlpEncodeSigned
<1> HIDE DEF data
<1>6. fromHex(data).chainId = (v - 35) \div 2
  BY <1>2, <1>5 DEF fromHex, Parsed
<1> QED
  BY <1>3, <1>6 DEF tx, data

-----------------------------------------------------------------------------
(* The invariants of TxRelay, where every signed chain id fits.            *)

\* A client signed tx.
Signed(tx) ==
  \E body \in Bodies, c \in SignedIds, key \in Clients, r \in {0, 1} :
    tx = signWith(body, c, key, r)

\* got came from a client directly.
FirstHand(got) ==
  /\ got.hop = 1
  /\ \E tx \in signed : got.tx = fromHex(rlpEncodeSigned(tx))

\* m is what a client sent, or a node that had accepted the transaction.
Expected(m) ==
  \/ m.hop = 1 /\ \E tx \in signed : m.data = rlpEncodeSigned(tx)
  \/ m.hop = 2 /\ \E got \in accepted : m.data = rlpEncodeSigned(got.tx)

\* The inductive invariant: where everything under way, decoded and accepted
\* comes from, and that only first-hand transactions are accepted.
IInv ==
  /\ \A tx \in signed : Signed(tx)
  /\ \A m \in wire : Expected(m)
  /\ \A got \in seen : got.hop = 1 => FirstHand(got)
  /\ \A got \in accepted : FirstHand(got) /\ got.tx.chainId = chainId

IdsFit == WordHoldsTwoBytes /\ \A id \in SignedIds : FitsByte(id)

\* RoundTrip for what clients signed.
LEMMA SignedDecodes ==
  ASSUME IdsFit, NEW tx, Signed(tx)
  PROVE  /\ Decodes(rlpEncodeSigned(tx))
         /\ fromHex(rlpEncodeSigned(tx)).body = tx.body
         /\ fromHex(rlpEncodeSigned(tx)).chainId = tx.chainId
         /\ fromHex(rlpEncodeSigned(tx)).from = tx.from
         /\ fromHex(rlpEncodeSigned(fromHex(rlpEncodeSigned(tx)))).chainId # tx.chainId
<1>1. PICK body \in Bodies, c \in SignedIds, key \in Clients, r \in {0, 1} :
        tx = signWith(body, c, key, r)
  BY DEF Signed
<1>2. c \in Nat /\ FitsByte(c) /\ WordHoldsTwoBytes
  BY ChainIdsAssumption DEF IdsFit
<1>3. tx.body = body /\ tx.chainId = c /\ tx.from = key
  BY <1>1 DEF signWith
<1>4. rlpEncodeSigned(tx) = Sent(body, c, key, r)
  BY <1>1 DEF Sent
<1>5. /\ Decodes(Sent(body, c, key, r))
      /\ fromHex(Sent(body, c, key, r)).body = body
      /\ fromHex(Sent(body, c, key, r)).chainId = c
      /\ fromHex(Sent(body, c, key, r)).from = key
  BY <1>2, RoundTrip
<1>6. fromHex(rlpEncodeSigned(fromHex(Sent(body, c, key, r)))).chainId # c
  BY <1>2, RelayedChainId
<1> QED
  BY <1>3, <1>4, <1>5, <1>6

\* A step of a client or a node keeps the invariant.
LEMMA StepKeeps ==
  ASSUME IdsFit, IInv, [Next]_vars
  PROVE  IInv'
<1>1. CASE Send
  <2>1. PICK body \in Bodies, id \in SignedIds, key \in Clients, recId \in {0, 1} :
          /\ signed' = {signWith(body, id, key, recId)}
          /\ wire' = {[hop |-> 1, data |-> rlpEncodeSigned(signWith(body, id, key, recId))]}
    BY <1>1 DEF Send
  <2>2. signed = {} /\ UNCHANGED <<chainId, seen, accepted>>
    BY <1>1 DEF Send
  <2>3. \A tx \in signed' : Signed(tx)
    BY <2>1 DEF Signed
  <2>4. \A m \in wire' : Expected(m)'
    BY <2>1 DEF Expected
  <2>5. accepted = {} /\ \A got \in seen : got.hop # 1
    BY <2>2 DEF IInv, FirstHand
  <2> QED
    BY <2>2, <2>3, <2>4, <2>5 DEF IInv, Signed
<1>2. CASE Receive
  <2>1. PICK m \in wire :
          LET got == [hop |-> m.hop, tx |-> fromHex(m.data)]
          IN  /\ seen' = seen \cup {got}
              /\ accepted' = IF ChecksPass(got.tx, chainId) THEN accepted \cup {got} ELSE accepted
              /\ wire' = wire \ {m}
              /\ UNCHANGED <<chainId, signed>>
    BY <1>2 DEF Receive
  <2> DEFINE got == [hop |-> m.hop, tx |-> fromHex(m.data)]
  <2>2. Expected(m)
    BY DEF IInv
  <2>3. m.hop = 1 => FirstHand(got)
    BY <2>2 DEF Expected, FirstHand
  <2>4. ChecksPass(got.tx, chainId) => FirstHand(got) /\ got.tx.chainId = chainId
    <3>1. SUFFICES ASSUME ChecksPass(got.tx, chainId), m.hop # 1
                   PROVE  FALSE
      BY <2>3 DEF ChecksPass
    <3>2. PICK old \in accepted : m.data = rlpEncodeSigned(old.tx)
      BY <2>2, <3>1 DEF Expected
    <3>3. PICK tx \in signed : old.tx = fromHex(rlpEncodeSigned(tx))
      BY DEF IInv, FirstHand
    <3>4. fromHex(rlpEncodeSigned(tx)).chainId = tx.chainId
          /\ fromHex(rlpEncodeSigned(fromHex(rlpEncodeSigned(tx)))).chainId # tx.chainId
      BY SignedDecodes DEF IInv
    <3>5. tx.chainId = chainId
      BY <3>3, <3>4 DEF IInv
    <3>6. got.tx.chainId = chainId
      BY <3>1 DEF ChecksPass
    <3> QED
      BY <3>2, <3>3, <3>4, <3>5, <3>6
  <2>5. \A g : FirstHand(g)' <=> FirstHand(g)
    BY <2>1 DEF FirstHand
  <2>6. \A n \in wire' : Expected(n)'
    BY <2>1 DEF IInv, Expected
  <2>7. \A g \in seen' : g.hop = 1 => FirstHand(g)'
    BY <2>1, <2>3, <2>5 DEF IInv
  <2>8. \A g \in accepted' : FirstHand(g)' /\ g.tx.chainId = chainId'
    BY <2>1, <2>4, <2>5 DEF IInv
  <2> QED
    BY <2>1, <2>6, <2>7, <2>8 DEF IInv, Signed
<1>3. CASE Drop
  BY <1>3 DEF Drop, IInv, Expected, FirstHand, Signed
<1>4. CASE broadcastNewTx
  <2>1. PICK got \in accepted :
          /\ got.hop + 1 \in Hops
          /\ wire' = wire \cup {[hop |-> got.hop + 1, data |-> rlpEncodeSigned(got.tx)]}
          /\ UNCHANGED <<chainId, signed, seen, accepted>>
    BY <1>4 DEF broadcastNewTx
  <2>2. got.hop + 1 = 2
    BY DEF IInv, FirstHand
  <2>3. \A m \in wire' : Expected(m)'
    BY <2>1, <2>2 DEF IInv, Expected
  <2> QED
    BY <2>1, <2>3 DEF IInv, FirstHand, Signed
<1>5. CASE UNCHANGED vars
  BY <1>5 DEF vars, IInv, Expected, FirstHand, Signed
<1> QED
  BY <1>1, <1>2, <1>3, <1>4, <1>5 DEF Next

\* Where every chain id that clients sign for fits, a node accepts only what a
\* client signed, for its chain, with that client as the sender.
THEOREM Authentic ==
  ASSUME IdsFit
  PROVE  Spec => []AcceptedAuthentic
<1>1. Init => IInv
  BY DEF Init, IInv
<1>2. IInv /\ [Next]_vars => IInv'
  BY StepKeeps
<1>3. IInv => AcceptedAuthentic
  BY SignedDecodes DEF IInv, FirstHand, AcceptedAuthentic
<1> QED
  BY <1>1, <1>2, <1>3, PTL DEF Spec

\* Where every chain id that clients sign for fits, fromHex gives back what was
\* signed.
THEOREM Decoded ==
  ASSUME IdsFit
  PROVE  Spec => []DecodesAsSigned
<1>1. Init => IInv
  BY DEF Init, IInv
<1>2. IInv /\ [Next]_vars => IInv'
  BY StepKeeps
<1>3. IInv => DecodesAsSigned
  BY SignedDecodes DEF IInv, Expected, FirstHand, DecodesAsSigned
<1> QED
  BY <1>1, <1>2, <1>3, PTL DEF Spec

-----------------------------------------------------------------------------
(* The bytes of a transaction.                                             *)

U64Values == 0..(WordSize - 1)

\* The strings that rlpEncodeSigned writes.
Contents(body, v) ==
  <<BigEndian(body.nonce), BigEndian(body.gasPrice), BigEndian(body.gasLimit),
    IF body.to = ZeroTo THEN <<>> ELSE body.to,
    BigEndian(body.value), body.data, BigEndian(v), RBytes, SBytes>>

\* A number of 64 bits is written in at most eight bytes.
LEMMA WordAsBytes ==
  ASSUME NEW n \in U64Values
  PROVE  /\ n \in Nat
         /\ BigEndian(n) \in Seq(Byte) /\ toUint(BigEndian(n)) = n
         /\ Len(BigEndian(n)) \in 0..8
         /\ encodeUint(n) = encodeBytes(BigEndian(n))
<1>1. n \in Nat /\ WordSize - 1 \in Nat /\ n <= WordSize - 1
  BY WordSizeAssumption DEF U64Values
<1>2. Len(BigEndian(n)) <= Len(BigEndian(WordSize - 1))
  BY <1>1, BytesMonotone
<1>3. BigEndian(WordSize - 1) \in Seq(Byte) /\ BigEndian(n) \in Seq(Byte)
      /\ toUint(BigEndian(n)) = n
  BY <1>1, UintRoundTrip
<1> DEFINE a == Len(BigEndian(n))
           b == Len(BigEndian(WordSize - 1))
<1>4. a \in Nat /\ b \in Nat /\ a <= b /\ b <= 8
  BY <1>2, <1>3, WordBytesAssumption
<1> HIDE DEF a, b
<1>5. a \in 0..8
  BY <1>4
<1> QED
  BY <1>1, <1>3, <1>5, UintAsBytes DEF a

\* The strings of a transaction are bytes, and no longer than its data and 255.
LEMMA ContentsType ==
  ASSUME NEW body \in Bodies, NEW v \in U64Values
  PROVE  /\ Contents(body, v) \in Seq(Seq(Byte))
         /\ Len(Contents(body, v)) = 9
         /\ \A i \in 1..9 : /\ Contents(body, v)[i] \in Seq(Byte)
                            /\ Len(Contents(body, v)[i]) \in Nat
                            /\ Len(Contents(body, v)[i]) <= Len(body.data) + 255
<1> DEFINE D == Len(body.data) + 255
           Good(s) == s \in Seq(Byte) /\ Len(s) \in Nat /\ Len(s) <= D
           to == IF body.to = ZeroTo THEN <<>> ELSE body.to
<1>1. /\ body.nonce \in U64Values /\ body.gasPrice \in U64Values
      /\ body.gasLimit \in U64Values /\ body.value \in U64Values
      /\ body.to \in [1..AddressSize -> Byte] /\ body.data \in Seq(Byte)
  BY BodiesAssumption DEF U64Values
<1>2. D \in Nat /\ D >= 255 /\ Len(body.data) \in Nat
  BY <1>1
<1>3. Good(body.data)
  BY <1>1, <1>2
<1> HIDE DEF D
<1>4. \A n \in U64Values : Good(BigEndian(n))
  <2>1. ASSUME NEW n \in U64Values PROVE Good(BigEndian(n))
    <3> DEFINE k == Len(BigEndian(n))
    <3>1. BigEndian(n) \in Seq(Byte) /\ k \in 0..8
      BY WordAsBytes
    <3> HIDE DEF k
    <3>2. k \in Nat /\ k <= D
      BY <1>2, <3>1
    <3> QED
      BY <3>1, <3>2 DEF k
  <2> QED
    BY <2>1
<1>5. \A k \in 1..255 : \A s \in [1..k -> Byte] : Good(s)
  BY <1>2
<1>6. Good(<<>>)
  BY <1>2
<1>7. Good(RBytes) /\ Good(SBytes)
  <2>1. WordBytes \in 1..255
    BY SizesAssumption
  <2>2. \A i \in 1..WordBytes : 255 - i \in Byte /\ i - 1 \in Byte
    BY <2>1 DEF Byte
  <2>3. RBytes \in [1..WordBytes -> Byte] /\ SBytes \in [1..WordBytes -> Byte]
    BY <2>2 DEF RBytes, SBytes
  <2> HIDE DEF Good
  <2> QED
    BY <1>5, <2>1, <2>3
<1>8. Good(to)
  <2>1. AddressSize \in 1..255
    BY SizesAssumption
  <2>2. Good(body.to)
    <3> HIDE DEF Good
    <3> QED
      BY <1>1, <1>5, <2>1
  <2> HIDE DEF Good
  <2> QED
    BY <1>6, <2>2
<1> HIDE DEF Good, to
<1> DEFINE c == Contents(body, v)
<1>9. c = <<BigEndian(body.nonce), BigEndian(body.gasPrice), BigEndian(body.gasLimit), to,
            BigEndian(body.value), body.data, BigEndian(v), RBytes, SBytes>>
  BY DEF Contents, to
<1>10. \A i \in 1..9 : Good(c[i])
  <2>1. /\ Good(c[1]) /\ Good(c[2]) /\ Good(c[3]) /\ Good(c[4]) /\ Good(c[5])
        /\ Good(c[6]) /\ Good(c[7]) /\ Good(c[8]) /\ Good(c[9])
    BY <1>1, <1>3, <1>4, <1>7, <1>8, <1>9
  <2> HIDE DEF c
  <2>2. \A i \in 1..9 : i = 1 \/ i = 2 \/ i = 3 \/ i = 4 \/ i = 5 \/ i = 6 \/ i = 7 \/ i = 8 \/ i = 9
    OBVIOUS
  <2> QED
    BY <2>1, <2>2
<1>11. Len(c) = 9 /\ c = [i \in 1..9 |-> c[i]]
  BY <1>9
<1> HIDE DEF c
<1>12. \A i \in 1..9 : c[i] \in Seq(Byte) /\ Len(c[i]) \in Nat /\ Len(c[i]) <= D
  BY <1>10 DEF Good
<1>13. c \in Seq(Seq(Byte))
  <2>1. c \in [1..9 -> Seq(Byte)]
    BY <1>11, <1>12
  <2> QED
    BY <2>1, FunctionAsSeq
<1> QED
  BY <1>11, <1>12, <1>13 DEF c, D

\* rlpEncodeSigned encodes exactly these strings.
LEMMA FieldsEncoded ==
  ASSUME NEW wired, wired.body \in Bodies, wired.v \in U64Values
  PROVE  SignedFields(wired) = Encoded(Contents(wired.body, wired.v))
<1> DEFINE b == wired.body
           c == Contents(b, wired.v)
           f == SignedFields(wired)
           to == IF b.to = ZeroTo THEN <<>> ELSE b.to
<1>1. /\ b.nonce \in U64Values /\ b.gasPrice \in U64Values
      /\ b.gasLimit \in U64Values /\ b.value \in U64Values
  BY BodiesAssumption DEF U64Values
<1>2. \A n \in U64Values : encodeUint(n) = encodeBytes(BigEndian(n))
  BY WordAsBytes
<1>3. f = <<encodeBytes(BigEndian(b.nonce)), encodeBytes(BigEndian(b.gasPrice)),
            encodeBytes(BigEndian(b.gasLimit)), encodeBytes(to),
            encodeBytes(BigEndian(b.value)), encodeBytes(b.data),
            encodeBytes(BigEndian(wired.v)), encodeBytes(RBytes), encodeBytes(SBytes)>>
  BY <1>1, <1>2 DEF SignedFields
<1>4. c = <<BigEndian(b.nonce), BigEndian(b.gasPrice), BigEndian(b.gasLimit), to,
            BigEndian(b.value), b.data, BigEndian(wired.v), RBytes, SBytes>>
  BY DEF Contents
<1> HIDE DEF f, c, to, b
<1>5. Len(c) = 9 /\ f = [i \in 1..9 |-> f[i]]
  BY <1>3, <1>4
<1>6. \A i \in 1..9 : f[i] = encodeBytes(c[i])
  <2>1. /\ f[1] = encodeBytes(c[1]) /\ f[2] = encodeBytes(c[2]) /\ f[3] = encodeBytes(c[3])
        /\ f[4] = encodeBytes(c[4]) /\ f[5] = encodeBytes(c[5]) /\ f[6] = encodeBytes(c[6])
        /\ f[7] = encodeBytes(c[7]) /\ f[8] = encodeBytes(c[8]) /\ f[9] = encodeBytes(c[9])
    BY <1>3, <1>4
  <2>2. \A i \in 1..9 : i = 1 \/ i = 2 \/ i = 3 \/ i = 4 \/ i = 5 \/ i = 6 \/ i = 7 \/ i = 8 \/ i = 9
    OBVIOUS
  <2> QED
    BY <2>1, <2>2
<1>7. f = [i \in 1..9 |-> encodeBytes(c[i])]
  BY <1>5, <1>6
<1> QED
  BY <1>5, <1>7 DEF Encoded, f, c, b

\* decode reads the strings of a transaction back from toBytes.
LEMMA TransactionBytes ==
  ASSUME NEW wired, wired.body \in Bodies, wired.v \in U64Values
  PROVE  decode(toBytes(wired)) =
           List([i \in 1..9 |-> String(Contents(wired.body, wired.v)[i])])
<1> DEFINE c == Contents(wired.body, wired.v)
           D == Len(wired.body.data) + 255
           encs == Encoded(c)
<1>1. /\ c \in Seq(Seq(Byte)) /\ Len(c) = 9
      /\ \A i \in 1..9 : c[i] \in Seq(Byte) /\ Len(c[i]) \in Nat /\ Len(c[i]) <= D
  BY ContentsType
<1>2. D \in Nat /\ D < 65536 * 16384 + 255
  <2>1. wired.body.data \in Seq(Byte) /\ Len(wired.body.data) < 65536 * 16384
    BY BodiesAssumption, SMT
  <2>2. Len(wired.body.data) \in Nat
    BY <2>1, SMT
  <2> QED
    BY <2>1, <2>2, SMT
<1> HIDE DEF c, D
<1>3. \A n \in Nat : n <= 9 * (D + 9) => IsSize(n)
  <2>1. ASSUME NEW n \in Nat, n <= 9 * (D + 9) PROVE n < 65536 * 65536 * 65536 * 65536
    <3> DEFINE K == 65536 * 16384
               M == 65536 * 65536 * 65536 * 65536
    <3>1. K \in Nat /\ M \in Nat /\ 9 * K + 9 * 255 + 81 < M
      <4> DEFINE w == 65536 * 65536
      <4>a. w \in Nat
        BY SMT
      <4>b. K \in Nat
        BY SMT
      <4>c. K < w /\ w > 10000
        BY SMT
      <4>1. w \in Nat /\ K \in Nat /\ K < w /\ 9 * w + 9 * 255 + 81 < w * w /\ w * w \in Nat
        <5> HIDE DEF w, K
        <5>1. w * w >= 10000 * w /\ w * w \in Nat
          BY <4>a, <4>c, SMT
        <5> QED
          BY <4>a, <4>b, <4>c, <5>1, SMT
      <4>2. M = w * w
        BY SMT
      <4> HIDE DEF w, K, M
      <4> QED
        BY <4>1, <4>2, SMT
    <3>2. D \in Nat /\ D < K + 255
      BY <1>2, SMT
    <3> HIDE DEF K, M
    <3>3. n < M
      BY <2>1, <3>1, <3>2, SMT
    <3> QED
      BY <3>3, SMT DEF M
  <2> QED
    BY <2>1, SmallSize, SMT
<1>4. \A i \in 1..9 : IsSize(Len(c[i]))
  <2>1. \A n \in Nat : n <= D => n <= 9 * (D + 9)
    BY <1>2, SMT
  <2>2. ASSUME NEW i \in 1..9 PROVE IsSize(Len(c[i]))
    <3> DEFINE k == Len(c[i])
    <3>1. k \in Nat /\ k <= D
      BY <1>1
    <3> HIDE DEF k
    <3>2. IsSize(k)
      BY <1>3, <2>1, <3>1, SMT
    <3> QED
      BY <3>2 DEF k
  <2> QED
    BY <2>2
<1>5. /\ encs \in Seq(Seq(Byte)) /\ Len(encs) = 9
      /\ \A i \in 1..9 : Len(encs[i]) <= D + 9
  <2>1. ASSUME NEW i \in 1..9
        PROVE  encodeBytes(c[i]) \in Seq(Byte) /\ Len(encodeBytes(c[i])) <= D + 9
    <3> DEFINE s == c[i]
               k == Len(encodeBytes(s))
    <3>1. s \in Seq(Byte) /\ IsSize(Len(s)) /\ Len(s) \in Nat /\ Len(s) <= D
      BY <1>1, <1>4
    <3> HIDE DEF s
    <3>2. encodeBytes(s) \in Seq(Byte) /\ k \in Nat /\ k <= Len(s) + 9
      BY <3>1, EncodedBytes
    <3> HIDE DEF k
    <3>3. k <= D + 9
      BY <1>2, <3>1, <3>2, SMT
    <3> QED
      BY <3>2, <3>3 DEF k, s
  <2>2. encs = [i \in 1..9 |-> encodeBytes(c[i])]
    BY <1>1 DEF Encoded
  <2> HIDE DEF encs
  <2>3. encs \in [1..9 -> Seq(Byte)] /\ \A i \in 1..9 : encs[i] = encodeBytes(c[i])
    BY <2>1, <2>2
  <2>4. encs \in Seq(Seq(Byte)) /\ Len(encs) = 9
    <3> DEFINE S == Seq(Byte)
               n == 9
    <3>1. encs \in [1..n -> S] /\ n \in Nat
      BY <2>3
    <3> HIDE DEF S, n
    <3>2. encs \in Seq(S) /\ Len(encs) = n
      BY <3>1, FunctionAsSeq
    <3> QED
      BY <3>2 DEF S, n
  <2> QED
    BY <2>1, <2>3, <2>4
<1> HIDE DEF encs
<1>6. IsSize(Len(Payload(encs)))
  <2> DEFINE B == D + 9
             k == Len(Payload(encs))
  <2>1. B \in Nat
    BY <1>2, SMT
  <2> HIDE DEF B
  <2>2. k \in Nat /\ k <= 9 * B
    <3>1. PayloadAtMost(encs, Len(encs) * B)
      BY <1>5, <2>1, PayloadLength DEF B
    <3> QED
      BY <1>5, <3>1 DEF PayloadAtMost
  <2> HIDE DEF k
  <2>3. IsSize(k)
    BY <1>3, <2>2 DEF B
  <2> QED
    BY <2>3 DEF k
<1>7. decode(encodeList(encs)) = List([i \in 1..9 |-> String(c[i])])
  BY <1>1, <1>4, <1>6, ListRoundTrip DEF encs
<1>8. toBytes(wired) = encodeList(encs)
  BY FieldsEncoded DEF toBytes, encs, c
<1> QED
  BY <1>7, <1>8 DEF c

-----------------------------------------------------------------------------

\* What is under way has a body and a v of the types of the code, at first and
\* at second hand: a decoded copy has a v of one byte and a chain id.
WireInv ==
  /\ \A m \in wire : m.data.body \in Bodies /\ m.data.v \in U64Values
  /\ \A got \in accepted : /\ got.tx.body \in Bodies
                           /\ got.tx.sig.v \in Nat /\ got.tx.chainId \in Nat

\* v is a number of 64 bits.
LEMMA EncodedVType ==
  ASSUME NEW tx, tx.sig.v \in Nat, tx.chainId \in Nat
  PROVE  rlpEncodeSigned(tx).v \in U64Values /\ rlpEncodeSigned(tx).body = tx.body
<1>1. tx.sig.v + 35 + 2 * tx.chainId \in Nat
  OBVIOUS
<1>2. U64(tx.sig.v + 35 + 2 * tx.chainId) \in U64Values
  BY <1>1, WordSizeAssumption DEF U64, U64Values
<1> QED
  BY <1>2 DEF rlpEncodeSigned, EncodedV

\* A step keeps it.
LEMMA WireStep ==
  ASSUME WireInv, [Next]_vars
  PROVE  WireInv'
<1>1. CASE Send
  <2>1. PICK body \in Bodies, id \in SignedIds, key \in Clients, recId \in {0, 1} :
          wire' = {[hop |-> 1, data |-> rlpEncodeSigned(signWith(body, id, key, recId))]}
    BY <1>1 DEF Send
  <2> DEFINE tx == signWith(body, id, key, recId)
  <2>2. tx.body = body /\ tx.sig.v = U8(recId) /\ tx.chainId = id
    BY DEF signWith, sign
  <2>3. U8(recId) \in Nat /\ id \in Nat
    BY ByteSizeAssumption, ChainIdsAssumption DEF U8
  <2> HIDE DEF tx
  <2>4. rlpEncodeSigned(tx).v \in U64Values /\ rlpEncodeSigned(tx).body = body
    BY <2>2, <2>3, EncodedVType
  <2>5. \A m \in wire' : m.data = rlpEncodeSigned(tx)
    BY <2>1 DEF tx
  <2>6. accepted' = accepted
    BY <1>1 DEF Send
  <2> QED
    BY <2>4, <2>5, <2>6 DEF WireInv
<1>2. CASE Receive
  <2>1. PICK m \in wire :
          /\ \/ accepted' = accepted
             \/ accepted' = accepted \cup {[hop |-> m.hop, tx |-> fromHex(m.data)]}
          /\ wire' = wire \ {m}
    BY <1>2 DEF Receive
  <2> DEFINE tx == fromHex(m.data)
             v == m.data.v
             id == IF v >= 35 THEN (v - 35) \div 2 ELSE 0
  <2>2. tx.body = m.data.body /\ tx.sig.v = U8(v) /\ tx.chainId = id
    BY DEF fromHex, Parsed
  <2>3. v \in Nat /\ m.data.body \in Bodies
    BY WordSizeAssumption DEF WireInv, U64Values
  <2> HIDE DEF v
  <2>4. U8(v) \in Nat /\ id \in Nat
    BY <2>3, ByteSizeAssumption DEF U8
  <2> HIDE DEF tx, id
  <2>5. \A got \in accepted' : got \in accepted \/ got.tx = tx
    BY <2>1 DEF tx
  <2> QED
    BY <2>1, <2>2, <2>3, <2>4, <2>5 DEF WireInv
<1>3. CASE Drop
  BY <1>3 DEF Drop, WireInv
<1>4. CASE broadcastNewTx
  <2>1. PICK got \in accepted :
          /\ wire' = wire \cup {[hop |-> got.hop + 1, data |-> rlpEncodeSigned(got.tx)]}
          /\ UNCHANGED accepted
    BY <1>4 DEF broadcastNewTx
  <2>2. rlpEncodeSigned(got.tx).v \in U64Values /\ rlpEncodeSigned(got.tx).body \in Bodies
    BY EncodedVType DEF WireInv
  <2>3. \A m \in wire' : m \in wire \/ m.data = rlpEncodeSigned(got.tx)
    BY <2>1
  <2> QED
    BY <2>1, <2>2, <2>3 DEF WireInv
<1>5. CASE UNCHANGED vars
  BY <1>5 DEF vars, WireInv
<1> QED
  BY <1>1, <1>2, <1>3, <1>4, <1>5 DEF Next

\* fromHex reads the fields of a transaction back from the bytes of toBytes.
LEMMA FieldsReadBack ==
  ASSUME NEW wired, wired.body \in Bodies, wired.v \in U64Values
  PROVE  LET item == decode(toBytes(wired))
         IN  /\ WellFormed(item)
             /\ FieldsOf(item) = [body |-> wired.body, v |-> wired.v]
             /\ item.list[8].bytes = RBytes
             /\ item.list[9].bytes = SBytes
<1> DEFINE item == decode(toBytes(wired))
           b == wired.body
           c == Contents(b, wired.v)
           to == IF b.to = ZeroTo THEN <<>> ELSE b.to
           strings == [i \in 1..9 |-> String(c[i])]
<1>1. item = List(strings)
  BY TransactionBytes
<1>2. strings \in Seq({String(c[i]) : i \in 1..9}) /\ Len(strings) = 9
  <2> DEFINE T == {String(c[i]) : i \in 1..9}
  <2>1. strings \in [1..9 -> T]
    OBVIOUS
  <2> HIDE DEF T, strings
  <2>2. strings \in Seq(T) /\ Len(strings) = 9
    BY <2>1, FunctionAsSeq
  <2> QED
    BY <2>2 DEF T
<1>3. \A i \in 1..9 : strings[i] = String(c[i])
  OBVIOUS
<1>4. \A i \in 1..9 : strings[i].bytes = c[i]
  BY <1>3 DEF String
<1> HIDE DEF item, strings
<1>5. item.isList = TRUE /\ item.list = strings
  BY <1>1 DEF List
<1>6. c = <<BigEndian(b.nonce), BigEndian(b.gasPrice), BigEndian(b.gasLimit), to,
            BigEndian(b.value), b.data, BigEndian(wired.v), RBytes, SBytes>>
  BY DEF Contents
<1> HIDE DEF c, to
<1>7. \A i \in 1..9 : item.list[i].bytes = c[i]
  BY <1>4, <1>5
<1>8. /\ item.list[1].bytes = BigEndian(b.nonce)
      /\ item.list[2].bytes = BigEndian(b.gasPrice)
      /\ item.list[3].bytes = BigEndian(b.gasLimit)
      /\ item.list[4].bytes = to
      /\ item.list[5].bytes = BigEndian(b.value)
      /\ item.list[6].bytes = b.data
      /\ item.list[7].bytes = BigEndian(wired.v)
      /\ item.list[8].bytes = RBytes
      /\ item.list[9].bytes = SBytes
  BY <1>6, <1>7
<1>9. /\ b \in [nonce : U64Values, gasPrice : U64Values, gasLimit : U64Values,
                to : [1..AddressSize -> Byte], value : U64Values, data : Seq(Byte)]
  BY BodiesAssumption DEF U64Values
<1>10. /\ toUint(BigEndian(b.nonce)) = b.nonce
       /\ toUint(BigEndian(b.gasPrice)) = b.gasPrice
       /\ toUint(BigEndian(b.gasLimit)) = b.gasLimit
       /\ toUint(BigEndian(b.value)) = b.value
       /\ toUint(BigEndian(wired.v)) = wired.v
  BY <1>9, WordAsBytes
<1>11. Len(to) \in {0, AddressSize} /\ b.to = IF to = <<>> THEN ZeroTo ELSE to
  <2>1. AddressSize \in Nat /\ AddressSize # 0
    BY SizesAssumption
  <2>2. b.to \in Seq(Byte) /\ Len(b.to) = AddressSize
    BY <1>9, <2>1, FunctionAsSeq
  <2>3. b.to # <<>>
    BY <2>1, <2>2
  <2> QED
    BY <2>2, <2>3 DEF to
<1>12. Len(RBytes) = WordBytes /\ Len(SBytes) = WordBytes
  BY SizesAssumption DEF RBytes, SBytes
<1>13. WellFormed(item)
  <2>1. item.isList /\ Len(item.list) >= 9
    <3>1. item.isList
      BY <1>5, Zenon
    <3>2. Len(item.list) = 9
      BY <1>2, <1>5
    <3> QED
      BY <3>1, <3>2
  <2>2. Len(item.list[4].bytes) \in {0, AddressSize}
    BY <1>8, <1>11
  <2>3. Len(item.list[8].bytes) = WordBytes /\ Len(item.list[9].bytes) = WordBytes
    BY <1>8, <1>12
  <2> QED
    BY <2>1, <2>2, <2>3 DEF WellFormed
<1>14. b = [nonce |-> b.nonce, gasPrice |-> b.gasPrice, gasLimit |-> b.gasLimit,
            to |-> b.to, value |-> b.value, data |-> b.data]
  BY <1>9
<1>15. FieldsOf(item) = [body |-> b, v |-> wired.v]
  BY <1>8, <1>10, <1>11, <1>14 DEF FieldsOf
<1> QED
  BY <1>8, <1>13, <1>15 DEF item

\* For every transaction and every chain id, the bytes that rlpEncodeSigned
\* writes are well-formed to fromHex and give back every field, at first and
\* at second hand.
THEOREM BytesReadBack == Spec => []BytesRoundTrip
<1>1. Init => WireInv
  BY DEF Init, WireInv
<1>2. WireInv /\ [Next]_vars => WireInv'
  BY WireStep
<1>3. WireInv => BytesRoundTrip
  <2> SUFFICES ASSUME WireInv, NEW m \in wire
               PROVE  LET item == decode(toBytes(m.data))
                      IN  /\ WellFormed(item)
                          /\ FieldsOf(item) = [body |-> m.data.body, v |-> m.data.v]
                          /\ item.list[8].bytes = RBytes
                          /\ item.list[9].bytes = SBytes
    BY DEF BytesRoundTrip
  <2>1. m.data.body \in Bodies /\ m.data.v \in U64Values
    BY DEF WireInv
  <2> QED
    BY <2>1, FieldsReadBack
<1> QED
  BY <1>1, <1>2, <1>3, PTL DEF Spec
=============================================================================
