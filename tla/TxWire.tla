------------------------------- MODULE TxWire -------------------------------
(***************************************************************************)
(* The bytes of a signed transaction (src/transaction.cpp). TxCodec takes  *)
(* it that the fields of a transaction travel unchanged; here they are     *)
(* spelled out as rlpEncodeSigned writes them and fromHex reads them.      *)
(* A body is a record of fields: nonce, gasPrice, gasLimit and value are   *)
(* numbers, `to' and `data' sequences of bytes.                            *)
(***************************************************************************)
EXTENDS TxRelay, Rlp

CONSTANTS
  AddressSize, \* Address::kSize (20)
  WordBytes    \* bytes of r and of s (32)

ASSUME SizesAssumption == AddressSize \in 1..255 /\ WordBytes \in 1..255

\* A std::uint64_t has eight bytes.
ASSUME WordBytesAssumption == Len(BigEndian(WordSize - 1)) <= 8

\* The fields of a transaction in their types. An encoding is hex in a message
\* whose length is a std::uint32_t (src/p2p_message.cpp:11).
ASSUME BodiesAssumption ==
  \A b \in Bodies :
    /\ b \in [nonce : 0..(WordSize - 1), gasPrice : 0..(WordSize - 1),
              gasLimit : 0..(WordSize - 1), to : [1..AddressSize -> Byte],
              value : 0..(WordSize - 1), data : Seq(Byte)]
    /\ Len(b.data) < 65536 * 16384

ZeroTo == [i \in 1..AddressSize |-> 0]

\* Stand-ins for the 32-byte numbers of a signature.
RBytes == [i \in 1..WordBytes |-> 255 - i]
SBytes == [i \in 1..WordBytes |-> i - 1]

\* The zero address, which stands for no recipient, is written as no bytes.
SignedFields(wired) ==
  LET b == wired.body
  IN  <<encodeUint(b.nonce), encodeUint(b.gasPrice), encodeUint(b.gasLimit),
        encodeBytes(IF b.to = ZeroTo THEN <<>> ELSE b.to),
        encodeUint(b.value), encodeBytes(b.data),
        encodeUint(wired.v), encodeBytes(RBytes), encodeBytes(SBytes)>>

toBytes(wired) == encodeList(SignedFields(wired))

\* The tests of fromHex before the signature.
WellFormed(item) ==
  /\ item.isList /\ Len(item.list) >= 9
  /\ Len(item.list[4].bytes) \in {0, AddressSize}
  /\ Len(item.list[8].bytes) = WordBytes
  /\ Len(item.list[9].bytes) = WordBytes

\* Body and v, as fromHex reads them from a well-formed item.
FieldsOf(item) ==
  LET bytes(i) == item.list[i].bytes
  IN  [body |-> [nonce    |-> toUint(bytes(1)),
                 gasPrice |-> toUint(bytes(2)),
                 gasLimit |-> toUint(bytes(3)),
                 to       |-> IF bytes(4) = <<>> THEN ZeroTo ELSE bytes(4),
                 value    |-> toUint(bytes(5)),
                 data     |-> bytes(6)],
       v    |-> toUint(bytes(7))]

-----------------------------------------------------------------------------
(* Properties.                                                             *)

\* What the encoder writes is well-formed to the decoder and gives back every
\* field of the transaction and v, at first and at second hand: numbers of up
\* to three bytes, single bytes below and from 0x80, strings at the two
\* sides of the boundary between short and long form, and an absent recipient.
BytesRoundTrip ==
  \A m \in wire :
    LET item == decode(toBytes(m.data))
    IN  /\ WellFormed(item)
        /\ FieldsOf(item) = [body |-> m.data.body, v |-> m.data.v]
        /\ item.list[8].bytes = RBytes
        /\ item.list[9].bytes = SBytes
=============================================================================
