-------------------------------- MODULE Rlp ---------------------------------
(***************************************************************************)
(* Recursive length prefix coding (src/rlp.cpp). Pure operators on         *)
(* sequences of bytes.                                                     *)
(***************************************************************************)
EXTENDS Naturals, Sequences

Byte == 0..255

\* The bytes of a number, most significant first and none for zero: what the
\* loops `while (value > 0)' of encodeUint and encodeLength collect.
BigEndian(value) ==
  LET bytes[n \in 0..value] ==
        IF n = 0 THEN <<>> ELSE Append(bytes[n \div 256], n % 256)
  IN  bytes[value]

\* toUint of src/transaction.cpp, readLen's loop: the way back.
toUint(bytes) ==
  LET value[i \in 0..Len(bytes)] ==
        IF i = 0 THEN 0 ELSE value[i - 1] * 256 + bytes[i]
  IN  value[Len(bytes)]

encodeLength(len, offset) ==
  IF len < 56 THEN <<offset + len>>
              ELSE <<offset + 55 + Len(BigEndian(len))>> \o BigEndian(len)

encodeBytes(input) ==
  IF Len(input) = 1 /\ input[1] < 128 THEN input
                                      ELSE encodeLength(Len(input), 128) \o input

encodeUint(value) == IF value = 0 THEN <<128>> ELSE encodeBytes(BigEndian(value))

\* All items, one after the other.
Payload(items) ==
  LET joined[i \in 0..Len(items)] ==
        IF i = 0 THEN <<>> ELSE joined[i - 1] \o items[i]
  IN  joined[Len(items)]

encodeList(items) == encodeLength(Len(Payload(items)), 192) \o Payload(items)

-----------------------------------------------------------------------------
(* Decoding. Offsets count from 0 as in the code; in[offset + 1] is the    *)
(* byte at an offset. An exception leaves the offset past the end of the   *)
(* input. Offsets do not wrap: the inputs are far shorter than 2^64 bytes, *)
(* and so are the lengths that the encoder writes.                         *)

\* Mutant: the boundary of the short form is off by one.
readLenShort(in, offset, base) ==
  LET len      == in[offset + 1] - base
      numBytes == len - 55
  IN  CASE len < 55 -> [start |-> offset + 1, len |-> len]
        [] len >= 55 /\ offset + 1 + numBytes <= Len(in) ->
             [start |-> offset + 1 + numBytes,
              len   |-> toUint(SubSeq(in, offset + 2, offset + 1 + numBytes))]
        [] OTHER -> [start |-> Len(in) + 1, len |-> 0]

\* Where the content begins, and how long it is.
readLen(in, offset, base) ==
  LET len      == in[offset + 1] - base
      numBytes == len - 55
  IN  CASE len <= 55 -> [start |-> offset + 1, len |-> len]
        [] len > 55 /\ offset + 1 + numBytes <= Len(in) ->
             [start |-> offset + 1 + numBytes,
              len   |-> toUint(SubSeq(in, offset + 2, offset + 1 + numBytes))]
        [] OTHER -> [start |-> Len(in) + 1, len |-> 0]

String(bytes) == [isList |-> FALSE, bytes |-> bytes, list |-> <<>>]

List(items) == [isList |-> TRUE, bytes |-> <<>>, list |-> items]

\* What decode returns when it does not: no list and no bytes.
Thrown == [isList |-> FALSE, thrown |-> TRUE]

\* items[<<offset, end>>]: what the loop of decode collects from an offset
\* until it is at the end or past it, and the offset it stops at. The length of
\* an item is compared with the whole input, not with the list it is in.
decode(in) ==
  LET size == Len(in)
      items[at \in (0..(size + 1)) \X (0..size)] ==
        LET offset == at[1]
            end    == at[2]
            prefix == in[offset + 1]
            head   == readLen(in, offset, IF prefix < 192 THEN 128 ELSE 192)
            last   == head.start + head.len
            inner  == items[<<head.start, last>>]
            Then(item, next) ==
              LET rest == items[<<next, end>>]
              IN  [list |-> <<item>> \o rest.list, next |-> rest.next]
        IN  CASE offset >= end -> [list |-> <<>>, next |-> offset]
              [] offset < end /\ prefix < 128 -> Then(String(<<prefix>>), offset + 1)
              [] offset < end /\ prefix >= 128 /\ last > size ->
                   [list |-> <<>>, next |-> size + 1]
              [] offset < end /\ prefix \in 128..191 /\ last <= size ->
                   Then(String(SubSeq(in, head.start + 1, last)), last)
              [] offset < end /\ prefix >= 192 /\ last <= size ->
                   Then(List(inner.list), inner.next)
      first == items[<<0, 1>>]
  IN  IF size = 0 \/ first.next > size THEN Thrown ELSE first.list[1]
=============================================================================
