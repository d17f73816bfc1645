------------------------------ MODULE MCWallet ------------------------------
(***************************************************************************)
(* The instance of Wallet for TLC. The widths keep the proportions of the  *)
(* code: the checksum of a long phrase fills a byte, that of a short one   *)
(* half a byte, and a short phrase is entropy and checksum exactly.        *)
(***************************************************************************)
EXTENDS Wallet

\* Five of eight indices have a word, and one word stands at two of them.
MCWordlist == <<"w1", "w2", "w3", "w2", "w4">>

\* A stand-in for the hash in which every byte and its place count.
MCFirstHashByte(bytes) ==
  LET sum[i \in 0..Len(bytes)] == IF i = 0 THEN 1 ELSE sum[i - 1] + i * bytes[i]
  IN  sum[Len(bytes)] % (2 ^ ByteBits)

Single(words) == [words |-> words, spacing |-> "single"]

MCChecked ==
  {Single(words) : words \in [1..Short -> {"w1", "w2", "w3", "w4", "other"}] \cup
                             [1..4 -> {"w1"}] \cup
                             [1..Long -> {"w2", "w3", "w4", "other"}]}

ValidLong == <<"w2", "w2", "w2", "w3", "w2", "w3">>

\* A phrase of each length that is accepted, and the long one spaced otherwise.
MCOffered ==
  {Single(<<"w1", "w1", "w1">>), Single(ValidLong), [words |-> ValidLong, spacing |-> "other"]}

\* Entropies whose phrases keep all, some and none of their words.
MCEntropies == {<<0, 0, 0, 0>>, <<1, 2, 3, 0>>, <<3, 3, 3, 3>>, <<0, 1, 0, 2>>}

C(number, hardened) == [number |-> number, hardened |-> hardened]

MCDefaultPath == <<C(1, TRUE), C(0, FALSE)>>

\* The last one is the default path with its first index written out.
MCPaths ==
  {MCDefaultPath, <<C(1, FALSE), C(0, FALSE)>>, <<C(1, TRUE)>>,
   <<C(1 + Hardened, FALSE), C(0, FALSE)>>}
=============================================================================
