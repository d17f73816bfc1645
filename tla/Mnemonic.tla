------------------------------ MODULE Mnemonic ------------------------------
(***************************************************************************)
(* Recovery phrases and the keys derived from them (src/wallet.cpp). Pure  *)
(* operators.                                                              *)
(*                                                                         *)
(* The widths are constants, so that all phrases of a small instance can   *)
(* be looked at; the comments give the values of the code. A phrase is its *)
(* words and how they are set apart: validateMnemonic splits the text at   *)
(* any white space, while the seed is computed from the text as it is.     *)
(***************************************************************************)
EXTENDS Naturals, Sequences

CONSTANTS
  WordBits,         \* bits per word (11)
  ByteBits,         \* bits per byte (8)
  Short, Long,      \* the phrase lengths that are accepted (12, 24)
  EntropyBytes,     \* bytes of entropy in a phrase of Short words (16)
  Wordlist,         \* BIP39_WORDLIST: shorter than 2^WordBits, with repeated words
  FirstHashByte(_), \* the first byte of sha256 of a sequence of bytes
  Hardened,         \* the first hardened child index (2^31)
  IndexSize         \* how many values std::uint32_t has (2^32)

ASSUME WidthAssumption ==
  /\ WordBits \in Nat \ {0} /\ ByteBits \in Nat \ {0}
  /\ Short \in Nat /\ Long \in Nat /\ EntropyBytes \in Nat
  /\ Len(Wordlist) <= 2 ^ WordBits
  /\ Hardened \in Nat \ {0} /\ IndexSize = 2 * Hardened
\* The checksum of a long phrase is one byte, and the phrase fills whole bytes.
ASSUME LongAssumption == Long \div 3 = ByteBits /\ (Long * WordBits) % ByteBits = 0

-----------------------------------------------------------------------------
(* Bits.                                                                   *)

\* The bits of a sequence of numbers of one width, most significant first.
Bits(numbers, width) ==
  [k \in 1..(Len(numbers) * width) |->
     (numbers[(k - 1) \div width + 1] \div 2 ^ (width - 1 - ((k - 1) % width))) % 2]

Value(bits) ==
  LET value[i \in 0..Len(bits)] == IF i = 0 THEN 0 ELSE 2 * value[i - 1] + bits[i]
  IN  value[Len(bits)]

\* The numbers of a width that the first bits make up.
Groups(bits, width, count) ==
  [i \in 1..count |-> Value(SubSeq(bits, (i - 1) * width + 1, i * width))]

\* The leading bits of the hash of some bytes.
Checksum(bytes, count) == SubSeq(Bits(<<FirstHashByte(bytes)>>, ByteBits), 1, count)

-----------------------------------------------------------------------------
(* Phrases.                                                                *)

\* A group of bits that has no word in the list is left out.
generateMnemonic(entropy) ==
  LET bits    == Bits(entropy, ByteBits) \o
                 Checksum(entropy, Short * WordBits - EntropyBytes * ByteBits)
      indices == Groups(bits, WordBits, Short)
      listed  == SelectSeq(indices, LAMBDA index : index < Len(Wordlist))
  IN  [words |-> [i \in DOMAIN listed |-> Wordlist[listed[i] + 1]], spacing |-> "single"]

\* std::find: the first position of a word.
IndexOf(word) ==
  (CHOOSE i \in DOMAIN Wordlist :
     /\ Wordlist[i] = word
     /\ \A j \in 1..(i - 1) : Wordlist[j] # word) - 1

InList(word) == word \in {Wordlist[i] : i \in DOMAIN Wordlist}

\* Mutant: the checksum's bits are taken off, and then a byte as well.
entropyBytesTwice(count) == (count * WordBits - count \div 3) \div ByteBits - 1

entropyBytes(count) == (count * WordBits) \div ByteBits - 1

validateMnemonic(phrase) ==
  LET words   == phrase.words
      count   == Len(words)
      size    == entropyBytes(count)
      bits    == Bits([i \in 1..count |-> IndexOf(words[i])], WordBits)
      sumBits == count \div 3
  IN  /\ count \in {Short, Long}
      /\ \A i \in 1..count : InList(words[i])
      /\ SubSeq(bits, size * ByteBits + 1, size * ByteBits + sumBits)
           = Checksum(Groups(bits, ByteBits, size), sumBits)

-----------------------------------------------------------------------------
(* Keys. A digest is a tag around its input; a key and its chain code are  *)
(* the two halves of one digest.                                           *)

mnemonicToSeed(phrase) == <<"pbkdf2", phrase>>

initializeFromSeed(seed) == <<"Bitcoin seed", seed>>

deriveChildKey(parent, index) ==
  <<"child", parent, IF index >= Hardened THEN 0 ELSE 2, index>>

\* A component is a number and whether it is marked as hardened. A path is the
\* components of its text: that the code skips empty ones and reads a number as
\* std::stoul does (044 is 44) is left out, so texts that differ in this only
\* are one path here.
Component == [number : Nat, hardened : BOOLEAN]

\* Mutant: the mark of a hardened component is dropped.
parseBIP32PathSoft(path) == [i \in DOMAIN path |-> path[i].number % IndexSize]

parseBIP32Path(path) ==
  [i \in DOMAIN path |->
     (path[i].number + (IF path[i].hardened THEN Hardened ELSE 0)) % IndexSize]

deriveKeyFromPath(phrase, path) ==
  LET indices == parseBIP32Path(path)
      key[i \in 0..Len(indices)] ==
        IF i = 0 THEN initializeFromSeed(mnemonicToSeed(phrase))
                 ELSE deriveChildKey(key[i - 1], indices[i])
  IN  key[Len(indices)]

addressOf(key) == <<"address", key>>
=============================================================================
