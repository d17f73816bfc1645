-------------------------------- MODULE Trie --------------------------------
(***************************************************************************)
(* MptTrie (src/mpt.cpp), the tree whose encoding State::root hashes, and  *)
(* how a holder of that encoding finds an account in it. Pure operators.   *)
(*                                                                         *)
(* A trie is a function from the paths of its nodes to their values: a     *)
(* path is the sequence of nibbles from the root, and a value a sequence   *)
(* of at most one sequence of bytes (std::optional<Bytes>).                *)
(***************************************************************************)
EXTENDS Rlp

\* Mutant: the low nibble is lost.
toNibblesHigh(key) == [i \in 1..Len(key) |-> key[i] \div 16]

toNibbles(key) ==
  [i \in 1..(2 * Len(key)) |->
     IF i % 2 = 1 THEN key[(i + 1) \div 2] \div 16 ELSE key[i \div 2] % 16]

EmptyTrie == [path \in {<<>>} |-> <<>>]

\* The nodes on the way are made where they are missing.
put(trie, key, value) ==
  LET leaf   == toNibbles(key)
      walked == {SubSeq(leaf, 1, n) : n \in 0..Len(leaf)}
  IN  [path \in DOMAIN trie \cup walked |->
         IF path = leaf THEN <<value>>
         ELSE IF path \in DOMAIN trie THEN trie[path] ELSE <<>>]

encodeNodeValue(value) == encodeBytes(IF value = <<>> THEN <<>> ELSE value[1])

\* Sixteen children, each as the bytes of its own encoding, and the value.
encodeNode(trie) ==
  LET enc[path \in DOMAIN trie] ==
        encodeList([i \in 1..17 |->
          IF i = 17 THEN encodeNodeValue(trie[path])
          ELSE IF Append(path, i - 1) \in DOMAIN trie
               THEN encodeBytes(enc[Append(path, i - 1)])
               ELSE encodeBytes(<<>>)])
  IN  enc[<<>>]

\* The value under a key, read from the encoding; no bytes where there is none.
ReadValue(encoding, key) ==
  LET path == toNibbles(key)
      node[n \in 0..Len(path)] ==
        IF n = 0 THEN encoding
        ELSE IF node[n - 1] = <<>> THEN <<>>
        ELSE decode(node[n - 1]).list[path[n] + 1].bytes
  IN  IF node[Len(path)] = <<>> THEN <<>> ELSE decode(node[Len(path)]).list[17].bytes
=============================================================================
