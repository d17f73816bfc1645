------------------------- MODULE LedgerInputsProofs -------------------------
(***************************************************************************)
(* The properties that a run of LedgerInputs checks on words of a few      *)
(* bits, for words of every width, the 64 bits of the build among them.    *)
(***************************************************************************)
EXTENDS LedgerInputs, LedgerProofs, RlpProofs

\* A picked input: Alice pays herself or Bob, out of accounts that have sent
\* nothing yet.
InputInv ==
  /\ picked \in BOOLEAN
  /\ tx \in Transaction
  /\ accounts \in AccountMap
  /\ tx.from = Alice /\ tx.to \in {Alice, Bob}
  /\ accounts[Alice].exists = TRUE
  /\ accounts[Alice].nonce = 0 /\ accounts[Bob].nonce = 0

\* The transactions and the account maps of the inputs.
LEMMA InputTypes ==
  /\ \A to \in {Alice, Bob} : \A value, gasPrice, gasLimit \in Word :
       LET t == TxOf(to, value, gasPrice, gasLimit)
       IN  t \in Transaction /\ t.from = Alice /\ t.to = to
  /\ \A balA, balB \in Word :
       LET accts == MapOf(balA, balB)
       IN  /\ accts \in AccountMap /\ accts[Alice].exists = TRUE
           /\ accts[Alice].nonce = 0 /\ accts[Bob].nonce = 0
<1>1. ASSUME NEW to \in {Alice, Bob}, NEW value \in Word, NEW gasPrice \in Word,
             NEW gasLimit \in Word
      PROVE  LET t == TxOf(to, value, gasPrice, gasLimit)
             IN  t \in Transaction /\ t.from = Alice /\ t.to = to
  BY InputAssumption, ChainIdAssumption, MaxUintAssumption DEF TxOf, Transaction, Word
<1>2. ASSUME NEW balA \in Word, NEW balB \in Word
      PROVE  LET accts == MapOf(balA, balB)
             IN  /\ accts \in AccountMap /\ accts[Alice].exists = TRUE
           /\ accts[Alice].nonce = 0 /\ accts[Bob].nonce = 0
  <2>1. (balB > 0) \in BOOLEAN /\ 0 \in Word
    BY MaxUintAssumption DEF Word
  <2> DEFINE bob == balB > 0
             at(a) == CASE a = Alice -> [exists |-> TRUE, balance |-> balA, nonce |-> 0]
                        [] a = Bob   -> [exists |-> bob, balance |-> balB, nonce |-> 0]
                        [] OTHER     -> NoAccount
  <2>2. bob \in BOOLEAN
    BY <2>1
  <2>3. MapOf(balA, balB) = [a \in Addr |-> at(a)]
    BY DEF MapOf
  <2> HIDE DEF bob
  <2>4. ASSUME NEW a \in Addr PROVE at(a) \in Account /\ at(a).nonce = 0
    BY <2>1, <2>2, InputAssumption DEF Account, NoAccount
  <2>5. at(Alice).exists = TRUE
    BY InputAssumption
  <2> HIDE DEF at
  <2> QED
    BY <2>3, <2>4, <2>5, InputAssumption DEF AccountMap
<1> QED
  BY <1>1, <1>2

\* Every state of the run holds such an input.
LEMMA InputsInductive == Spec => []InputInv
<1>1. 0 \in Word
  BY MaxUintAssumption DEF Word
<1>2. Init => InputInv
  <2> SUFFICES ASSUME Init PROVE InputInv
    OBVIOUS
  <2>1. tx \in Transaction /\ tx.from = Alice /\ tx.to = Bob
    BY <1>1, InputTypes DEF Init
  <2>2. /\ accounts \in AccountMap /\ accounts[Alice].exists = TRUE
        /\ accounts[Alice].nonce = 0 /\ accounts[Bob].nonce = 0
    BY <1>1, InputTypes DEF Init
  <2> QED
    BY <2>1, <2>2 DEF Init, InputInv
<1>3. InputInv /\ [Next]_vars => InputInv'
  <2> SUFFICES ASSUME InputInv, [Next]_vars PROVE InputInv'
    OBVIOUS
  <2>1. CASE Pick
    <3>1. PICK to \in {Alice, Bob}, value \in Word, gasPrice \in Word, gasLimit \in Word :
            tx' = TxOf(to, value, gasPrice, gasLimit)
      BY <2>1 DEF Pick
    <3>2. PICK balA \in Word, balB \in Word : accounts' = MapOf(balA, balB)
      BY <2>1 DEF Pick
    <3>3. tx' \in Transaction /\ tx'.from = Alice /\ tx'.to \in {Alice, Bob}
      BY <3>1, InputTypes
    <3>4. /\ accounts' \in AccountMap /\ accounts'[Alice].exists = TRUE
          /\ accounts'[Alice].nonce = 0 /\ accounts'[Bob].nonce = 0
      BY <3>2, InputTypes
    <3> QED
      BY <2>1, <3>3, <3>4 DEF Pick, InputInv
  <2>2. CASE Picked \/ UNCHANGED vars
    BY <2>2 DEF Picked, vars, InputInv
  <2> QED
    BY <2>1, <2>2 DEF Next
<1> QED
  BY <1>2, <1>3, PTL DEF Spec

\* applyTransaction makes a well-typed map of a well-typed one.
THEOREM TypeCorrect == Spec => []TypeOK
<1>1. InputInv => TypeOK
  BY ApplyType DEF InputInv, TypeOK
<1> QED
  BY <1>1, InputsInductive, PTL

\* The checks of validateTransaction, which compute the cost modulo the width
\* of the word, accept exactly what the balance covers.
THEOREM FundsCheck == Spec => []FundsCheckExact
<1>1. InputInv => FundsCheckExact
  <2> SUFFICES ASSUME InputInv, NEW a \in {Alice, Bob}
               PROVE  FundsOk(tx, accounts[a].balance) <=> Affordable(tx, accounts[a].balance)
    BY DEF FundsCheckExact
  <2>1. tx \in Transaction /\ accounts[a].balance \in Word
    BY InputAssumption DEF InputInv, AccountMap, Account
  <2> QED
    BY <2>1, FundsExact
<1> QED
  BY <1>1, InputsInductive, PTL

\* A transfer moves exactly its value and bumps one nonce, also when sender
\* and recipient are one account.
THEOREM Transfer == Spec => []TransferExact
<1>1. InputInv => TransferExact
  <2> SUFFICES ASSUME InputInv, CanApply(accounts, tx) PROVE TransferExact
    BY DEF TransferExact
  <2> DEFINE after == applyTransaction(accounts, tx)
  <2>1. /\ tx \in Transaction /\ accounts \in AccountMap
        /\ tx.from = Alice /\ tx.to \in {Alice, Bob} /\ tx.value \in Nat
        /\ Alice \in Addr /\ Bob \in Addr /\ Alice # Bob
    BY InputAssumption, MaxUintAssumption DEF InputInv, Transaction, Word
  <2>2. /\ accounts[Alice].balance \in Nat /\ accounts[Alice].balance <= MaxUint
        /\ accounts[Bob].balance \in Nat
        /\ tx.value <= accounts[Alice].balance
    BY <2>1, MaxUintAssumption DEF AccountMap, Account, Word, CanApply
  <2>3. /\ after[Alice].nonce = Wrap(accounts[Alice].nonce + 1)
        /\ after[Bob].nonce = accounts[Bob].nonce
    BY <2>1, ApplyEffect
  <2>4. Wrap(1) = 1
    BY MaxUintAssumption, WrapWord
  <2>5. tx.to = Alice => after[Alice].balance = accounts[Alice].balance
    BY <2>1, ApplyEffect
  <2>6. tx.to = Bob => /\ after[Alice].balance = accounts[Alice].balance - tx.value
                       /\ after[Bob].balance = Wrap(accounts[Bob].balance + tx.value)
    BY <2>1, ApplyEffect
  <2>7. ASSUME accounts[Alice].balance + accounts[Bob].balance <= MaxUint
        PROVE  Wrap(accounts[Bob].balance + tx.value) = accounts[Bob].balance + tx.value
    <3>1. accounts[Bob].balance + tx.value \in Nat
      BY <2>1, <2>2
    <3>2. accounts[Bob].balance + tx.value <= MaxUint
      BY <2>1, <2>2, <2>7, MaxUintAssumption
    <3> QED
      BY <3>1, <3>2, WrapWord
  <2> HIDE DEF after
  <2>8. /\ after[Alice].nonce = 1 /\ after[Bob].nonce = 0
        /\ tx.to = Bob => after[Alice].balance + tx.value = accounts[Alice].balance
    BY <2>1, <2>2, <2>3, <2>4, <2>6 DEF InputInv
  <2> QED
    BY <2>5, <2>6, <2>7, <2>8 DEF TransferExact, after
<1> QED
  BY <1>1, InputsInductive, PTL

-----------------------------------------------------------------------------
(* The bytes behind the state root.                                        *)

\* The nodes on the way to the two accounts.
Root == <<>>
Stem == <<1>>
LeafA == <<1, 2>>
LeafB == <<1, 3>>

Paths == {Root, Stem, LeafA, LeafB}

\* A path and one more step.
LEMMA OneMore ==
  ASSUME NEW s \in Seq(Nat), NEW j \in Nat
  PROVE  /\ Append(s, j) \in Seq(Nat)
         /\ Len(Append(s, j)) = Len(s) + 1
         /\ Append(s, j)[Len(s) + 1] = j
         /\ \A i \in 1..Len(s) : Append(s, j)[i] = s[i]
  OBVIOUS

\* How these paths continue each other.
LEMMA PathFacts ==
  /\ Root # Stem /\ Root # LeafA /\ Root # LeafB
  /\ Stem # LeafA /\ Stem # LeafB /\ LeafA # LeafB
  /\ \A j \in Nat : /\ Append(Root, j) \in Paths <=> j = 1
                    /\ Append(Stem, j) \in Paths <=> j = 2 \/ j = 3
                    /\ Append(LeafA, j) \notin Paths
                    /\ Append(LeafB, j) \notin Paths
  /\ Append(Root, 1) = Stem /\ Append(Stem, 2) = LeafA /\ Append(Stem, 3) = LeafB
<1>1. Len(Root) = 0 /\ Len(Stem) = 1 /\ Len(LeafA) = 2 /\ Len(LeafB) = 2
  BY DEF Root, Stem, LeafA, LeafB
<1>2. LeafA # LeafB
  <2>1. LeafA[2] = 2 /\ LeafB[2] = 3
    BY DEF LeafA, LeafB
  <2> QED
    BY <2>1
<1>3. ASSUME NEW j \in Nat PROVE Append(Root, j) = <<j>> /\ Append(Stem, j) = <<1, j>>
  <2> DEFINE r == Append(Root, j)
             s == Append(Stem, j)
  <2>1. Root \in Seq(Nat) /\ Stem \in Seq(Nat) /\ Stem[1] = 1
    BY DEF Root, Stem
  <2>2. r \in Seq(Nat) /\ Len(r) = 1 /\ r[1] = j
    BY <1>1, <2>1
  <2>3. s \in Seq(Nat) /\ Len(s) = 2 /\ s[1] = 1 /\ s[2] = j
    <3> DEFINE t == Stem
    <3>1. t \in Seq(Nat) /\ Len(t) = 1 /\ t[1] = 1
      BY <1>1, <2>1
    <3> HIDE DEF t
    <3>2. /\ Append(t, j) \in Seq(Nat) /\ Len(Append(t, j)) = Len(t) + 1
          /\ Append(t, j)[Len(t) + 1] = j
      BY <3>1, OneMore
    <3>3. Append(t, j)[1] = t[1]
      BY <3>1, OneMore
    <3> QED
      BY <3>1, <3>2, <3>3 DEF t
  <2> HIDE DEF r, s
  <2>4. r = <<j>> /\ s = <<1, j>>
    BY <2>2, <2>3
  <2> QED
    BY <2>4 DEF r, s
<1>4. Append(Root, 1) = Stem /\ Append(Stem, 2) = LeafA /\ Append(Stem, 3) = LeafB
  <2>1. Append(Root, 1) = <<1>> /\ Append(Stem, 2) = <<1, 2>> /\ Append(Stem, 3) = <<1, 3>>
    BY <1>3
  <2> QED
    BY <2>1 DEF Stem, LeafA, LeafB
<1>5. ASSUME NEW j \in Nat PROVE Append(Root, j) \in Paths <=> j = 1
  <2>1. Len(<<j>>) = 1 /\ <<j>>[1] = j /\ Stem[1] = 1
    BY DEF Stem
  <2>2. <<j>> = Stem <=> j = 1
    BY <2>1 DEF Stem
  <2>3. <<j>> # Root /\ <<j>> # LeafA /\ <<j>> # LeafB
    <3> DEFINE u == <<j>>
    <3>1. Len(u) = 1
      BY <2>1
    <3> HIDE DEF u
    <3>2. u # Root /\ u # LeafA /\ u # LeafB
      BY <1>1, <3>1
    <3> QED
      BY <3>2 DEF u
  <2> QED
    BY <1>3, <2>2, <2>3 DEF Paths
<1>6. ASSUME NEW j \in Nat PROVE Append(Stem, j) \in Paths <=> j = 2 \/ j = 3
  <2>1. Len(<<1, j>>) = 2 /\ <<1, j>>[2] = j /\ LeafA[2] = 2 /\ LeafB[2] = 3
    BY DEF LeafA, LeafB
  <2>2. (<<1, j>> = LeafA <=> j = 2) /\ (<<1, j>> = LeafB <=> j = 3)
    BY <2>1 DEF LeafA, LeafB
  <2>3. <<1, j>> # Root /\ <<1, j>> # Stem
    BY <1>1, <2>1
  <2> QED
    BY <1>3, <2>2, <2>3 DEF Paths
<1>7. ASSUME NEW j \in Nat PROVE Append(LeafA, j) \notin Paths /\ Append(LeafB, j) \notin Paths
  <2>1. LeafA \in Seq(Nat) /\ LeafB \in Seq(Nat)
    BY DEF LeafA, LeafB
  <2>2. Len(Append(LeafA, j)) = Len(LeafA) + 1 /\ Len(Append(LeafB, j)) = Len(LeafB) + 1
    BY <2>1
  <2> QED
    BY <1>1, <2>2 DEF Paths
<1> QED
  BY <1>1, <1>2, <1>4, <1>5, <1>6, <1>7

\* The keys of the two accounts, nibble by nibble.
LEMMA KeyNibbles ==
  /\ KeyBytes(Alice) = <<18>> /\ KeyBytes(Bob) = <<19>>
  /\ toNibbles(<<18>>) = LeafA /\ toNibbles(<<19>>) = LeafB
<1>1. KeyBytes(Alice) = <<18>> /\ KeyBytes(Bob) = <<19>>
  BY InputAssumption DEF KeyBytes
<1>2. ASSUME NEW k \in {18, 19}
      PROVE  toNibbles(<<k>>) = <<1, k - 16>>
  <2> DEFINE f == toNibbles(<<k>>)
             key == <<k>>
  <2>1. Len(key) = 1 /\ key[1] = k
    OBVIOUS
  <2>2. f = [i \in 1..(2 * Len(key)) |->
               IF i % 2 = 1 THEN key[(i + 1) \div 2] \div 16 ELSE key[i \div 2] % 16]
    BY DEF toNibbles
  <2> HIDE DEF f, key
  <2>3. 2 * Len(key) = 2
    BY <2>1
  <2>4. f = [i \in 1..2 |->
               IF i % 2 = 1 THEN key[(i + 1) \div 2] \div 16 ELSE key[i \div 2] % 16]
    BY <2>2, <2>3
  <2>5. 1 \in 1..2 /\ 2 \in 1..2 /\ 1 % 2 = 1 /\ 2 % 2 # 1 /\ (1 + 1) \div 2 = 1 /\ 2 \div 2 = 1
    OBVIOUS
  <2>6. k \div 16 = 1 /\ k % 16 = k - 16
    OBVIOUS
  <2>7. f[1] = 1 /\ f[2] = k - 16
    BY <2>1, <2>4, <2>5, <2>6
  <2>8. f = [i \in 1..2 |-> f[i]]
    BY <2>4
  <2>9. f \in Seq(Nat) /\ Len(f) = 2
    <3>1. \A i \in 1..2 : i = 1 \/ i = 2
      OBVIOUS
    <3>2. \A i \in 1..2 : f[i] \in Nat
      BY <2>7, <3>1
    <3> DEFINE n == 2
    <3>3. f \in [1..n -> Nat] /\ n \in Nat
      BY <2>8, <3>2
    <3> HIDE DEF n
    <3>4. f \in Seq(Nat) /\ Len(f) = n
      BY <3>3, FunctionAsSeq
    <3> QED
      BY <3>4 DEF n
  <2>10. f = <<1, k - 16>>
    BY <2>7, <2>9
  <2> QED
    BY <2>10 DEF f
<1>3. toNibbles(<<18>>) = <<1, 2>> /\ toNibbles(<<19>>) = <<1, 3>>
  BY <1>2
<1> QED
  BY <1>1, <1>3 DEF LeafA, LeafB

\* put makes the nodes on the way and sets the value of the leaf.
LEMMA PutLeaf ==
  ASSUME NEW trie, NEW value, NEW byte \in {18, 19}, NEW leaf, leaf = toNibbles(<<byte>>)
  PROVE  put(trie, <<byte>>, value) =
           [path \in DOMAIN trie \cup {Root, Stem, leaf} |->
              IF path = leaf THEN <<value>>
              ELSE IF path \in DOMAIN trie THEN trie[path] ELSE <<>>]
<1>1. leaf = LeafA \/ leaf = LeafB
  BY KeyNibbles
<1>2. leaf \in Seq(Nat) /\ Len(leaf) = 2 /\ leaf[1] = 1
  <2>1. LeafA \in Seq(Nat) /\ Len(LeafA) = 2 /\ LeafA[1] = 1
    BY DEF LeafA
  <2>2. LeafB \in Seq(Nat) /\ Len(LeafB) = 2 /\ LeafB[1] = 1
    BY DEF LeafB
  <2> QED
    BY <1>1, <2>1, <2>2
<1>3. {SubSeq(leaf, 1, n) : n \in 0..Len(leaf)} = {Root, Stem, leaf}
  <2>1. SubSeq(leaf, 1, 0) = Root
    BY <1>2 DEF Root
  <2>2. SubSeq(leaf, 1, 1) = Stem
    <3> DEFINE u == SubSeq(leaf, 1, 1)
    <3>1. u \in Seq(Nat) /\ Len(u) = 1 /\ u[1] = leaf[1]
      BY <1>2
    <3> HIDE DEF u
    <3>2. u = <<1>>
      BY <1>2, <3>1
    <3> QED
      BY <3>2 DEF Stem, u
  <2>3. SubSeq(leaf, 1, 2) = leaf
    <3> DEFINE u == SubSeq(leaf, 1, 2)
    <3>1. u \in Seq(Nat) /\ Len(u) = 2
      BY <1>2
    <3>2. u[1] = leaf[1] /\ u[2] = leaf[2]
      BY <1>2
    <3> HIDE DEF u
    <3>3. u = <<u[1], u[2]>>
      BY <3>1
    <3>4. leaf = <<leaf[1], leaf[2]>>
      BY <1>2
    <3>5. u = leaf
      BY <3>2, <3>3, <3>4
    <3> QED
      BY <3>5 DEF u
  <2>4. \A n \in 0..Len(leaf) : n = 0 \/ n = 1 \/ n = 2
    <3>1. \A n \in 0..2 : n = 0 \/ n = 1 \/ n = 2
      OBVIOUS
    <3> QED
      BY <1>2, <3>1
  <2>5. 0 \in 0..Len(leaf) /\ 1 \in 0..Len(leaf) /\ 2 \in 0..Len(leaf)
    BY <1>2
  <2> QED
    BY <2>1, <2>2, <2>3, <2>4, <2>5
<1> QED
  BY <1>3 DEF put

\* The trie of an account map in which Alice exists.
HasB(accts) == accts[Bob].exists

TriePaths(accts) == {Root, Stem, LeafA} \cup (IF HasB(accts) THEN {LeafB} ELSE {})

TrieOf(accts) ==
  [path \in TriePaths(accts) |->
     CASE path = LeafA -> <<AccountValue(accts[Alice])>>
       [] path = LeafB -> <<AccountValue(accts[Bob])>>
       [] OTHER -> <<>>]

\* One turn of the loop of State::root.
PutAccount(trie, accts, a) ==
  IF accts[a].exists THEN put(trie, KeyBytes(a), AccountValue(accts[a])) ELSE trie

\* The loop over two accounts.
LEMMA RootInputTwo ==
  ASSUME NEW accts, NEW x, NEW y
  PROVE  RootInput(accts, <<x, y>>) =
           encodeNode(PutAccount(PutAccount(EmptyTrie, accts, x), accts, y))
<1> DEFINE order == <<x, y>>
           t1 == PutAccount(EmptyTrie, accts, x)
           t2 == PutAccount(t1, accts, y)
           IsTries(f) == f = [i \in 0..Len(order) |->
                                IF i = 0 THEN EmptyTrie
                                ELSE IF accts[order[i]].exists
                                     THEN put(f[i - 1], KeyBytes(order[i]), AccountValue(accts[order[i]]))
                                     ELSE f[i - 1]]
           chosen == CHOOSE f : IsTries(f)
           g == [i \in 0..2 |-> IF i = 0 THEN EmptyTrie ELSE IF i = 1 THEN t1 ELSE t2]
<1>1. RootInput(accts, order) = encodeNode(chosen[Len(order)])
  BY DEF RootInput
<1>2. Len(order) = 2 /\ order[1] = x /\ order[2] = y
  OBVIOUS
<1> HIDE DEF order
<1>3. \A f : IsTries(f) <=>
        f = [i \in 0..2 |-> IF i = 0 THEN EmptyTrie ELSE PutAccount(f[i - 1], accts, order[i])]
  BY <1>2 DEF PutAccount
<1> HIDE DEF IsTries
<1>4. g[0] = EmptyTrie /\ g[1] = t1 /\ g[2] = t2 /\ g = [i \in 0..2 |-> g[i]]
  OBVIOUS
<1> HIDE DEF g
<1>5. \A i \in 0..2 : g[i] = IF i = 0 THEN EmptyTrie ELSE PutAccount(g[i - 1], accts, order[i])
  <2>1. \A i \in 0..2 : i = 0 \/ (i = 1 /\ i - 1 = 0) \/ (i = 2 /\ i - 1 = 1)
    OBVIOUS
  <2>2. g[1] = PutAccount(g[0], accts, order[1]) /\ g[2] = PutAccount(g[1], accts, order[2])
    BY <1>2, <1>4
  <2> HIDE DEF t1, t2
  <2> QED
    BY <1>4, <2>1, <2>2
<1>6. IsTries(g)
  BY <1>3, <1>4, <1>5
<1>7. IsTries(chosen)
  BY <1>6
<1> HIDE DEF chosen
<1>8. chosen = [i \in 0..2 |-> IF i = 0 THEN EmptyTrie ELSE PutAccount(chosen[i - 1], accts, order[i])]
  BY <1>3, <1>7
<1>9. chosen[0] = EmptyTrie
  BY <1>8
<1>10. chosen[1] = PutAccount(chosen[0], accts, order[1])
  <2>1. 1 \in 0..2 /\ 1 # 0 /\ 1 - 1 = 0
    OBVIOUS
  <2> QED
    BY <1>8, <2>1
<1>11. chosen[2] = PutAccount(chosen[1], accts, order[2])
  <2>1. 2 \in 0..2 /\ 2 # 0 /\ 2 - 1 = 1
    OBVIOUS
  <2> QED
    BY <1>8, <2>1
<1>12. chosen[2] = t2
  BY <1>2, <1>9, <1>10, <1>11
<1> HIDE DEF t2
<1> QED
  BY <1>1, <1>2, <1>12 DEF order, t2

\* The trie is the same in either order.
LEMMA TrieEitherOrder ==
  ASSUME NEW accts, accts[Alice].exists, accts[Bob].exists \in BOOLEAN
  PROVE  /\ PutAccount(PutAccount(EmptyTrie, accts, Alice), accts, Bob) = TrieOf(accts)
         /\ PutAccount(PutAccount(EmptyTrie, accts, Bob), accts, Alice) = TrieOf(accts)
<1> DEFINE va == AccountValue(accts[Alice])
           vb == AccountValue(accts[Bob])
           T == TrieOf(accts)
<1>1. \A t : PutAccount(t, accts, Alice) = put(t, <<18>>, va)
  BY KeyNibbles DEF PutAccount
<1>2. \A t : PutAccount(t, accts, Bob) = IF accts[Bob].exists THEN put(t, <<19>>, vb) ELSE t
  BY KeyNibbles DEF PutAccount
<1>3. EmptyTrie = [path \in {Root} |-> <<>>]
  BY DEF EmptyTrie, Root
<1>4. T = [path \in TriePaths(accts) |->
             CASE path = LeafA -> <<va>> [] path = LeafB -> <<vb>> [] OTHER -> <<>>]
  BY DEF TrieOf
<1> HIDE DEF va, vb, T
<1>5. ASSUME NEW t
      PROVE  put(t, <<18>>, va) =
               [path \in DOMAIN t \cup {Root, Stem, LeafA} |->
                  IF path = LeafA THEN <<va>> ELSE IF path \in DOMAIN t THEN t[path] ELSE <<>>]
  <2>1. LeafA = toNibbles(<<18>>)
    BY KeyNibbles
  <2> QED
    BY <2>1, PutLeaf
<1>6. ASSUME NEW t
      PROVE  put(t, <<19>>, vb) =
               [path \in DOMAIN t \cup {Root, Stem, LeafB} |->
                  IF path = LeafB THEN <<vb>> ELSE IF path \in DOMAIN t THEN t[path] ELSE <<>>]
  <2>1. LeafB = toNibbles(<<19>>)
    BY KeyNibbles
  <2> QED
    BY <2>1, PutLeaf
<1> DEFINE onlyA == [path \in {Root, Stem, LeafA} |-> IF path = LeafA THEN <<va>> ELSE <<>>]
           onlyB == [path \in {Root, Stem, LeafB} |-> IF path = LeafB THEN <<vb>> ELSE <<>>]
           both == [path \in {Root, Stem, LeafA, LeafB} |->
                      IF path = LeafA THEN <<va>> ELSE IF path = LeafB THEN <<vb>> ELSE <<>>]
<1>7. /\ Root # Stem /\ Root # LeafA /\ Root # LeafB
      /\ Stem # LeafA /\ Stem # LeafB /\ LeafA # LeafB
  BY PathFacts
<1>8. put(EmptyTrie, <<18>>, va) = onlyA
  <2> DEFINE t == EmptyTrie
             D == {Root, Stem, LeafA}
  <2>1. DOMAIN t = {Root} /\ t[Root] = <<>>
    BY <1>3
  <2> HIDE DEF t
  <2>2. DOMAIN t \cup D = D
    BY <2>1
  <2>3. \A path \in D : (IF path = LeafA THEN <<va>> ELSE IF path \in DOMAIN t THEN t[path] ELSE <<>>)
                         = (IF path = LeafA THEN <<va>> ELSE <<>>)
    BY <2>1
  <2> HIDE DEF D
  <2>4. put(t, <<18>>, va) = [path \in D |-> IF path = LeafA THEN <<va>> ELSE <<>>]
    BY <1>5, <2>2, <2>3 DEF D
  <2> QED
    BY <2>4 DEF t, D
<1>9. put(EmptyTrie, <<19>>, vb) = onlyB
  <2> DEFINE t == EmptyTrie
             D == {Root, Stem, LeafB}
  <2>1. DOMAIN t = {Root} /\ t[Root] = <<>>
    BY <1>3
  <2> HIDE DEF t
  <2>2. DOMAIN t \cup D = D
    BY <2>1
  <2>3. \A path \in D : (IF path = LeafB THEN <<vb>> ELSE IF path \in DOMAIN t THEN t[path] ELSE <<>>)
                         = (IF path = LeafB THEN <<vb>> ELSE <<>>)
    BY <2>1
  <2> HIDE DEF D
  <2>4. put(t, <<19>>, vb) = [path \in D |-> IF path = LeafB THEN <<vb>> ELSE <<>>]
    BY <1>6, <2>2, <2>3 DEF D
  <2> QED
    BY <2>4 DEF t, D
<1>10. put(onlyA, <<19>>, vb) = both
  <2> DEFINE t == onlyA
             D == {Root, Stem, LeafA, LeafB}
             v(path) == IF path = LeafB THEN <<vb>> ELSE IF path \in DOMAIN t THEN t[path] ELSE <<>>
             w(path) == IF path = LeafA THEN <<va>> ELSE IF path = LeafB THEN <<vb>> ELSE <<>>
  <2>1. /\ DOMAIN t = {Root, Stem, LeafA}
        /\ t[Root] = <<>> /\ t[Stem] = <<>> /\ t[LeafA] = <<va>>
    BY <1>7
  <2> HIDE DEF t
  <2>2. DOMAIN t \cup {Root, Stem, LeafB} = D
    BY <2>1
  <2>3. \A path \in D : v(path) = w(path)
    BY <1>7, <2>1
  <2>4. put(t, <<19>>, vb) = [path \in DOMAIN t \cup {Root, Stem, LeafB} |-> v(path)]
    BY <1>6
  <2>5. both = [path \in D |-> w(path)]
    OBVIOUS
  <2> HIDE DEF D, v, w
  <2>6. put(t, <<19>>, vb) = both
    BY <2>2, <2>3, <2>4, <2>5
  <2> QED
    BY <2>6 DEF t
<1>11. put(onlyB, <<18>>, va) = both
  <2> DEFINE t == onlyB
             D == {Root, Stem, LeafA, LeafB}
             v(path) == IF path = LeafA THEN <<va>> ELSE IF path \in DOMAIN t THEN t[path] ELSE <<>>
             w(path) == IF path = LeafA THEN <<va>> ELSE IF path = LeafB THEN <<vb>> ELSE <<>>
  <2>1. /\ DOMAIN t = {Root, Stem, LeafB}
        /\ t[Root] = <<>> /\ t[Stem] = <<>> /\ t[LeafB] = <<vb>>
    BY <1>7
  <2> HIDE DEF t
  <2>2. DOMAIN t \cup {Root, Stem, LeafA} = D
    BY <2>1
  <2>3. \A path \in D : v(path) = w(path)
    BY <1>7, <2>1
  <2>4. put(t, <<18>>, va) = [path \in DOMAIN t \cup {Root, Stem, LeafA} |-> v(path)]
    BY <1>5
  <2>5. both = [path \in D |-> w(path)]
    OBVIOUS
  <2> HIDE DEF D, v, w
  <2>6. put(t, <<18>>, va) = both
    BY <2>2, <2>3, <2>4, <2>5
  <2> QED
    BY <2>6 DEF t
<1>12. CASE accts[Bob].exists
  <2>1. TriePaths(accts) = {Root, Stem, LeafA, LeafB}
    BY <1>12 DEF TriePaths, HasB
  <2>2. T = both
    BY <1>4, <1>7, <2>1
  <2> HIDE DEF both, onlyA, onlyB
  <2> QED
    BY <1>1, <1>2, <1>8, <1>9, <1>10, <1>11, <1>12, <2>2 DEF T
<1>13. CASE ~accts[Bob].exists
  <2>1. TriePaths(accts) = {Root, Stem, LeafA}
    BY <1>13 DEF TriePaths, HasB
  <2>2. T = onlyA
    BY <1>4, <1>7, <2>1
  <2> HIDE DEF onlyA
  <2> QED
    BY <1>1, <1>2, <1>8, <1>13, <2>2 DEF T
<1> QED
  BY <1>12, <1>13
-----------------------------------------------------------------------------
(* Encoding the trie.                                                      *)

\* A node as encodeNode writes it, from what its seventeen items hold.
Branch(contents) == encodeList([i \in 1..17 |-> encodeBytes(contents[i])])

\* The contents of a node, where enc gives the encodings of its children.
ContentsAt(trie, enc, path) ==
  [i \in 1..17 |->
     IF i = 17 THEN IF trie[path] = <<>> THEN <<>> ELSE trie[path][1]
     ELSE IF Append(path, i - 1) \in DOMAIN trie THEN enc[Append(path, i - 1)] ELSE <<>>]

\* The recursion of encodeNode, as the function it defines.
IsEncoding(trie, enc) ==
  enc = [path \in DOMAIN trie |->
           encodeList([i \in 1..17 |->
             IF i = 17 THEN encodeNodeValue(trie[path])
             ELSE IF Append(path, i - 1) \in DOMAIN trie
                  THEN encodeBytes(enc[Append(path, i - 1)])
                  ELSE encodeBytes(<<>>)])]

\* The same, node by node.
LEMMA EncodingByNode ==
  ASSUME NEW trie, NEW enc
  PROVE  IsEncoding(trie, enc) <=>
           enc = [path \in DOMAIN trie |-> Branch(ContentsAt(trie, enc, path))]
<1> DEFINE Item(path, i) ==
             IF i = 17 THEN encodeNodeValue(trie[path])
             ELSE IF Append(path, i - 1) \in DOMAIN trie
                  THEN encodeBytes(enc[Append(path, i - 1)])
                  ELSE encodeBytes(<<>>)
           Node(path) == encodeList([i \in 1..17 |-> Item(path, i)])
<1>1. ASSUME NEW path
      PROVE  Node(path) = Branch(ContentsAt(trie, enc, path))
  <2> DEFINE c == ContentsAt(trie, enc, path)
  <2>1. ASSUME NEW i \in 1..17 PROVE Item(path, i) = encodeBytes(c[i])
    <3>1. c[i] = IF i = 17 THEN IF trie[path] = <<>> THEN <<>> ELSE trie[path][1]
                 ELSE IF Append(path, i - 1) \in DOMAIN trie THEN enc[Append(path, i - 1)] ELSE <<>>
      BY DEF ContentsAt
    <3> HIDE DEF c
    <3> QED
      BY <3>1 DEF encodeNodeValue
  <2> HIDE DEF Item, c
  <2>2. [i \in 1..17 |-> Item(path, i)] = [i \in 1..17 |-> encodeBytes(c[i])]
    BY <2>1
  <2> QED
    BY <2>2 DEF Branch, c
<1>2. IsEncoding(trie, enc) <=> enc = [path \in DOMAIN trie |-> Node(path)]
  BY DEF IsEncoding
<1> HIDE DEF Node
<1>3. [path \in DOMAIN trie |-> Node(path)]
        = [path \in DOMAIN trie |-> Branch(ContentsAt(trie, enc, path))]
  BY <1>1
<1> QED
  BY <1>2, <1>3

\* What the nodes of a trie of at most two accounts hold.
LeafContents(value) == [i \in 1..17 |-> IF i = 17 THEN value ELSE <<>>]

StemContents(leafA, leafB) ==
  [i \in 1..17 |-> IF i = 3 THEN leafA ELSE IF i = 4 THEN leafB ELSE <<>>]

RootContents(stem) == [i \in 1..17 |-> IF i = 2 THEN stem ELSE <<>>]

EncodedLeaf(accts, a) == Branch(LeafContents(AccountValue(accts[a])))

EncodedStem(accts) ==
  Branch(StemContents(EncodedLeaf(accts, Alice),
                      IF HasB(accts) THEN EncodedLeaf(accts, Bob) ELSE <<>>))

EncodedRoot(accts) == Branch(RootContents(EncodedStem(accts)))

\* The values in that trie.
LEMMA TrieValues ==
  ASSUME NEW accts, accts[Bob].exists \in BOOLEAN
  PROVE  LET trie == TrieOf(accts)
         IN  /\ DOMAIN trie = TriePaths(accts)
             /\ trie[Root] = <<>> /\ trie[Stem] = <<>>
             /\ trie[LeafA] = <<AccountValue(accts[Alice])>>
             /\ HasB(accts) => trie[LeafB] = <<AccountValue(accts[Bob])>>
<1> DEFINE va == <<AccountValue(accts[Alice])>>
           vb == <<AccountValue(accts[Bob])>>
           T == TrieOf(accts)
           D == TriePaths(accts)
<1>1. T = [path \in D |-> CASE path = LeafA -> va [] path = LeafB -> vb [] OTHER -> <<>>]
  BY DEF TrieOf
<1>2. Root \in D /\ Stem \in D /\ LeafA \in D /\ (HasB(accts) => LeafB \in D)
  BY DEF TriePaths
<1>3. /\ Root # Stem /\ Root # LeafA /\ Root # LeafB
      /\ Stem # LeafA /\ Stem # LeafB /\ LeafA # LeafB
  BY PathFacts
<1> HIDE DEF va, vb, T, D
<1>4. DOMAIN T = D
  BY <1>1
<1>5. T[Root] = <<>> /\ T[Stem] = <<>> /\ T[LeafA] = va
  BY <1>1, <1>2, <1>3
<1>6. HasB(accts) => T[LeafB] = vb
  BY <1>1, <1>2, <1>3
<1> QED
  BY <1>4, <1>5, <1>6 DEF va, vb, T, D

\* Which of the paths continue a node of that trie.
LEMMA TrieChildren ==
  ASSUME NEW accts, accts[Bob].exists \in BOOLEAN, NEW j \in Nat
  PROVE  /\ Append(Root, j) \in TriePaths(accts) <=> j = 1
         /\ Append(Stem, j) \in TriePaths(accts) <=> (j = 2 \/ (j = 3 /\ HasB(accts)))
         /\ Append(LeafA, j) \notin TriePaths(accts)
         /\ Append(LeafB, j) \notin TriePaths(accts)
<1> DEFINE D == TriePaths(accts)
<1>1. HasB(accts) \in BOOLEAN
  BY DEF HasB
<1>2. D \subseteq Paths /\ Stem \in D /\ LeafA \in D /\ (LeafB \in D <=> HasB(accts))
  BY <1>1, PathFacts DEF TriePaths, Paths
<1> HIDE DEF D
<1>3. Append(Root, j) \in D <=> j = 1
  BY <1>2, PathFacts
<1>4. Append(Stem, j) \in D <=> (j = 2 \/ (j = 3 /\ HasB(accts)))
  <2>1. Append(Stem, j) \in D => j = 2 \/ j = 3
    BY <1>2, PathFacts
  <2>2. j = 2 => Append(Stem, j) = LeafA
    BY PathFacts
  <2>3. j = 3 => Append(Stem, j) = LeafB
    BY PathFacts
  <2> QED
    BY <1>2, <2>1, <2>2, <2>3
<1>5. Append(LeafA, j) \notin D /\ Append(LeafB, j) \notin D
  BY <1>2, PathFacts
<1> QED
  BY <1>3, <1>4, <1>5 DEF D
\* The contents of its nodes, whatever the encodings of the children.
LEMMA NodeContents ==
  ASSUME NEW accts, accts[Bob].exists \in BOOLEAN, NEW enc
  PROVE  LET trie == TrieOf(accts)
         IN  /\ ContentsAt(trie, enc, LeafA) = LeafContents(AccountValue(accts[Alice]))
             /\ HasB(accts) =>
                  ContentsAt(trie, enc, LeafB) = LeafContents(AccountValue(accts[Bob]))
             /\ ContentsAt(trie, enc, Stem) =
                  StemContents(enc[LeafA], IF HasB(accts) THEN enc[LeafB] ELSE <<>>)
             /\ ContentsAt(trie, enc, Root) = RootContents(enc[Stem])
<1> DEFINE T == TrieOf(accts)
           va == AccountValue(accts[Alice])
           vb == AccountValue(accts[Bob])
           Item(path, i) ==
             IF i = 17 THEN IF T[path] = <<>> THEN <<>> ELSE T[path][1]
             ELSE IF Append(path, i - 1) \in DOMAIN T THEN enc[Append(path, i - 1)] ELSE <<>>
           hasB == HasB(accts)
<1>1. /\ DOMAIN T = TriePaths(accts)
      /\ T[Root] = <<>> /\ T[Stem] = <<>> /\ T[LeafA] = <<va>>
      /\ hasB => T[LeafB] = <<vb>>
  BY TrieValues
<1>2. \A i \in 1..17 : i - 1 \in Nat
  OBVIOUS
<1>3. ASSUME NEW path PROVE ContentsAt(T, enc, path) = [i \in 1..17 |-> Item(path, i)]
  BY DEF ContentsAt
<1>4. <<va>> # <<>> /\ <<vb>> # <<>> /\ <<va>>[1] = va /\ <<vb>>[1] = vb
  OBVIOUS
<1> HIDE DEF T, va, vb, hasB
<1>5. ASSUME NEW i \in 1..17
      PROVE  Item(LeafA, i) = IF i = 17 THEN va ELSE <<>>
  <2>1. Append(LeafA, i - 1) \notin DOMAIN T
    BY <1>1, <1>2, TrieChildren
  <2> QED
    BY <1>1, <1>4, <2>1
<1>6. ASSUME NEW i \in 1..17, hasB
      PROVE  Item(LeafB, i) = IF i = 17 THEN vb ELSE <<>>
  <2>1. Append(LeafB, i - 1) \notin DOMAIN T
    BY <1>1, <1>2, TrieChildren
  <2> QED
    BY <1>1, <1>4, <1>6, <2>1
<1> DEFINE b == IF hasB THEN enc[LeafB] ELSE <<>>
<1>7. ASSUME NEW i \in 1..17
      PROVE  Item(Stem, i) = IF i = 3 THEN enc[LeafA] ELSE IF i = 4 THEN b ELSE <<>>
  <2> DEFINE p == Append(Stem, i - 1)
  <2>1. p \in DOMAIN T <=> (i - 1 = 2 \/ (i - 1 = 3 /\ hasB))
    BY <1>1, <1>2, TrieChildren DEF hasB
  <2>2. (i = 3 => p = LeafA) /\ (i = 4 => p = LeafB)
    <3>1. i = 3 => i - 1 = 2
      OBVIOUS
    <3>2. i = 4 => i - 1 = 3
      OBVIOUS
    <3> QED
      BY <3>1, <3>2, PathFacts
  <2>3. (i - 1 = 2 <=> i = 3) /\ (i - 1 = 3 <=> i = 4) /\ 3 # 17 /\ 4 # 17 /\ 3 # 4
    OBVIOUS
  <2>4. Item(Stem, i) = IF i = 17 THEN <<>> ELSE IF p \in DOMAIN T THEN enc[p] ELSE <<>>
    BY <1>1
  <2> HIDE DEF p, Item
  <2> QED
    BY <2>1, <2>2, <2>3, <2>4
<1>8. ASSUME NEW i \in 1..17
      PROVE  Item(Root, i) = IF i = 2 THEN enc[Stem] ELSE <<>>
  <2> DEFINE p == Append(Root, i - 1)
  <2>1. p \in DOMAIN T <=> i - 1 = 1
    BY <1>1, <1>2, TrieChildren
  <2>2. i = 2 => p = Stem
    <3>1. i = 2 => i - 1 = 1
      OBVIOUS
    <3> QED
      BY <3>1, PathFacts
  <2>3. (i - 1 = 1 <=> i = 2) /\ 2 # 17
    OBVIOUS
  <2>4. Item(Root, i) = IF i = 17 THEN <<>> ELSE IF p \in DOMAIN T THEN enc[p] ELSE <<>>
    BY <1>1
  <2> HIDE DEF p, Item
  <2> QED
    BY <2>1, <2>2, <2>3, <2>4
<1> HIDE DEF Item, b
<1>9. ContentsAt(T, enc, LeafA) = LeafContents(va)
  BY <1>3, <1>5 DEF LeafContents
<1>10. hasB => ContentsAt(T, enc, LeafB) = LeafContents(vb)
  BY <1>3, <1>6 DEF LeafContents
<1>11. ContentsAt(T, enc, Stem) = StemContents(enc[LeafA], b)
  BY <1>3, <1>7 DEF StemContents
<1>12. ContentsAt(T, enc, Root) = RootContents(enc[Stem])
  BY <1>3, <1>8 DEF RootContents
<1> QED
  BY <1>9, <1>10, <1>11, <1>12 DEF T, va, vb, hasB, b

\* The bytes that encodeNode makes of that trie.
LEMMA EncodedTrie ==
  ASSUME NEW accts, accts[Bob].exists \in BOOLEAN
  PROVE  encodeNode(TrieOf(accts)) = EncodedRoot(accts)
<1> DEFINE T == TrieOf(accts)
           D == TriePaths(accts)
           hasB == HasB(accts)
           la == EncodedLeaf(accts, Alice)
           lb == EncodedLeaf(accts, Bob)
           st == EncodedStem(accts)
           ro == EncodedRoot(accts)
           g == [path \in D |-> IF path = LeafA THEN la ELSE IF path = LeafB THEN lb
                                ELSE IF path = Stem THEN st ELSE ro]
           chosen == CHOOSE f : IsEncoding(T, f)
           N(f, path) == Branch(ContentsAt(T, f, path))
<1>1. encodeNode(T) = chosen[Root]
  BY DEF encodeNode, IsEncoding, Root
<1>2. DOMAIN T = D
  BY TrieValues
<1>3. /\ Root \in D /\ Stem \in D /\ LeafA \in D /\ (hasB <=> LeafB \in D) /\ D \subseteq Paths
      /\ Root # Stem /\ Root # LeafA /\ Root # LeafB
      /\ Stem # LeafA /\ Stem # LeafB /\ LeafA # LeafB
  BY PathFacts DEF TriePaths, HasB, Paths
<1>4. \A f : /\ N(f, LeafA) = la
             /\ hasB => N(f, LeafB) = lb
             /\ N(f, Stem) = Branch(StemContents(f[LeafA], IF hasB THEN f[LeafB] ELSE <<>>))
             /\ N(f, Root) = Branch(RootContents(f[Stem]))
  BY NodeContents DEF EncodedLeaf
<1>5. /\ st = Branch(StemContents(la, IF hasB THEN lb ELSE <<>>))
      /\ ro = Branch(RootContents(st))
  BY DEF EncodedStem, EncodedRoot
<1>6. \A f : IsEncoding(T, f) <=> f = [path \in D |-> N(f, path)]
  BY <1>2, EncodingByNode
<1> HIDE DEF T, D, hasB, la, lb, st, ro, N
<1>7. g[LeafA] = la /\ g[Stem] = st /\ g[Root] = ro /\ (hasB => g[LeafB] = lb)
  BY <1>3
<1>8. g = [path \in D |-> g[path]]
  OBVIOUS
<1> HIDE DEF g
<1>9. N(g, LeafA) = g[LeafA] /\ (hasB => N(g, LeafB) = g[LeafB])
  BY <1>4, <1>7
<1>10. N(g, Stem) = g[Stem]
  <2>1. (IF hasB THEN g[LeafB] ELSE <<>>) = (IF hasB THEN lb ELSE <<>>)
    BY <1>7
  <2> QED
    BY <1>4, <1>5, <1>7, <2>1
<1>11. N(g, Root) = g[Root]
  BY <1>4, <1>5, <1>7
<1>12. \A path \in D : g[path] = N(g, path)
  BY <1>3, <1>9, <1>10, <1>11 DEF Paths
<1>13. IsEncoding(T, g)
  BY <1>6, <1>8, <1>12
<1>14. IsEncoding(T, chosen)
  BY <1>13
<1> HIDE DEF chosen
<1>15. chosen = [path \in D |-> N(chosen, path)]
  BY <1>6, <1>14
<1>16. \A path \in D : chosen[path] = N(chosen, path)
  BY <1>15
<1>17. chosen[LeafA] = la /\ (hasB => chosen[LeafB] = lb)
  BY <1>3, <1>4, <1>16
<1>18. chosen[Stem] = st
  <2>1. (IF hasB THEN chosen[LeafB] ELSE <<>>) = (IF hasB THEN lb ELSE <<>>)
    BY <1>17
  <2> QED
    BY <1>3, <1>4, <1>5, <1>16, <1>17, <2>1
<1>19. chosen[Root] = ro
  BY <1>3, <1>4, <1>5, <1>16, <1>18
<1> QED
  BY <1>1, <1>19 DEF T, ro
-----------------------------------------------------------------------------
(* Reading it back.                                                        *)

\* Bytes of a length of at most m.
AtMost(bytes, m) == bytes \in Seq(Byte) /\ Len(bytes) \in Nat /\ Len(bytes) <= m

\* A balance or a nonce has at most eight bytes.
LEMMA WordBytes ==
  ASSUME NEW v \in Word
  PROVE  /\ AtMost(BigEndian(v), 8)
         /\ toUint(BigEndian(v)) = v
         /\ encodeUint(v) = encodeBytes(BigEndian(v))
<1>1. v \in Nat /\ MaxUint \in Nat /\ v <= MaxUint
  BY MaxUintAssumption DEF Word
<1>2. BigEndian(v) \in Seq(Byte) /\ BigEndian(MaxUint) \in Seq(Byte) /\ toUint(BigEndian(v)) = v
  BY <1>1, UintRoundTrip
<1>3. Len(BigEndian(v)) <= Len(BigEndian(MaxUint))
  BY <1>1, BytesMonotone
<1> DEFINE a == Len(BigEndian(v))
           b == Len(BigEndian(MaxUint))
<1>4. a \in Nat /\ b \in Nat /\ a <= b /\ b <= 8
  BY <1>2, <1>3, WordBytesAssumption
<1> HIDE DEF a, b
<1>5. a <= 8
  BY <1>4
<1> QED
  BY <1>1, <1>2, <1>4, <1>5, UintAsBytes DEF AtMost, a

\* An account reads back from the value that the trie keeps for it.
LEMMA AccountBytes ==
  ASSUME NEW acc \in Account
  PROVE  /\ AtMost(AccountValue(acc), 43)
         /\ Len(AccountValue(acc)) >= 1
         /\ toUint(decode(AccountValue(acc)).list[1].bytes) = acc.balance
         /\ toUint(decode(AccountValue(acc)).list[2].bytes) = acc.nonce
<1> DEFINE x == BigEndian(acc.balance)
           y == BigEndian(acc.nonce)
           c == [i \in 1..2 |-> IF i = 1 THEN x ELSE y]
           n == 2
           e == <<encodeUint(acc.balance), encodeUint(acc.nonce)>>
<1>1. acc.balance \in Word /\ acc.nonce \in Word
  BY DEF Account
<1>2. /\ AtMost(x, 8) /\ AtMost(y, 8)
      /\ toUint(x) = acc.balance /\ toUint(y) = acc.nonce
      /\ encodeUint(acc.balance) = encodeBytes(x) /\ encodeUint(acc.nonce) = encodeBytes(y)
  BY <1>1, WordBytes
<1> HIDE DEF x, y
<1>3. c \in [1..n -> Seq(Byte)] /\ c[1] = x /\ c[2] = y /\ \A i \in 1..n : Len(c[i]) <= 8
  BY <1>2 DEF AtMost
<1> HIDE DEF c
<1>4. e = [i \in 1..n |-> encodeBytes(c[i])]
  <2>1. e = <<encodeBytes(x), encodeBytes(y)>>
    BY <1>2
  <2>2. e = [i \in 1..2 |-> e[i]] /\ e[1] = encodeBytes(x) /\ e[2] = encodeBytes(y)
    BY <2>1
  <2> HIDE DEF e
  <2>3. \A i \in 1..2 : e[i] = encodeBytes(c[i])
    <3>1. \A i \in 1..2 : i = 1 \/ i = 2
      OBVIOUS
    <3> QED
      BY <1>3, <2>2, <3>1
  <2> QED
    BY <2>2, <2>3
<1> DEFINE v == AccountValue(acc)
           B == 8
<1>5. v = encodeList([i \in 1..n |-> encodeBytes(c[i])])
  BY <1>4 DEF AccountValue
<1>6. n \in 1..17 /\ B \in Nat /\ B <= 16000 /\ \A i \in 1..n : Len(c[i]) <= B
  BY <1>3, SMT
<1>7. n * (B + 9) + 9 = 43 /\ 1 \in 1..n /\ 2 \in 1..n
  OBVIOUS
<1>8. SmallContents(c, n, B)
  BY <1>3, <1>6 DEF SmallContents
<1> HIDE DEF v, n, B, e
<1>10. SmallList(v, c, n, B)
  BY <1>5, <1>8, SmallListReadBack
<1>9. /\ v \in Seq(Byte) /\ Len(v) \in Nat /\ Len(v) >= 1 /\ Len(v) <= 43
      /\ decode(v).list[1].bytes = c[1] /\ decode(v).list[2].bytes = c[2]
  BY <1>7, <1>10 DEF SmallList
<1> QED
  BY <1>2, <1>3, <1>9 DEF AtMost, v

\* A node whose contents have at most B bytes.
LEMMA BranchReadBack ==
  ASSUME NEW c, NEW B, SmallContents(c, 17, B)
  PROVE  /\ AtMost(Branch(c), 17 * (B + 9) + 9)
         /\ Len(Branch(c)) >= 1
         /\ \A i \in 1..17 : decode(Branch(c)).list[i].bytes = c[i]
<1> DEFINE n == 17
           e == Branch(c)
<1>1. SmallContents(c, n, B)
  OBVIOUS
<1>2. e = encodeList([i \in 1..n |-> encodeBytes(c[i])])
  BY DEF Branch
<1> HIDE DEF n, e
<1>3. SmallList(e, c, n, B)
  BY <1>1, <1>2, SmallListReadBack
<1>4. /\ e \in Seq(Byte) /\ Len(e) \in Nat /\ Len(e) >= 1 /\ Len(e) <= n * (B + 9) + 9
      /\ \A i \in 1..n : decode(e).list[i].bytes = c[i]
  BY <1>3 DEF SmallList
<1> QED
  BY <1>4 DEF AtMost, n, e

\* The way of a reader down two nodes.
LEMMA ReadTwoDown ==
  ASSUME NEW bytes, NEW key, NEW stem, NEW leaf, NEW nibble \in Nat,
         toNibbles(key) = <<1, nibble>>,
         bytes # <<>>, stem # <<>>,
         stem = decode(bytes).list[2].bytes,
         leaf = decode(stem).list[nibble + 1].bytes
  PROVE  ReadValue(bytes, key) = IF leaf = <<>> THEN <<>> ELSE decode(leaf).list[17].bytes
<1> DEFINE path == toNibbles(key)
           IsWay(f) == f = [n \in 0..Len(path) |->
                              IF n = 0 THEN bytes
                              ELSE IF f[n - 1] = <<>> THEN <<>>
                              ELSE decode(f[n - 1]).list[path[n] + 1].bytes]
           chosen == CHOOSE f : IsWay(f)
           g == [n \in 0..2 |-> IF n = 0 THEN bytes ELSE IF n = 1 THEN stem ELSE leaf]
           Down(f, n) == IF f[n - 1] = <<>> THEN <<>> ELSE decode(f[n - 1]).list[path[n] + 1].bytes
<1>1. ReadValue(bytes, key) = IF chosen[Len(path)] = <<>> THEN <<>>
                              ELSE decode(chosen[Len(path)]).list[17].bytes
  BY DEF ReadValue
<1>2. Len(path) = 2 /\ path[1] = 1 /\ path[2] = nibble
  OBVIOUS
<1> HIDE DEF path
<1>3. \A f : IsWay(f) <=> f = [n \in 0..2 |-> IF n = 0 THEN bytes ELSE Down(f, n)]
  BY <1>2
<1>4. \A f : /\ Down(f, 1) = IF f[0] = <<>> THEN <<>> ELSE decode(f[0]).list[2].bytes
             /\ Down(f, 2) = IF f[1] = <<>> THEN <<>> ELSE decode(f[1]).list[nibble + 1].bytes
  <2>1. 1 - 1 = 0 /\ 2 - 1 = 1 /\ path[1] + 1 = 2 /\ path[2] + 1 = nibble + 1
    BY <1>2
  <2> QED
    BY <2>1
<1> HIDE DEF IsWay, Down
<1>5. g[0] = bytes /\ g[1] = stem /\ g[2] = leaf /\ g = [n \in 0..2 |-> g[n]]
  OBVIOUS
<1> HIDE DEF g
<1>6. \A n \in 0..2 : n = 0 \/ n = 1 \/ n = 2
  OBVIOUS
<1>7. Down(g, 1) = stem /\ Down(g, 2) = leaf
  BY <1>4, <1>5
<1>8. \A n \in 0..2 : g[n] = IF n = 0 THEN bytes ELSE Down(g, n)
  BY <1>5, <1>6, <1>7
<1>9. IsWay(g)
  BY <1>3, <1>5, <1>8
<1>10. IsWay(chosen)
  BY <1>9
<1> HIDE DEF chosen
<1>11. chosen = [n \in 0..2 |-> IF n = 0 THEN bytes ELSE Down(chosen, n)]
  BY <1>3, <1>10
<1>12. chosen[0] = bytes /\ chosen[1] = Down(chosen, 1) /\ chosen[2] = Down(chosen, 2)
  <2>1. 0 \in 0..2 /\ 1 \in 0..2 /\ 2 \in 0..2 /\ 1 # 0 /\ 2 # 0
    OBVIOUS
  <2> QED
    BY <1>11, <2>1
<1>13. chosen[1] = stem
  BY <1>4, <1>12
<1>14. chosen[2] = leaf
  BY <1>4, <1>12, <1>13
<1> QED
  BY <1>1, <1>2, <1>14
\* A leaf.
LEMMA LeafReadBack ==
  ASSUME NEW acc \in Account, NEW leaf, leaf = Branch(LeafContents(AccountValue(acc)))
  PROVE  /\ AtMost(leaf, 893) /\ leaf # <<>>
         /\ decode(leaf).list[17].bytes = AccountValue(acc)
<1> DEFINE v == AccountValue(acc)
           c == LeafContents(v)
           B == 43
<1>1. AtMost(v, B)
  BY AccountBytes
<1>2. SmallContents(c, 17, B)
  <2> HIDE DEF v
  <2>1. AtMost(<<>>, B)
    BY DEF AtMost
  <2>2. c = [i \in 1..17 |-> IF i = 17 THEN v ELSE <<>>]
    BY DEF LeafContents
  <2> HIDE DEF c
  <2>3. \A i \in 1..17 : AtMost(c[i], B)
    BY <1>1, <2>1, <2>2
  <2>4. c \in [1..17 -> Seq(Byte)]
    BY <2>2, <2>3 DEF AtMost
  <2>5. 17 \in 1..17 /\ B \in Nat /\ B <= 16000
    BY SMT
  <2>6. \A i \in 1..17 : Len(c[i]) <= B
    BY <2>3 DEF AtMost
  <2> HIDE DEF B
  <2> QED
    BY <2>4, <2>5, <2>6 DEF SmallContents
<1>3. c[17] = v
  BY DEF LeafContents
<1>4. 17 * (B + 9) + 9 = 893
  OBVIOUS
<1> HIDE DEF v, c, B
<1>5. /\ AtMost(Branch(c), 17 * (B + 9) + 9) /\ Len(Branch(c)) >= 1
      /\ \A i \in 1..17 : decode(Branch(c)).list[i].bytes = c[i]
  BY <1>2, BranchReadBack
<1>6. leaf = Branch(c)
  BY DEF c, v
<1>7. leaf # <<>>
  <2>1. Len(leaf) >= 1 /\ Len(<<>>) = 0
    BY <1>5, <1>6
  <2> QED
    BY <2>1
<1>8. decode(leaf).list[17].bytes = v
  BY <1>3, <1>5, <1>6
<1>9. AtMost(leaf, 893)
  BY <1>4, <1>5, <1>6
<1> QED
  BY <1>7, <1>8, <1>9 DEF v

\* The node above the leaves.
LEMMA StemReadBack ==
  ASSUME NEW a, NEW b, AtMost(a, 893), AtMost(b, 893),
         NEW stem, stem = Branch(StemContents(a, b))
  PROVE  /\ AtMost(stem, 15343) /\ stem # <<>>
         /\ decode(stem).list[3].bytes = a /\ decode(stem).list[4].bytes = b
<1> DEFINE c == StemContents(a, b)
           B == 893
<1>1. SmallContents(c, 17, B)
  <2>1. AtMost(<<>>, B)
    BY SMT DEF AtMost
  <2>2. c = [i \in 1..17 |-> IF i = 3 THEN a ELSE IF i = 4 THEN b ELSE <<>>]
    BY DEF StemContents
  <2>3. B \in Nat /\ B <= 16000 /\ 17 \in 1..17
    BY SMT
  <2>4. AtMost(a, B) /\ AtMost(b, B)
    OBVIOUS
  <2> HIDE DEF c, B
  <2>5. \A i \in 1..17 : AtMost(c[i], B)
    BY <2>1, <2>2, <2>4
  <2>6. c \in [1..17 -> Seq(Byte)]
    BY <2>2, <2>5 DEF AtMost
  <2>7. \A i \in 1..17 : Len(c[i]) <= B
    BY <2>5 DEF AtMost
  <2> QED
    BY <2>3, <2>6, <2>7 DEF SmallContents
<1>2. c[3] = a /\ c[4] = b
  BY DEF StemContents
<1>3. 17 * (B + 9) + 9 = 15343
  BY SMT
<1> HIDE DEF c, B
<1>4. /\ AtMost(Branch(c), 17 * (B + 9) + 9) /\ Len(Branch(c)) >= 1
      /\ \A i \in 1..17 : decode(Branch(c)).list[i].bytes = c[i]
  BY <1>1, BranchReadBack
<1>5. stem = Branch(c)
  BY DEF c
<1>6. stem # <<>>
  <2>1. Len(stem) >= 1 /\ Len(<<>>) = 0
    BY <1>4, <1>5
  <2> QED
    BY <2>1
<1>7. decode(stem).list[3].bytes = a /\ decode(stem).list[4].bytes = b
  BY <1>2, <1>4, <1>5
<1>8. AtMost(stem, 15343)
  BY <1>3, <1>4, <1>5, SMT
<1> QED
  BY <1>6, <1>7, <1>8

\* The root.
LEMMA RootNodeReadBack ==
  ASSUME NEW stem, AtMost(stem, 15343), NEW bytes, bytes = Branch(RootContents(stem))
  PROVE  bytes # <<>> /\ decode(bytes).list[2].bytes = stem
<1> DEFINE c == RootContents(stem)
           B == 15343
<1>1. SmallContents(c, 17, B)
  <2>1. AtMost(<<>>, B)
    BY SMT DEF AtMost
  <2>2. c = [i \in 1..17 |-> IF i = 2 THEN stem ELSE <<>>]
    BY DEF RootContents
  <2>3. B \in Nat /\ B <= 16000 /\ 17 \in 1..17
    BY SMT
  <2>4. AtMost(stem, B)
    BY SMT
  <2> HIDE DEF c, B
  <2>5. \A i \in 1..17 : AtMost(c[i], B)
    BY <2>1, <2>2, <2>4
  <2>6. c \in [1..17 -> Seq(Byte)]
    BY <2>2, <2>5 DEF AtMost
  <2>7. \A i \in 1..17 : Len(c[i]) <= B
    BY ONLY <2>5 DEF AtMost
  <2> QED
    BY <2>3, <2>6, <2>7 DEF SmallContents
<1>2. c[2] = stem
  BY DEF RootContents
<1> HIDE DEF c, B
<1>3. /\ Len(Branch(c)) >= 1
      /\ \A i \in 1..17 : decode(Branch(c)).list[i].bytes = c[i]
  BY <1>1, BranchReadBack
<1>4. bytes = Branch(c)
  BY DEF c
<1>5. bytes # <<>>
  <2>1. Len(bytes) >= 1 /\ Len(<<>>) = 0
    BY <1>3, <1>4
  <2> QED
    BY <2>1
<1> QED
  BY <1>2, <1>3, <1>4, <1>5

\* What a reader of these bytes finds under the two keys.
LEMMA TrieReadBack ==
  ASSUME NEW accts \in AccountMap
  PROVE  /\ ReadValue(EncodedRoot(accts), KeyBytes(Alice)) = AccountValue(accts[Alice])
         /\ ReadValue(EncodedRoot(accts), KeyBytes(Bob)) =
              IF HasB(accts) THEN AccountValue(accts[Bob]) ELSE <<>>
<1> DEFINE la == EncodedLeaf(accts, Alice)
           lb == EncodedLeaf(accts, Bob)
           b == IF HasB(accts) THEN lb ELSE <<>>
           st == EncodedStem(accts)
           ro == EncodedRoot(accts)
           va == AccountValue(accts[Alice])
           vb == AccountValue(accts[Bob])
<1>1. accts[Alice] \in Account /\ accts[Bob] \in Account
  BY InputAssumption DEF AccountMap
<1>2. AtMost(la, 893) /\ la # <<>> /\ decode(la).list[17].bytes = va
  BY <1>1, LeafReadBack DEF EncodedLeaf
<1>3. AtMost(lb, 893) /\ lb # <<>> /\ decode(lb).list[17].bytes = vb
  BY <1>1, LeafReadBack DEF EncodedLeaf
<1>4. st = Branch(StemContents(la, b)) /\ ro = Branch(RootContents(st))
  BY DEF EncodedStem, EncodedRoot
<1> HIDE DEF la, lb, st, ro, va, vb
<1>5. AtMost(b, 893)
  <2>1. AtMost(<<>>, 893)
    BY SMT DEF AtMost
  <2> QED
    BY <1>3, <2>1
<1> HIDE DEF b
<1>6. /\ AtMost(st, 15343) /\ st # <<>>
      /\ decode(st).list[3].bytes = la /\ decode(st).list[4].bytes = b
  BY <1>2, <1>4, <1>5, StemReadBack
<1>7. ro # <<>> /\ decode(ro).list[2].bytes = st
  BY <1>4, <1>6, RootNodeReadBack
<1>8. /\ KeyBytes(Alice) = <<18>> /\ KeyBytes(Bob) = <<19>>
      /\ toNibbles(<<18>>) = <<1, 2>> /\ toNibbles(<<19>>) = <<1, 3>>
  BY KeyNibbles DEF LeafA, LeafB
<1>9. ReadValue(ro, KeyBytes(Alice)) = va
  <2> DEFINE k == 2
             key == KeyBytes(Alice)
  <2>1. toNibbles(key) = <<1, k>> /\ k \in Nat /\ k + 1 = 3
    BY <1>8
  <2> HIDE DEF k, key
  <2>2. la = decode(st).list[k + 1].bytes /\ st = decode(ro).list[2].bytes
    BY <1>6, <1>7, <2>1
  <2>3. ReadValue(ro, key) = IF la = <<>> THEN <<>> ELSE decode(la).list[17].bytes
    BY ONLY <1>6, <1>7, <2>1, <2>2, ReadTwoDown
  <2> QED
    BY <1>2, <2>3 DEF key
<1>10. ReadValue(ro, KeyBytes(Bob)) = IF HasB(accts) THEN vb ELSE <<>>
  <2> DEFINE k == 3
             key == KeyBytes(Bob)
  <2>1. toNibbles(key) = <<1, k>> /\ k \in Nat /\ k + 1 = 4
    BY <1>8
  <2> HIDE DEF k, key
  <2>2. b = decode(st).list[k + 1].bytes /\ st = decode(ro).list[2].bytes
    BY <1>6, <1>7, <2>1
  <2>3. ReadValue(ro, key) = IF b = <<>> THEN <<>> ELSE decode(b).list[17].bytes
    BY ONLY <1>6, <1>7, <2>1, <2>2, ReadTwoDown
  <2> QED
    BY <1>3, <2>3 DEF key, b
<1> QED
  BY <1>9, <1>10 DEF ro, va, vb

\* The bytes behind the state root do not depend on the order of the walk
\* over the hash map, and every account reads back from them, an absent one as
\* absent.
THEOREM RootReadBack == Spec => []RootCommits
<1>1. InputInv => RootCommits
  <2> SUFFICES ASSUME InputInv PROVE RootCommits
    OBVIOUS
  <2> DEFINE one == RootInput(accounts, <<Alice, Bob>>)
             two == RootInput(accounts, <<Bob, Alice>>)
             va == AccountValue(accounts[Alice])
             vb == AccountValue(accounts[Bob])
  <2>1. accounts \in AccountMap /\ accounts[Alice].exists = TRUE
    BY DEF InputInv
  <2>2. accounts[Alice] \in Account /\ accounts[Bob] \in Account
    BY <2>1, InputAssumption DEF AccountMap
  <2>3. accounts[Bob].exists \in BOOLEAN
    BY <2>2 DEF Account
  <2>4. one = EncodedRoot(accounts) /\ two = EncodedRoot(accounts)
    BY <2>1, <2>3, RootInputTwo, TrieEitherOrder, EncodedTrie
  <2>5. /\ ReadValue(one, KeyBytes(Alice)) = va
        /\ ReadValue(one, KeyBytes(Bob)) = IF HasB(accounts) THEN vb ELSE <<>>
    BY <2>1, <2>4, TrieReadBack
  <2>6. /\ Len(va) >= 1 /\ Len(vb) >= 1
        /\ toUint(decode(va).list[1].bytes) = accounts[Alice].balance
        /\ toUint(decode(va).list[2].bytes) = accounts[Alice].nonce
        /\ toUint(decode(vb).list[1].bytes) = accounts[Bob].balance
        /\ toUint(decode(vb).list[2].bytes) = accounts[Bob].nonce
    BY <2>2, AccountBytes
  <2> HIDE DEF one, two, va, vb
  <2>7. va # <<>> /\ vb # <<>>
    <3>1. Len(<<>>) = 0
      OBVIOUS
    <3> QED
      BY <2>6, <3>1
  <2>8. ASSUME NEW a \in {Alice, Bob}
        PROVE  LET value == ReadValue(one, KeyBytes(a))
                   items == decode(value).list
               IN  IF accounts[a].exists
                   THEN /\ value # <<>>
                        /\ toUint(items[1].bytes) = accounts[a].balance
                        /\ toUint(items[2].bytes) = accounts[a].nonce
                   ELSE value = <<>>
    BY <2>1, <2>5, <2>6, <2>7 DEF HasB
  <2> QED
    BY <2>4, <2>8 DEF RootCommits, one, two
<1> QED
  BY <1>1, InputsInductive, PTL
=============================================================================
