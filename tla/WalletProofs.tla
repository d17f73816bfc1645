---------------------------- MODULE WalletProofs ----------------------------
(***************************************************************************)
(* Proofs about Mnemonic and Wallet: for all paths, phrases and numbers of *)
(* wallets and accounts, the file stays recoverable and behind the wallet, *)
(* and different paths give different addresses.                           *)
(***************************************************************************)
EXTENDS Wallet, RlpProofs

-----------------------------------------------------------------------------
(* The derivation of a key, one child after the other.                     *)

\* keys are the keys on the way from the root along the first n indices.
KeysOf(keys, root, indices, n) ==
  keys = [i \in 0..n |->
            IF i = 0 THEN root ELSE deriveChildKey(keys[i - 1], indices[i])]

\* The loop of deriveKeyFromPath has a result for every path.
LEMMA KeysExist ==
  ASSUME NEW n \in Nat, NEW root, NEW indices
  PROVE  \E keys : KeysOf(keys, root, indices, n)
<1> DEFINE step(keys, i) == IF i = 0 THEN root ELSE deriveChildKey(keys[i - 1], indices[i])
           S == {m \in Nat : \E keys : keys = [i \in 0..m |-> step(keys, i)]}
<1>1. 0 \in S
  <2> DEFINE g == [i \in 0..0 |-> root]
  <2>1. g = [i \in 0..0 |-> step(g, i)]
    OBVIOUS
  <2> QED
    BY <2>1
<1>2. ASSUME NEW m \in 1..n, m - 1 \in S
      PROVE  m \in S
  <2>1. PICK g : g = [i \in 0..(m - 1) |-> step(g, i)]
    BY <1>2
  <2> DEFINE h == [i \in 0..m |-> IF i < m THEN g[i] ELSE deriveChildKey(g[m - 1], indices[m])]
  <2>2. ASSUME NEW i \in 0..m PROVE h[i] = step(h, i)
    <3>1. CASE i = 0
      BY <2>1, <3>1
    <3>2. CASE i \in 1..(m - 1)
      <4>1. g[i] = deriveChildKey(g[i - 1], indices[i])
        BY <2>1, <3>2
      <4>2. h[i] = g[i] /\ h[i - 1] = g[i - 1]
        BY <3>2
      <4> QED
        BY <3>2, <4>1, <4>2
    <3>3. CASE i = m
      BY <2>1, <3>3
    <3> QED
      BY <3>1, <3>2, <3>3
  <2>3. h = [i \in 0..m |-> step(h, i)]
    BY <2>2
  <2>4. m \in Nat
    OBVIOUS
  <2> HIDE DEF h
  <2> QED
    BY <2>3, <2>4
<1> HIDE DEF S
<1>3. n \in S
  BY <1>1, <1>2, UpTo
<1> QED
  BY <1>3 DEF S, KeysOf

\* deriveKeyFromPath gives the last of the keys.
LEMMA DerivedKey ==
  ASSUME NEW phrase, NEW path \in Seq(Component)
  PROVE  \E keys : /\ KeysOf(keys, initializeFromSeed(mnemonicToSeed(phrase)),
                             parseBIP32Path(path), Len(path))
                   /\ deriveKeyFromPath(phrase, path) = keys[Len(path)]
<1> DEFINE root == initializeFromSeed(mnemonicToSeed(phrase))
           indices == parseBIP32Path(path)
           chosen == CHOOSE keys : KeysOf(keys, root, indices, Len(indices))
<1>1. Len(indices) = Len(path) /\ Len(indices) \in Nat
  BY DEF parseBIP32Path
<1> HIDE DEF root, indices
<1>2. \E keys : KeysOf(keys, root, indices, Len(indices))
  BY <1>1, KeysExist
<1>3. KeysOf(chosen, root, indices, Len(indices))
  BY <1>2
<1>4. deriveKeyFromPath(phrase, path) = chosen[Len(indices)]
  BY DEF deriveKeyFromPath, KeysOf, root, indices
<1> QED
  BY <1>1, <1>3, <1>4 DEF root, indices

\* The root key is nobody's child.
LEMMA RootNoChild ==
  ASSUME NEW seed, NEW parent, NEW index
  PROVE  initializeFromSeed(seed) # deriveChildKey(parent, index)
<1>1. initializeFromSeed(seed)[1] = "Bitcoin seed"
  BY DEF initializeFromSeed
<1>2. deriveChildKey(parent, index)[1] = "child"
  BY DEF deriveChildKey
<1> QED
  BY <1>1, <1>2

\* A child key has one parent and one index.
LEMMA OneParent ==
  ASSUME NEW p, NEW i, NEW q, NEW j, deriveChildKey(p, i) = deriveChildKey(q, j)
  PROVE  p = q /\ i = j
<1>1. deriveChildKey(p, i)[2] = p /\ deriveChildKey(p, i)[4] = i
  BY DEF deriveChildKey
<1>2. deriveChildKey(q, j)[2] = q /\ deriveChildKey(q, j)[4] = j
  BY DEF deriveChildKey
<1> QED
  BY <1>1, <1>2

\* Two chains of keys from one root meet only after the same indices.
LEMMA KeysApart ==
  ASSUME NEW seed,
         NEW a, NEW s, NEW m \in Nat, KeysOf(a, initializeFromSeed(seed), s, m),
         NEW b, NEW t, NEW n \in Nat, KeysOf(b, initializeFromSeed(seed), t, n),
         a[m] = b[n]
  PROVE  m = n /\ \A i \in 1..m : s[i] = t[i]
<1> DEFINE Same(i, k) == i = k /\ \A j \in 1..i : s[j] = t[j]
           S == {i \in 0..m : \A k \in 0..n : a[i] = b[k] => Same(i, k)}
<1>1. /\ a[0] = initializeFromSeed(seed)
      /\ \A i \in 1..m : a[i] = deriveChildKey(a[i - 1], s[i])
  BY DEF KeysOf
<1>2. /\ b[0] = initializeFromSeed(seed)
      /\ \A k \in 1..n : b[k] = deriveChildKey(b[k - 1], t[k])
  BY DEF KeysOf
<1>3. 0 \in S
  <2>1. \A k \in 1..n : a[0] # b[k]
    BY <1>1, <1>2, RootNoChild
  <2> QED
    BY <2>1
<1>4. ASSUME NEW i \in 1..m, i - 1 \in S
      PROVE  i \in S
  <2> SUFFICES ASSUME NEW k \in 0..n, a[i] = b[k]
               PROVE  Same(i, k)
    OBVIOUS
  <2>1. k \in 1..n
    BY <1>1, <1>2, RootNoChild
  <2>2. a[i - 1] = b[k - 1] /\ s[i] = t[k]
    BY <1>1, <1>2, <2>1, OneParent
  <2>3. Same(i - 1, k - 1)
    BY <1>4, <2>1, <2>2
  <2> QED
    BY <2>1, <2>2, <2>3
<1>5. m \in S
  <2>1. \A i \in 1..m : i - 1 \in S => i \in S
    BY <1>4
  <2> HIDE DEF S
  <2>2. 0..m \subseteq S
    BY <1>3, <2>1, UpTo
  <2> QED
    BY <2>2
<1> QED
  BY <1>5

\* As long as the numbers leave the top bit free, no two paths are parsed to
\* the same indices.
LEMMA ParsedApart ==
  ASSUME NEW p \in Seq(Component), NEW q \in Seq(Component), Regular(p), Regular(q),
         Len(p) = Len(q),
         \A i \in 1..Len(p) : parseBIP32Path(p)[i] = parseBIP32Path(q)[i]
  PROVE  p = q
<1>1. ASSUME NEW i \in 1..Len(p)
      PROVE  p[i] = q[i]
  <2>1. p[i] \in Component /\ q[i] \in Component
    OBVIOUS
  <2>2. /\ p[i].number \in Nat /\ p[i].number < Hardened /\ p[i].hardened \in BOOLEAN
        /\ q[i].number \in Nat /\ q[i].number < Hardened /\ q[i].hardened \in BOOLEAN
    BY <2>1 DEF Component, Regular
  <2> DEFINE x == p[i].number + (IF p[i].hardened THEN Hardened ELSE 0)
             y == q[i].number + (IF q[i].hardened THEN Hardened ELSE 0)
  <2>3. x \in Nat /\ x < IndexSize /\ y \in Nat /\ y < IndexSize /\ IndexSize \in Nat
    BY <2>2, WidthAssumption
  <2>4. x % IndexSize = y % IndexSize
    <3>1. parseBIP32Path(p)[i] = x % IndexSize
      BY DEF parseBIP32Path
    <3>2. parseBIP32Path(q)[i] = y % IndexSize
      BY DEF parseBIP32Path
    <3> QED
      BY <3>1, <3>2
  <2>5. x = y
    <3> HIDE DEF x, y
    <3> QED
      BY <2>3, <2>4
  <2>6. p[i].number = q[i].number /\ p[i].hardened = q[i].hardened
    BY <2>2, <2>5, WidthAssumption
  <2> QED
    BY <2>1, <2>6 DEF Component
<1> QED
  BY <1>1

\* Different paths give different keys.
LEMMA PathsToKeys ==
  ASSUME NEW phrase, NEW p \in Seq(Component), NEW q \in Seq(Component),
         Regular(p), Regular(q), deriveKeyFromPath(phrase, p) = deriveKeyFromPath(phrase, q)
  PROVE  p = q
<1>1. PICK a : /\ KeysOf(a, initializeFromSeed(mnemonicToSeed(phrase)), parseBIP32Path(p), Len(p))
               /\ deriveKeyFromPath(phrase, p) = a[Len(p)]
  BY DerivedKey
<1>2. PICK b : /\ KeysOf(b, initializeFromSeed(mnemonicToSeed(phrase)), parseBIP32Path(q), Len(q))
               /\ deriveKeyFromPath(phrase, q) = b[Len(q)]
  BY DerivedKey
<1>3. Len(p) \in Nat /\ Len(q) \in Nat
  OBVIOUS
<1>4. a[Len(p)] = b[Len(q)]
  BY <1>1, <1>2
<1>5. /\ Len(p) = Len(q)
      /\ \A i \in 1..Len(p) : parseBIP32Path(p)[i] = parseBIP32Path(q)[i]
  BY <1>1, <1>2, <1>3, <1>4, KeysApart
<1> QED
  BY <1>5, ParsedApart

-----------------------------------------------------------------------------
(* The inductive invariant.                                                *)

\* The accounts that a wallet with this phrase may have.
AccountsFor(phrase) ==
  {AccountOf(phrase, id[1], id[2]) : id \in (Names \cup {"Default"}) \X (Paths \cup {DefaultPath})}

\* The accounts of a wallet are derived from its phrase, and its salt was its
\* own when it was made, one of the first count.
WalletOK(w, count) ==
  /\ w = [phrase |-> w.phrase, salt |-> w.salt, accounts |-> w.accounts]
  /\ w.salt \in Nat /\ w.salt < count
  /\ w.accounts \in Seq(AccountsFor(w.phrase))

WalletInv == made \in Nat /\ (wallet # None => WalletOK(wallet, made))

\* While a save is under way the file is cut short; what is being saved is the
\* wallet at hand, or a new one with a later salt.
CallInv ==
  call # None =>
    /\ file = Torn
    /\ WalletOK(call.wallet, made)
    /\ call.making \in BOOLEAN
    /\ ~call.making => (wallet # None /\ wallet = call.wallet)
    /\ (call.making /\ wallet # None) => wallet.salt < call.wallet.salt

\* What the file lists of an account.
Listed(a) == [name |-> a.name, address |-> a.address, path |-> a.path]

\* A whole file lists accounts of the phrase sealed in it, and of the wallet at
\* hand, if it is that wallet's, the first ones.
FileInv ==
  /\ file.kind \in {"absent", "torn", "whole"}
  /\ file.kind = "whole" =>
       /\ file.accounts \in Seq({Listed(a) : a \in AccountsFor(file.sealed.phrase)})
       /\ (wallet # None /\ file.salt = wallet.salt) =>
            /\ file.sealed.phrase = wallet.phrase
            /\ Len(file.accounts) <= Len(wallet.accounts)
            /\ \A i \in 1..Len(file.accounts) : file.accounts[i] = Listed(wallet.accounts[i])

IInv == WalletInv /\ CallInv /\ FileInv

-----------------------------------------------------------------------------
(* It is inductive: one lemma per kind of step.                            *)

\* An account of the phrase is one of those a wallet may have.
LEMMA AccountFor ==
  ASSUME NEW phrase, NEW name \in Names \cup {"Default"}, NEW path \in Paths \cup {DefaultPath}
  PROVE  AccountOf(phrase, name, path) \in AccountsFor(phrase)
<1> DEFINE id == <<name, path>>
<1>1. id \in (Names \cup {"Default"}) \X (Paths \cup {DefaultPath}) /\ id[1] = name /\ id[2] = path
  OBVIOUS
<1> HIDE DEF id
<1> QED
  BY <1>1 DEF AccountsFor

\* A new wallet is as the invariant wants it, once it has been counted.
LEMMA NewWalletOK ==
  ASSUME NEW phrase, NEW n \in Nat
  PROVE  WalletOK(NewWallet(phrase, n), n + 1) /\ NewWallet(phrase, n).salt = n
<1> DEFINE a == AccountOf(phrase, "Default", DefaultPath)
           w == NewWallet(phrase, n)
<1>1. a \in AccountsFor(phrase)
  BY AccountFor
<1> HIDE DEF a
<1>2. <<a>> \in Seq(AccountsFor(phrase))
  BY <1>1
<1>3. w = [phrase |-> phrase, salt |-> n, accounts |-> <<a>>]
  BY DEF NewWallet, a
<1> HIDE DEF w
<1>4. w.phrase = phrase /\ w.salt = n /\ w.accounts = <<a>>
  BY <1>3
<1> QED
  BY <1>2, <1>3, <1>4 DEF w, WalletOK

\* A wallet that was counted stays so.
LEMMA StillOK ==
  ASSUME NEW w, NEW m \in Nat, NEW n \in Nat, m <= n, WalletOK(w, m)
  PROVE  WalletOK(w, n)
  BY DEF WalletOK

\* create and importMnemonic: the file is cut short for a new wallet.
LEMMA MakeStep ==
  ASSUME IInv, create \/ importMnemonic
  PROVE  IInv'
<1>1. PICK phrase, password :
        /\ file' = Torn
        /\ call' = [wallet |-> NewWallet(phrase, made), password |-> password, making |-> TRUE]
  BY DEF create, importMnemonic, OpenFile
<1>2. made' = made + 1 /\ made \in Nat /\ wallet' = wallet
  BY DEF create, importMnemonic, IInv, WalletInv
<1>3. /\ call'.wallet = NewWallet(phrase, made) /\ call'.making = TRUE
  BY <1>1
<1>4. WalletOK(call'.wallet, made') /\ call'.wallet.salt = made
  BY <1>2, <1>3, NewWalletOK
<1>5. wallet' # None => WalletOK(wallet', made') /\ wallet'.salt < made
  <2>1. wallet # None => WalletOK(wallet, made + 1) /\ wallet.salt < made
    BY <1>2, StillOK DEF IInv, WalletInv, WalletOK
  <2> QED
    BY <1>2, <2>1
<1>6. WalletInv'
  BY <1>2, <1>5 DEF WalletInv
<1>7. CallInv'
  BY <1>1, <1>3, <1>4, <1>5 DEF CallInv
<1>8. FileInv'
  BY <1>1 DEF FileInv, Torn
<1> QED
  BY <1>6, <1>7, <1>8 DEF IInv

\* save: the file is cut short for the wallet at hand.
LEMMA SaveStep ==
  ASSUME IInv, save
  PROVE  IInv'
<1>1. PICK password :
        /\ file' = Torn
        /\ call' = [wallet |-> wallet, password |-> password, making |-> FALSE]
  BY DEF save, OpenFile
<1>2. wallet # None /\ UNCHANGED <<wallet, made>>
  BY DEF save
<1>3. call'.wallet = wallet /\ call'.making = FALSE
  BY <1>1
<1>4. WalletInv'
  BY <1>2 DEF IInv, WalletInv
<1>5. CallInv'
  BY <1>1, <1>2, <1>3 DEF CallInv, IInv, WalletInv
<1>6. FileInv'
  BY <1>1 DEF FileInv, Torn
<1> QED
  BY <1>4, <1>5, <1>6 DEF IInv

\* f is whole and lists the accounts of w.
WholeOf(f, w) ==
  /\ f.kind = "whole" /\ f.salt = w.salt /\ f.sealed.phrase = w.phrase
  /\ f.accounts \in Seq({Listed(a) : a \in AccountsFor(w.phrase)})
  /\ Len(f.accounts) = Len(w.accounts)
  /\ \A i \in 1..Len(f.accounts) : f.accounts[i] = Listed(w.accounts[i])

\* What save writes for a wallet.
LEMMA ContentsOf ==
  ASSUME NEW w, NEW n, WalletOK(w, n), NEW password
  PROVE  WholeOf(Contents(w, password), w)
<1> DEFINE f == Contents(w, password)
           A == AccountsFor(w.phrase)
           L == {Listed(a) : a \in A}
           s == w.accounts
           l == [i \in DOMAIN s |-> Listed(s[i])]
<1>1. f.kind = "whole" /\ f.salt = w.salt /\ f.sealed.phrase = w.phrase /\ f.accounts = l
  BY DEF Contents, Listed
<1>2. s \in Seq(A)
  BY DEF WalletOK
<1> HIDE DEF f, A, s
<1>3. \A i \in DOMAIN s : Listed(s[i]) \in L
  BY <1>2
<1> HIDE DEF L
<1>4. l \in Seq(L) /\ Len(l) = Len(s) /\ \A i \in 1..Len(l) : l[i] = Listed(s[i])
  BY <1>2, <1>3
<1> QED
  BY <1>1, <1>4 DEF f, A, L, s, WholeOf

\* The end of a save: the file is whole and that of the wallet saved, or it
\* stays cut short. A wallet that is not the one saved has another salt.
LEMMA SaveEndStep ==
  ASSUME IInv, SaveEnd
  PROVE  IInv'
<1>1. /\ call # None /\ call' = None /\ made' = made
      /\ file' \in {Contents(call.wallet, call.password), Torn}
      /\ wallet' = wallet \/ (call.making /\ wallet' = call.wallet)
  BY DEF SaveEnd
<1>2. /\ WalletOK(call.wallet, made)
      /\ wallet # None => WalletOK(wallet, made)
      /\ (wallet # None /\ wallet.salt = call.wallet.salt) => wallet = call.wallet
  BY <1>1 DEF IInv, WalletInv, CallInv, WalletOK
<1>3. WalletInv'
  BY <1>1, <1>2 DEF IInv, WalletInv
<1>4. CallInv'
  BY <1>1 DEF CallInv
<1>5. FileInv'
  <2>1. CASE file' = Torn
    BY <2>1 DEF FileInv, Torn
  <2>2. CASE file' = Contents(call.wallet, call.password)
    <3> DEFINE w == call.wallet
    <3>1. WholeOf(file', w)
      BY <1>2, <2>2, ContentsOf
    <3>2. (wallet' # None /\ w.salt = wallet'.salt) => wallet' = w
      BY <1>1, <1>2
    <3>3. Len(w.accounts) \in Nat
      BY <1>2 DEF WalletOK
    <3> HIDE DEF w
    <3> QED
      BY <3>1, <3>2, <3>3 DEF FileInv, WholeOf
  <2> QED
    BY <1>1, <2>1, <2>2
<1> QED
  BY <1>3, <1>4, <1>5 DEF IInv

\* addAccount: the wallet moves on, the file stays behind.
LEMMA AddStep ==
  ASSUME IInv, NEW name \in Names, NEW path \in Paths, addAccount(name, path)
  PROVE  IInv'
<1> DEFINE new == AccountOf(wallet.phrase, name, path)
           A == AccountsFor(wallet.phrase)
           s == wallet.accounts
<1>1. /\ call = None /\ wallet # None /\ UNCHANGED <<call, file, made>>
      /\ wallet' = [wallet EXCEPT !.accounts = Append(@, new)]
  BY DEF addAccount
<1>2. WalletOK(wallet, made)
  BY <1>1 DEF IInv, WalletInv
<1>3. new \in A
  BY AccountFor
<1>4. /\ wallet = [phrase |-> wallet.phrase, salt |-> wallet.salt, accounts |-> s]
      /\ s \in Seq(A)
  BY <1>2 DEF WalletOK
<1> HIDE DEF new, A, s
<1>5. wallet' = [phrase |-> wallet.phrase, salt |-> wallet.salt, accounts |-> Append(s, new)]
  BY <1>1, <1>4
<1>6. wallet'.phrase = wallet.phrase /\ wallet'.salt = wallet.salt
      /\ wallet'.accounts = Append(s, new)
  BY <1>5
<1>7. /\ Append(s, new) \in Seq(A) /\ Len(s) \in Nat /\ Len(Append(s, new)) = Len(s) + 1
      /\ \A i \in 1..Len(s) : Append(s, new)[i] = s[i]
  BY <1>3, <1>4
<1>8. WalletInv'
  BY <1>1, <1>2, <1>5, <1>6, <1>7 DEF WalletInv, WalletOK, IInv, A
<1>9. CallInv'
  BY <1>1 DEF CallInv
<1>10. FileInv'
  <2>1. /\ file.kind \in {"absent", "torn", "whole"}
        /\ file.kind = "whole" => file.accounts \in Seq({Listed(a) : a \in AccountsFor(file.sealed.phrase)})
    BY DEF IInv, FileInv
  <2>2. ASSUME file.kind = "whole", file.salt = wallet'.salt
        PROVE  /\ file.sealed.phrase = wallet'.phrase
               /\ Len(file.accounts) <= Len(wallet'.accounts)
               /\ \A i \in 1..Len(file.accounts) : file.accounts[i] = Listed(wallet'.accounts[i])
    <3>1. /\ file.sealed.phrase = wallet.phrase
          /\ Len(file.accounts) <= Len(s)
          /\ \A i \in 1..Len(file.accounts) : file.accounts[i] = Listed(s[i])
      BY <1>1, <1>6, <2>2 DEF IInv, FileInv, s
    <3>2. Len(file.accounts) \in Nat
      BY <2>1, <2>2
    <3> QED
      BY <1>6, <1>7, <3>1, <3>2
  <2> QED
    BY <1>1, <2>1, <2>2 DEF FileInv
<1> QED
  BY <1>8, <1>9, <1>10 DEF IInv

\* The steps that change neither the wallet, the file nor the count, and the
\* end of the program.
LEMMA OtherStep ==
  ASSUME IInv, exportMnemonic \/ Check \/ Throws \/ Exit \/ UNCHANGED vars
  PROVE  IInv'
<1>1. CASE Exit
  BY <1>1 DEF Exit, IInv, WalletInv, CallInv, FileInv
<1>2. CASE exportMnemonic \/ Check \/ Throws \/ UNCHANGED vars
  <2>1. UNCHANGED <<wallet, call, file, made>>
    BY <1>2 DEF exportMnemonic, Check, Throws, vars
  <2> QED
    BY <2>1 DEF IInv, WalletInv, CallInv, FileInv
<1> QED
  BY <1>1, <1>2

\* The invariant holds in every state of every behaviour.
THEOREM Inductive == Spec => []IInv
<1>1. Init => IInv
  BY DEF Init, IInv, WalletInv, CallInv, FileInv, Absent
<1>2. IInv /\ [Next]_vars => IInv'
  BY MakeStep, SaveStep, SaveEndStep, AddStep, OtherStep DEF Next
<1> QED
  BY <1>1, <1>2, PTL DEF Spec

-----------------------------------------------------------------------------
(* The properties.                                                         *)

\* A file that is whole can be recovered from the phrase sealed in it.
THEOREM Recoverable == Spec => []FileRecoverable
<1>1. IInv => FileRecoverable
  <2> SUFFICES ASSUME IInv, file.kind = "whole", NEW i \in DOMAIN file.accounts
               PROVE  file.accounts[i].address =
                        addressOf(deriveKeyFromPath(file.sealed.phrase, file.accounts[i].path))
    BY DEF FileRecoverable
  <2>1. file.accounts[i] \in {Listed(a) : a \in AccountsFor(file.sealed.phrase)}
    BY DEF IInv, FileInv
  <2>2. PICK a \in AccountsFor(file.sealed.phrase) : file.accounts[i] = Listed(a)
    BY <2>1
  <2>3. a.address = addressOf(deriveKeyFromPath(file.sealed.phrase, a.path))
    BY DEF AccountsFor, AccountOf
  <2> QED
    BY <2>2, <2>3 DEF Listed
<1> QED
  BY <1>1, Inductive, PTL

\* The file of the wallet at hand lists the wallet's first accounts.
THEOREM Behind == Spec => []FileBehind
<1>1. IInv => FileBehind
  <2> SUFFICES ASSUME IInv, file.kind = "whole", wallet # None, file.salt = wallet.salt
               PROVE  /\ file.sealed.phrase = wallet.phrase
                      /\ Len(file.accounts) <= Len(wallet.accounts)
                      /\ file.accounts = SubSeq(Contents(wallet, file.sealed.password).accounts,
                                                1, Len(file.accounts))
    BY DEF FileBehind
  <2> DEFINE f == file.accounts
             c == Contents(wallet, file.sealed.password).accounts
             L == {Listed(a) : a \in AccountsFor(wallet.phrase)}
  <2>1. /\ file.sealed.phrase = wallet.phrase
        /\ Len(f) <= Len(wallet.accounts)
        /\ \A i \in 1..Len(f) : f[i] = Listed(wallet.accounts[i])
        /\ f \in Seq(L)
    BY DEF IInv, FileInv
  <2>2. WalletOK(wallet, made)
    BY DEF IInv, WalletInv
  <2>3. /\ c \in Seq(L) /\ Len(c) = Len(wallet.accounts)
        /\ \A i \in 1..Len(c) : c[i] = Listed(wallet.accounts[i])
    BY <2>2, ContentsOf DEF WholeOf
  <2> HIDE DEF f, c, L
  <2>4. \A i \in 1..Len(f) : f[i] = c[i]
    BY <2>1, <2>3
  <2>5. SubSeq(c, 1, Len(f)) = f
    BY <2>1, <2>3, <2>4
  <2> QED
    BY <2>1, <2>5 DEF f, c
<1> QED
  BY <1>1, Inductive, PTL

\* The key of an address: getAccount finds an account with it, and all of them
\* have the same key.
LEMMA KeyExported ==
  ASSUME NEW w, NEW n, WalletOK(w, n), NEW i \in DOMAIN w.accounts
  PROVE  exportPrivateKey(w, w.accounts[i].address) = w.accounts[i].key
<1> DEFINE s == w.accounts
           address == s[i].address
           S == {k \in DOMAIN s : s[k].address = address}
           first == CHOOSE k \in DOMAIN s : /\ s[k].address = address
                                            /\ \A j \in 1..(k - 1) : s[j].address # address
<1>1. s \in Seq(AccountsFor(w.phrase)) /\ DOMAIN s = 1..Len(s) /\ Len(s) \in Nat
  BY DEF WalletOK
<1>2. \A k \in DOMAIN s : s[k].address = <<"address", s[k].key>>
  <2>1. SUFFICES ASSUME NEW k \in DOMAIN s PROVE s[k].address = <<"address", s[k].key>>
    OBVIOUS
  <2>2. s[k] \in AccountsFor(w.phrase)
    BY <1>1
  <2> QED
    BY <2>2 DEF AccountsFor, AccountOf, addressOf
<1> HIDE DEF s
<1>3. PICK k \in S : \A j \in S : k <= j
  <2>1. S \in SUBSET Nat /\ S # {}
    BY <1>1 DEF s
  <2> HIDE DEF S
  <2> QED
    BY <2>1, LeastNat
<1>4. \E k2 \in DOMAIN s : /\ s[k2].address = address
                           /\ \A j \in 1..(k2 - 1) : s[j].address # address
  BY <1>1, <1>3
<1>5. first \in DOMAIN s /\ s[first].address = address
  BY <1>4
<1>6. exportPrivateKey(w, address) = s[first].key
  BY DEF exportPrivateKey, getAccount, s
<1> HIDE DEF first
<1>7. <<"address", s[first].key>> = <<"address", s[i].key>>
  BY <1>2, <1>5 DEF s
<1> QED
  BY <1>6, <1>7 DEF s

\* Accounts share an address exactly when they share a path whose numbers leave
\* the top bit free, and the key exported for an address is that of all of them.
THEOREM Apart == Spec => []PathsApart
<1>1. IInv => PathsApart
  <2> SUFFICES ASSUME IInv, wallet # None,
                      NEW i \in DOMAIN wallet.accounts, NEW j \in DOMAIN wallet.accounts
               PROVE  LET a == wallet.accounts[i]
                          b == wallet.accounts[j]
                      IN  /\ (Regular(a.path) /\ Regular(b.path)) =>
                               (a.address = b.address <=> a.path = b.path)
                          /\ exportPrivateKey(wallet, a.address) = a.key
    BY DEF PathsApart
  <2> DEFINE a == wallet.accounts[i]
             b == wallet.accounts[j]
             Derived(x) == /\ x.path \in Seq(Component)
                           /\ x.address = <<"address", deriveKeyFromPath(wallet.phrase, x.path)>>
  <2>1. WalletOK(wallet, made)
    BY DEF IInv, WalletInv
  <2>2. a \in AccountsFor(wallet.phrase) /\ b \in AccountsFor(wallet.phrase)
    BY <2>1 DEF WalletOK
  <2>3. \A x \in AccountsFor(wallet.phrase) : Derived(x)
    BY PathsAssumption DEF AccountsFor, AccountOf, addressOf
  <2>4. exportPrivateKey(wallet, a.address) = a.key
    BY <2>1, KeyExported
  <2> HIDE DEF a, b
  <2>5. Derived(a) /\ Derived(b)
    BY <2>2, <2>3
  <2>6. a.address = b.address =>
          deriveKeyFromPath(wallet.phrase, a.path) = deriveKeyFromPath(wallet.phrase, b.path)
    BY <2>5
  <2>7. (Regular(a.path) /\ Regular(b.path) /\ a.address = b.address) => a.path = b.path
    BY <2>5, <2>6, PathsToKeys
  <2>8. a.path = b.path => a.address = b.address
    BY <2>5
  <2> QED
    BY <2>4, <2>7, <2>8 DEF a, b
<1> QED
  BY <1>1, Inductive, PTL

-----------------------------------------------------------------------------
(* Phrases.                                                                *)

\* In a long phrase the number of entropy bytes that validateMnemonic computes
\* is the one of BIP39, and these bytes are all that precedes the checksum.
LEMMA LongSize ==
  LET size == Long * WordBits - Long \div 3
  IN  /\ entropyBytes(Long) * ByteBits = size
      /\ size \div ByteBits = entropyBytes(Long)
<1> DEFINE total == Long * WordBits
           q     == total \div ByteBits
<1>1. total \in Nat /\ ByteBits \in Nat /\ ByteBits # 0 /\ Long \div 3 = ByteBits
  BY WidthAssumption, LongAssumption
<1>2. total > 0
  BY WidthAssumption, LongAssumption
<1>3. total % ByteBits = 0
  BY LongAssumption
<1>4. entropyBytes(Long) = q - 1
  BY DEF entropyBytes
<1> HIDE DEF total
<1>5. total = q * ByteBits /\ q \in Nat
  BY <1>1, <1>3, DivTimes
<1> HIDE DEF q
<1>6. q - 1 \in Nat /\ (q - 1) * ByteBits = total - ByteBits
  BY <1>1, <1>2, <1>5
<1>7. (ByteBits * (q - 1)) \div ByteBits = q - 1
  BY <1>1, <1>6, TimesDiv
<1>8. ByteBits * (q - 1) = total - ByteBits
  BY <1>1, <1>6
<1>9. (total - ByteBits) \div ByteBits = q - 1
  BY <1>7, <1>8
<1> QED
  BY <1>1, <1>4, <1>6, <1>9 DEF total

\* What validateMnemonic says of a phrase that is a sequence of words.
LEMMA PhraseVerdict ==
  ASSUME NEW words, words \in Seq({words[i] : i \in DOMAIN words}),
         NEW phrase, phrase.words = words
  PROVE  /\ validateMnemonic(phrase) => /\ Len(words) \in {Short, Long}
                                        /\ \A i \in DOMAIN words : InList(words[i])
         /\ (Len(words) = Long /\ \A i \in DOMAIN words : InList(words[i])) =>
              (validateMnemonic(phrase) <=> BIP39Valid(words))
<1>1. DOMAIN words = 1..Len(words)
  OBVIOUS
<1>2. validateMnemonic(phrase) => /\ Len(words) \in {Short, Long}
                                  /\ \A i \in DOMAIN words : InList(words[i])
  BY <1>1 DEF validateMnemonic
<1>3. ASSUME Len(words) = Long, \A i \in DOMAIN words : InList(words[i])
      PROVE  validateMnemonic(phrase) <=> BIP39Valid(words)
  BY <1>1, <1>3, LongSize DEF validateMnemonic, BIP39Valid
<1> QED
  BY <1>2, <1>3

\* The verdict at hand is the one on a phrase that was checked.
VerdictInv ==
  verdict # None => \E phrase \in Checked :
    verdict = [phrase |-> phrase, valid |-> validateMnemonic(phrase)]

\* validateMnemonic accepts no phrase of a wrong length or with an unknown word
\* and of the long phrases exactly the valid ones, for every width of words and
\* bytes in which a long phrase's checksum is a byte and fills whole bytes.
THEOREM LongExact == Spec => []LongPhrasesExact
<1>1. Init => VerdictInv
  BY DEF Init, VerdictInv
<1>2. VerdictInv /\ [Next]_vars => VerdictInv'
  <2> SUFFICES ASSUME VerdictInv, [Next]_vars PROVE VerdictInv'
    OBVIOUS
  <2>1. CASE Check
    BY <2>1 DEF Check, VerdictInv
  <2>2. CASE verdict' = verdict
    BY <2>2 DEF VerdictInv
  <2>3. CASE verdict' = None
    BY <2>3 DEF VerdictInv
  <2> QED
    BY <2>1, <2>2, <2>3 DEF Next, vars, create, importMnemonic, save, SaveEnd, addAccount,
       exportMnemonic, Throws, Exit
<1>3. VerdictInv => LongPhrasesExact
  <2> SUFFICES ASSUME VerdictInv, verdict # None PROVE LongPhrasesExact
    BY DEF LongPhrasesExact
  <2>1. PICK phrase \in Checked :
          verdict = [phrase |-> phrase, valid |-> validateMnemonic(phrase)]
    BY DEF VerdictInv
  <2>2. verdict.phrase = phrase /\ verdict.valid = validateMnemonic(phrase)
    BY <2>1
  <2> QED
    BY <2>2, PhraseVerdict, CheckedAssumption DEF LongPhrasesExact
<1> QED
  BY <1>1, <1>2, <1>3, PTL DEF Spec
=============================================================================
