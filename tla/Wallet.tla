------------------------------- MODULE Wallet -------------------------------
(***************************************************************************)
(* The class Wallet (src/wallet.cpp): one program that makes wallets,      *)
(* imports phrases, adds accounts and saves, always to one file path, and  *)
(* that may end at any point (the command line of app/main.cpp is one such *)
(* program). The file outlives the program; so does what its user has      *)
(* noted down.                                                             *)
(*                                                                         *)
(* save truncates the file when it opens it and then writes it anew: these *)
(* are two steps, and the program may end between them. Errors of the      *)
(* writes are not looked at. Nothing reads the file: load always throws.   *)
(***************************************************************************)
EXTENDS Mnemonic

CONSTANTS
  Entropies,   \* what secureRandomBytes yields for generateMnemonic
  Offered,     \* phrases that a user has from elsewhere
  Checked,     \* phrases that are only checked
  Names,       \* names of accounts
  Paths,       \* derivation paths, sequences of components
  DefaultPath, \* m/44'/60'/0'/0/0
  Passwords,
  None,        \* no wallet, no call, no verdict
  MaxWallets,  \* bound: wallets made, whose salts all differ
  MaxAccounts  \* bound: accounts of a wallet

ASSUME PathsAssumption == Paths \cup {DefaultPath} \subseteq Seq(Component)
ASSUME CheckedAssumption ==
  \A phrase \in Checked : phrase.words \in Seq({phrase.words[i] : i \in DOMAIN phrase.words})

VARIABLES
  wallet,      \* the wallet the program uses, or None
  call,        \* the save under way: its wallet, its password and whether
               \* create or importMnemonic called it; or None
  file,        \* the file: absent, torn (cut short) or whole
  noted,       \* the phrases that were exported
  made,        \* how many wallets have been made; gives the next salt
  verdict      \* the last call of validateMnemonic and its result, or None

vars == <<wallet, call, file, noted, made, verdict>>

Absent == [kind |-> "absent"]
Torn   == [kind |-> "torn"]

Init ==
  /\ wallet = None
  /\ call = None
  /\ file = Absent
  /\ noted = {}
  /\ made = 0
  /\ verdict = None

-----------------------------------------------------------------------------
(* Making a wallet: salt, seed, first account.                             *)

AccountOf(phrase, name, path) ==
  LET key == deriveKeyFromPath(phrase, path)
  IN  [name |-> name, path |-> path, key |-> key, address |-> addressOf(key)]

NewWallet(phrase, salt) ==
  [phrase |-> phrase, salt |-> salt,
   accounts |-> <<AccountOf(phrase, "Default", DefaultPath)>>]

\* save up to the opening of the file.
OpenFile(w, making) ==
  /\ call = None
  /\ file' = Torn
  /\ \E password \in Passwords :
       call' = [wallet |-> w, password |-> password, making |-> making]

create ==
  /\ made < MaxWallets
  /\ \E entropy \in Entropies : OpenFile(NewWallet(generateMnemonic(entropy), made), TRUE)
  /\ made' = made + 1
  /\ verdict' = None
  /\ UNCHANGED <<wallet, noted>>

\* Mutant: the accounts of the wallet at hand are kept.
importMnemonicKeeping ==
  /\ made < MaxWallets
  /\ \E phrase \in noted \cup Offered :
       /\ validateMnemonic(phrase)
       /\ LET new == NewWallet(phrase, made)
          IN  OpenFile(IF wallet = None THEN new
                       ELSE [new EXCEPT !.accounts = wallet.accounts \o @], TRUE)
  /\ made' = made + 1
  /\ verdict' = None
  /\ UNCHANGED <<wallet, noted>>

importMnemonic ==
  /\ made < MaxWallets
  /\ \E phrase \in noted \cup Offered :
       /\ validateMnemonic(phrase)
       /\ OpenFile(NewWallet(phrase, made), TRUE)
  /\ made' = made + 1
  /\ verdict' = None
  /\ UNCHANGED <<wallet, noted>>

-----------------------------------------------------------------------------
(* Saving.                                                                 *)

save ==
  /\ wallet # None
  /\ OpenFile(wallet, FALSE)
  /\ verdict' = None
  /\ UNCHANGED <<wallet, noted, made>>

\* The phrase is encrypted with a key from the password and the salt; of an
\* account, name, address and path are written.
Contents(w, password) ==
  [kind |-> "whole", salt |-> w.salt,
   sealed |-> [phrase |-> w.phrase, password |-> password, salt |-> w.salt],
   accounts |-> [i \in DOMAIN w.accounts |->
                   [name |-> w.accounts[i].name, address |-> w.accounts[i].address,
                    path |-> w.accounts[i].path]]]

\* The writes succeed, or one fails and nobody notices. The call returns; after
\* create or importMnemonic the program goes on with the new wallet or with the
\* one it had, which it may then save over the other.
SaveEnd ==
  /\ call # None
  /\ file' \in {Contents(call.wallet, call.password), Torn}
  /\ wallet' \in (IF call.making THEN {call.wallet, wallet} ELSE {wallet})
  /\ call' = None
  /\ UNCHANGED <<noted, made, verdict>>

-----------------------------------------------------------------------------
(* The other operations.                                                   *)

\* Mutant: an account replaces the one of the same name.
addAccountReplacing(name, path) ==
  /\ call = None /\ wallet # None
  /\ Len(wallet.accounts) < MaxAccounts
  /\ LET new == AccountOf(wallet.phrase, name, path)
         old == {i \in DOMAIN wallet.accounts : wallet.accounts[i].name = name}
     IN  wallet' = IF old = {} THEN [wallet EXCEPT !.accounts = Append(@, new)]
                   ELSE [wallet EXCEPT !.accounts =
                           [i \in DOMAIN @ |-> IF i \in old THEN new ELSE @[i]]]
  /\ verdict' = None
  /\ UNCHANGED <<call, file, noted, made>>

\* In memory only; names and paths may repeat.
addAccount(name, path) ==
  /\ call = None /\ wallet # None
  /\ Len(wallet.accounts) < MaxAccounts
  /\ wallet' = [wallet EXCEPT !.accounts = Append(@, AccountOf(wallet.phrase, name, path))]
  /\ verdict' = None
  /\ UNCHANGED <<call, file, noted, made>>

\* getAccount: the first account with an address.
getAccount(w, address) ==
  w.accounts[CHOOSE i \in DOMAIN w.accounts :
               /\ w.accounts[i].address = address
               /\ \A j \in 1..(i - 1) : w.accounts[j].address # address]

\* The password is not looked at.
exportPrivateKey(w, address) == getAccount(w, address).key

exportMnemonic ==
  /\ call = None /\ wallet # None
  /\ noted' = noted \cup {wallet.phrase}
  /\ verdict' = None
  /\ UNCHANGED <<wallet, call, file, made>>

\* validateMnemonic as a call of its own; bound: once, before
\* any wallet is made.
Check ==
  /\ call = None /\ made = 0 /\ verdict = None
  /\ \E phrase \in Checked :
       verdict' = [phrase |-> phrase, valid |-> validateMnemonic(phrase)]
  /\ UNCHANGED <<wallet, call, file, noted, made>>

\* The calls that throw before they have changed anything: importMnemonic of a
\* phrase that is not valid, load in any case, save where the file cannot be
\* opened, addAccount with a path that cannot be parsed.
Throws == call = None /\ UNCHANGED vars

\* The program ends, by itself or not.
Exit ==
  /\ wallet # None \/ call # None
  /\ wallet' = None
  /\ call' = None
  /\ verdict' = None
  /\ UNCHANGED <<file, noted, made>>

Next ==
  \/ create
  \/ importMnemonic
  \/ save
  \/ SaveEnd
  \/ \E name \in Names, path \in Paths : addAccount(name, path)
  \/ exportMnemonic
  \/ Check
  \/ Throws
  \/ Exit

Spec == Init /\ [][Next]_vars

-----------------------------------------------------------------------------
(* Properties.                                                             *)

\* The number of a path's component is below the first hardened index.
Regular(path) == \A i \in DOMAIN path : path[i].number < Hardened

\* A file that is whole has in it all that it takes to get at the accounts it
\* lists: they are derived from the phrase sealed in it. No file mixes two
\* wallets, although wallets are made and imported over one another, are saved
\* over one another later, and saves end half way.
FileRecoverable ==
  file.kind = "whole" =>
    \A i \in DOMAIN file.accounts :
      file.accounts[i].address =
        addressOf(deriveKeyFromPath(file.sealed.phrase, file.accounts[i].path))

\* The file of the wallet at hand is behind and never apart: it lists the
\* accounts the wallet had at some save, all of which the wallet still has.
FileBehind ==
  (file.kind = "whole" /\ wallet # None) =>
    (file.salt = wallet.salt =>
      /\ file.sealed.phrase = wallet.phrase
      /\ Len(file.accounts) <= Len(wallet.accounts)
      /\ file.accounts = SubSeq(Contents(wallet, file.sealed.password).accounts,
                                1, Len(file.accounts)))

\* Two accounts of a wallet share an address exactly when they share a path,
\* as long as the numbers of the path leave the top bit of the index free, and
\* the key exported for an address is the key of every account that has it.
PathsApart ==
  wallet # None =>
    \A i, j \in DOMAIN wallet.accounts :
      LET a == wallet.accounts[i]
          b == wallet.accounts[j]
      IN  /\ (Regular(a.path) /\ Regular(b.path)) =>
               (a.address = b.address <=> a.path = b.path)
          /\ exportPrivateKey(wallet, a.address) = a.key

\* BIP39 for a phrase of listed words: a third as many checksum bits as there
\* are words follow the entropy and are the leading bits of its hash.
BIP39Valid(words) ==
  LET count   == Len(words)
      bits    == Bits([i \in 1..count |-> IndexOf(words[i])], WordBits)
      sumBits == count \div 3
      size    == count * WordBits - sumBits
  IN  SubSeq(bits, size + 1, size + sumBits)
        = Checksum(Groups(bits, ByteBits, size \div ByteBits), sumBits)

\* validateMnemonic accepts no phrase of another length or with a word that is
\* not in the list, and of the phrases of 24 words it accepts exactly the valid
\* ones, although it computes the number of entropy bytes in a way of its own.
\* (Of 12 words it takes one byte too few as entropy.)
LongPhrasesExact ==
  verdict # None =>
    LET words == verdict.phrase.words
    IN  /\ verdict.valid => /\ Len(words) \in {Short, Long}
                            /\ \A i \in DOMAIN words : InList(words[i])
        /\ (Len(words) = Long /\ \A i \in DOMAIN words : InList(words[i])) =>
             (verdict.valid <=> BIP39Valid(words))
=============================================================================
