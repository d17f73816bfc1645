---------------------------- MODULE LedgerProofs ----------------------------
(***************************************************************************)
(* What the operators of Ledger compute, for every word width: the checks  *)
(* of validateTransaction are exact, and applyTransaction keeps accounts   *)
(* well formed.                                                            *)
(***************************************************************************)
EXTENDS Ledger, RlpProofs

\* Wrap-around yields a word, and leaves a word as it is.
LEMMA WrapWord ==
  ASSUME NEW n \in Nat
  PROVE  Wrap(n) \in Word /\ Wrap(n) <= n /\ (n <= MaxUint => Wrap(n) = n)
  BY MaxUintAssumption DEF Wrap, Word

\* validateTransaction's overflow-aware comparison accepts a transaction
\* exactly when the balance covers gasPrice * gasLimit + value, for every
\* word width and every input.
THEOREM FundsExact ==
  ASSUME NEW tx \in Transaction, NEW balance \in Word
  PROVE  FundsOk(tx, balance) <=> Affordable(tx, balance)
<1> DEFINE p == tx.gasPrice
           l == tx.gasLimit
           v == tx.value
           cost == Wrap(p * l)
<1>1. p \in Nat /\ l \in Nat /\ v \in Nat /\ v <= MaxUint /\ l <= MaxUint
  BY MaxUintAssumption DEF Transaction, Word
<1>2. p * l \in Nat
  BY <1>1
<1>3. cost \in Nat /\ cost <= MaxUint /\ cost <= p * l /\ (p * l <= MaxUint => cost = p * l)
  BY <1>2, WrapWord, MaxUintAssumption DEF Word
<1>4. balance \in Nat /\ balance <= MaxUint
  BY MaxUintAssumption DEF Word
<1> HIDE DEF p, l, v, cost
<1>5. FundsOk(tx, balance) <=>
        /\ ~(p # 0 /\ cost \div p # l)
        /\ ~(Wrap(cost + v) < cost)
        /\ ~(balance < Wrap(cost + v))
  BY DEF FundsOk, p, l, v, cost
<1>6. Affordable(tx, balance) <=> p * l + v <= balance
  BY DEF Affordable, p, l, v
<1>7. CASE p * l <= MaxUint
  <2>1. cost = p * l
    BY <1>3, <1>7
  <2>2. ~(p # 0 /\ cost \div p # l)
    BY <2>1, <1>1, TimesDiv
  <2>3. cost + v \in Nat
    BY <1>1, <1>3
  <2>4. CASE cost + v <= MaxUint
    <3>1. Wrap(cost + v) = cost + v
      BY <2>3, <2>4, WrapWord
    <3> QED
      BY <3>1, <2>1, <2>2, <1>1, <1>3, <1>4, <1>5, <1>6
  <2>5. CASE cost + v > MaxUint
    <3>1. Wrap(cost + v) < cost
      <4>1. (cost + v) % (MaxUint + 1) = cost + v - (MaxUint + 1)
        BY <2>5, <1>1, <1>3, MaxUintAssumption
      <4> QED
        BY <4>1, <1>1, <1>3, MaxUintAssumption DEF Wrap
    <3> QED
      BY <3>1, <2>5, <2>1, <1>1, <1>2, <1>4, <1>5, <1>6, MaxUintAssumption
  <2> QED
    BY <2>4, <2>5, <2>3, MaxUintAssumption
<1>8. CASE p * l > MaxUint
  <2>1. p # 0
    BY <1>8, <1>1, MaxUintAssumption
  <2>2. cost \div p # l
    <3>1. (cost \div p) * p <= cost
      BY <2>1, <1>1, <1>3, DivTimes
    <3>2. cost < l * p
      BY <1>8, <1>3, <1>1, MaxUintAssumption
    <3> QED
      BY <3>1, <3>2, <1>1, <1>3
  <2>3. ~(p * l + v <= balance)
    BY <1>8, <1>4, <1>1, <1>2, MaxUintAssumption
  <2> QED
    BY <2>1, <2>2, <2>3, <1>5, <1>6
<1> QED
  BY <1>7, <1>8, <1>2, MaxUintAssumption

-----------------------------------------------------------------------------

\* Making the two accounts of a transaction keeps the map well formed and
\* changes no balance.
LEMMA TouchType ==
  ASSUME NEW accts \in AccountMap, NEW tx \in Transaction
  PROVE  /\ Touch(accts, tx) \in AccountMap
         /\ Touch(accts, tx)[tx.from].balance = accts[tx.from].balance
  BY DEF Touch, getOrCreate, AccountMap, Account, Transaction

\* A debit that CanApply allows does not underflow.
LEMMA WithdrawType ==
  ASSUME NEW accts \in AccountMap, NEW tx \in Transaction, CanApply(accts, tx)
  PROVE  Withdraw(accts, tx) \in AccountMap
<1>1. tx.from \in Addr /\ tx.value \in Word
  BY DEF Transaction
<1>2. accts[tx.from] \in Account
  BY <1>1 DEF AccountMap
<1>3. accts[tx.from].balance - tx.value \in Word
  BY <1>1, <1>2, MaxUintAssumption DEF CanApply, Account, Word
<1> QED
  BY <1>1, <1>2, <1>3 DEF Withdraw, AccountMap, Account

\* The nonce stays in the word.
LEMMA BumpType ==
  ASSUME NEW accts \in AccountMap, NEW tx \in Transaction
  PROVE  Bump(accts, tx) \in AccountMap
<1>1. tx.from \in Addr
  BY DEF Transaction
<1>2. accts[tx.from] \in Account
  BY <1>1 DEF AccountMap
<1>3. Wrap(accts[tx.from].nonce + 1) \in Word
  BY <1>2, WrapWord, MaxUintAssumption DEF Account, Word
<1> QED
  BY <1>1, <1>2, <1>3 DEF Bump, AccountMap, Account

\* A credit stays in the word.
LEMMA CreditType ==
  ASSUME NEW accts \in AccountMap, NEW tx \in Transaction
  PROVE  Credit(accts, tx) \in AccountMap
<1>1. tx.to \in Addr /\ tx.value \in Word
  BY DEF Transaction
<1>2. accts[tx.to] \in Account
  BY <1>1 DEF AccountMap
<1>3. Wrap(accts[tx.to].balance + tx.value) \in Word
  BY <1>1, <1>2, WrapWord, MaxUintAssumption DEF Account, Word
<1> QED
  BY <1>1, <1>2, <1>3 DEF Credit, AccountMap, Account

\* applyTransaction, where it does not throw, yields a well-formed map.
LEMMA ApplyType ==
  ASSUME NEW accts \in AccountMap, NEW tx \in Transaction, CanApply(accts, tx)
  PROVE  applyTransaction(accts, tx) \in AccountMap
<1>1. Touch(accts, tx) \in AccountMap /\ CanApply(Touch(accts, tx), tx)
  BY TouchType DEF CanApply
<1>2. Bump(Withdraw(Touch(accts, tx), tx), tx) \in AccountMap
  BY <1>1, WithdrawType, BumpType
<1> QED
  BY <1>2, CreditType DEF applyTransaction

\* What each write of applyTransaction does to each account.
LEMMA WriteEffect ==
  ASSUME NEW accts \in AccountMap, NEW tx \in Transaction, NEW a \in Addr
  PROVE  /\ Touch(accts, tx)[a].exists = (accts[a].exists \/ a \in {tx.from, tx.to})
         /\ Touch(accts, tx)[a].balance = accts[a].balance
         /\ Touch(accts, tx)[a].nonce = accts[a].nonce
         /\ Withdraw(accts, tx)[a].exists = accts[a].exists
         /\ Withdraw(accts, tx)[a].balance = IF a = tx.from THEN accts[a].balance - tx.value
                                                            ELSE accts[a].balance
         /\ Withdraw(accts, tx)[a].nonce = accts[a].nonce
         /\ Bump(accts, tx)[a].exists = accts[a].exists
         /\ Bump(accts, tx)[a].balance = accts[a].balance
         /\ Bump(accts, tx)[a].nonce = IF a = tx.from THEN Wrap(accts[a].nonce + 1)
                                                      ELSE accts[a].nonce
         /\ Credit(accts, tx)[a].exists = accts[a].exists
         /\ Credit(accts, tx)[a].balance = IF a = tx.to THEN Wrap(accts[a].balance + tx.value)
                                                        ELSE accts[a].balance
         /\ Credit(accts, tx)[a].nonce = accts[a].nonce
         /\ a \notin {tx.from, tx.to} => /\ Touch(accts, tx)[a] = accts[a]
                                         /\ Withdraw(accts, tx)[a] = accts[a]
                                         /\ Bump(accts, tx)[a] = accts[a]
                                         /\ Credit(accts, tx)[a] = accts[a]
<1>1. tx.from \in Addr /\ tx.to \in Addr
  BY DEF Transaction
<1>2. accts[a] \in Account
  BY DEF AccountMap
<1> QED
  BY <1>1, <1>2 DEF Touch, getOrCreate, Withdraw, Bump, Credit, AccountMap, Account

\* What applyTransaction does to each account: it bumps the sender's nonce and
\* moves the value, or leaves a balance as it is where sender and recipient are
\* one, makes both accounts exist, and leaves all others alone.
LEMMA ApplyEffect ==
  ASSUME NEW accts \in AccountMap, NEW tx \in Transaction, CanApply(accts, tx),
         NEW a \in Addr
  PROVE  LET after == applyTransaction(accts, tx)
         IN  /\ after[a].exists = (accts[a].exists \/ a \in {tx.from, tx.to})
             /\ after[a].nonce = IF a = tx.from THEN Wrap(accts[a].nonce + 1)
                                                ELSE accts[a].nonce
             /\ after[a].balance =
                  IF a = tx.from /\ a # tx.to THEN accts[a].balance - tx.value
                  ELSE IF a # tx.from /\ a = tx.to THEN Wrap(accts[a].balance + tx.value)
                  ELSE accts[a].balance
             /\ a \notin {tx.from, tx.to} => after[a] = accts[a]
<1> DEFINE touched == Touch(accts, tx)
           debited == Withdraw(touched, tx)
           bumped  == Bump(debited, tx)
           after   == Credit(bumped, tx)
<1>1. tx.from \in Addr /\ tx.to \in Addr /\ tx.value \in Word
  BY DEF Transaction
<1>2. touched \in AccountMap /\ CanApply(touched, tx)
  BY TouchType DEF CanApply
<1>3. debited \in AccountMap
  BY <1>2, WithdrawType
<1>9. bumped \in AccountMap
  BY <1>3, BumpType
<1>4. /\ touched[a].exists = (accts[a].exists \/ a \in {tx.from, tx.to})
      /\ touched[a].nonce = accts[a].nonce /\ touched[a].balance = accts[a].balance
      /\ a \notin {tx.from, tx.to} => touched[a] = accts[a]
  BY <1>1 DEF Touch, getOrCreate, AccountMap, Account
<1>5. /\ debited[a].exists = touched[a].exists
      /\ debited[a].nonce = touched[a].nonce
      /\ debited[a].balance = IF a = tx.from THEN touched[a].balance - tx.value
                                             ELSE touched[a].balance
      /\ a # tx.from => debited[a] = touched[a]
  BY <1>1, <1>2 DEF Withdraw, AccountMap, Account
<1>10. /\ bumped[a].exists = debited[a].exists
       /\ bumped[a].nonce = IF a = tx.from THEN Wrap(debited[a].nonce + 1) ELSE debited[a].nonce
       /\ bumped[a].balance = debited[a].balance
       /\ a # tx.from => bumped[a] = debited[a]
  BY <1>1, <1>3 DEF Bump, AccountMap, Account
<1>6. /\ after[a].exists = bumped[a].exists
      /\ after[a].nonce = bumped[a].nonce
      /\ after[a].balance = IF a = tx.to THEN Wrap(bumped[a].balance + tx.value)
                                         ELSE bumped[a].balance
      /\ a # tx.to => after[a] = bumped[a]
  BY <1>1, <1>9 DEF Credit, AccountMap, Account
<1>7. applyTransaction(accts, tx) = after
  BY DEF applyTransaction
<1>8. a = tx.from /\ a = tx.to => Wrap(accts[a].balance - tx.value + tx.value) = accts[a].balance
  <2>1. accts[a].balance \in Nat /\ accts[a].balance <= MaxUint /\ tx.value \in Nat
    BY <1>1, MaxUintAssumption DEF AccountMap, Account, Word
  <2>2. accts[a].balance - tx.value + tx.value = accts[a].balance
    BY <2>1
  <2> QED
    BY <2>1, <2>2, WrapWord
<1> HIDE DEF touched, debited, bumped, after
<1> QED
  BY <1>4, <1>5, <1>6, <1>7, <1>8, <1>10
=============================================================================
