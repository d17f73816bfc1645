----------------------------- MODULE RlpProofs ------------------------------
(***************************************************************************)
(* What src/rlp.cpp promises: a number written as bytes reads back as that *)
(* number, and a list of strings that the encoder wrote decodes to those   *)
(* strings, for strings and lists of every length that the build can hold. *)
(*                                                                         *)
(* The facts about the natural numbers come first, which the proofs about  *)
(* the other components use as well: division, and induction in a form the *)
(* provers can use, about a set and not about an operator; it rests on the *)
(* well-foundedness of < in the library.                                   *)
(***************************************************************************)
EXTENDS Rlp, Integers, WellFoundedInduction, TLAPS

-----------------------------------------------------------------------------
(* Division and induction.                                                 *)

\* Division by a positive number, multiplied back, does not exceed the number.
LEMMA DivTimes ==
  ASSUME NEW n \in Nat, NEW d \in Nat, d # 0
  PROVE  (n \div d) * d <= n /\ n \div d \in Nat
  OBVIOUS

\* A product divided by one factor is the other.
LEMMA TimesDiv ==
  ASSUME NEW a \in Nat, NEW b \in Nat, a # 0
  PROVE  (a * b) \div a = b
  OBVIOUS

\* Quotient and remainder.
LEMMA DivMod ==
  ASSUME NEW n \in Nat, NEW m \in Nat \ {0}
  PROVE  n = (n \div m) * m + (n % m) /\ n % m \in 0..(m - 1) /\ n \div m \in Nat
  OBVIOUS

\* The remainder of a number that is written as one.
LEMMA Remainder ==
  ASSUME NEW q \in Nat, NEW m \in Nat \ {0}, NEW r \in 0..(m - 1)
  PROVE  (q * m + r) % m = r
  OBVIOUS

\* Counting on from a remainder is counting on.
LEMMA ModNext ==
  ASSUME NEW n \in Nat, NEW m \in Nat \ {0}
  PROVE  ((n % m) + 1) % m = (n + 1) % m
<1> DEFINE q == n \div m
           r == n % m
<1>1. n = q * m + r /\ r \in 0..(m - 1) /\ q \in Nat
  BY DivMod
<1> HIDE DEF q, r
<1>2. CASE r + 1 < m
  <2>1. n + 1 = q * m + (r + 1) /\ r + 1 \in 0..(m - 1)
    BY <1>1, <1>2
  <2>2. (r + 1) % m = r + 1
    BY <1>1, <1>2
  <2> QED
    BY <1>1, <2>1, <2>2, Remainder DEF r
<1>3. CASE r + 1 = m
  <2>1. n + 1 = (q + 1) * m + 0 /\ q + 1 \in Nat /\ 0 \in 0..(m - 1)
    BY <1>1, <1>3
  <2>2. (r + 1) % m = 0
    BY <1>1, <1>3
  <2> QED
    BY <1>1, <2>1, <2>2, Remainder DEF r
<1> QED
  BY <1>1, <1>2, <1>3

-----------------------------------------------------------------------------

\* Adding a multiple does not change the remainder.
LEMMA ModShift ==
  ASSUME NEW x \in Nat, NEW m \in Nat \ {0}, NEW q \in Nat
  PROVE  (x + q * m) % m = x % m
<1> DEFINE d == x \div m
           r == x % m
<1>1. d \in Nat /\ r \in 0..(m - 1) /\ x = d * m + r
  BY DivMod
<1> HIDE DEF d, r
<1>2. x + q * m = (d + q) * m + r /\ d + q \in Nat
  BY <1>1
<1>3. ((d + q) * m + r) % m = r
  BY <1>1, <1>2, Remainder
<1> QED
  BY <1>2, <1>3 DEF r

\* Two numbers with the same remainder are at least the divisor apart.
LEMMA ModApart ==
  ASSUME NEW x \in Nat, NEW y \in Nat, NEW m \in Nat \ {0}, x % m = y % m, x < y
  PROVE  x + m <= y
<1> DEFINE d == x \div m
           e == y \div m
           r == x % m
<1>0. d \in Nat /\ r \in 0..(m - 1) /\ x = d * m + r
  BY DivMod
<1>1. d \in Nat /\ r \in Nat /\ x = d * m + r
  <2> HIDE DEF d, r
  <2> QED
    BY <1>0
<1>2. e \in Nat /\ y = e * m + r
  BY DivMod
<1> HIDE DEF d, e, r
<1>3. d * m \in Nat /\ e * m \in Nat
  BY <1>1, <1>2
<1>4. ASSUME d >= e PROVE FALSE
  <2>1. d - e \in Nat /\ d * m = e * m + (d - e) * m
    BY <1>1, <1>2, <1>4
  <2>2. (d - e) * m \in Nat
    BY <2>1
  <2> QED
    BY <1>1, <1>2, <1>3, <2>1, <2>2
<1>5. e - d - 1 \in Nat /\ e * m = d * m + m + (e - d - 1) * m
  BY <1>1, <1>2, <1>4
<1>6. (e - d - 1) * m \in Nat
  BY <1>5
<1> QED
  BY <1>1, <1>2, <1>3, <1>5, <1>6

\* Every set of natural numbers that is not empty has a least element.
LEMMA LeastNat ==
  ASSUME NEW S \in SUBSET Nat, S # {}
  PROVE  \E m \in S : \A k \in S : m <= k
<1> DEFINE R == {pair \in Nat \X Nat : pair[1] < pair[2]}
<1>1. IsWellFoundedOn(R, Nat)
  BY ONLY NatLessThanWellFounded, Zenon DEF OpToRel
<1> HIDE DEF R
<1>2. PICK m \in S : \A k \in S : <<k, m>> \notin R
  BY <1>1, WFMin
<1>3. \A k \in S : ~(k < m)
  BY <1>2 DEF R
<1> QED
  BY <1>3

\* A set that has 0, and with each number up to n the next one, has all
\* numbers up to n.
LEMMA UpTo ==
  ASSUME NEW n \in Nat, NEW S, 0 \in S,
         \A i \in 1..n : i - 1 \in S => i \in S
  PROVE  0..n \subseteq S
<1> DEFINE Left == (0..n) \ S
<1>1. SUFFICES ASSUME Left # {} PROVE FALSE
  OBVIOUS
<1>2. PICK m \in Left : \A k \in Left : m <= k
  <2>1. Left \in SUBSET Nat
    OBVIOUS
  <2> HIDE DEF Left
  <2> QED
    BY <1>1, <2>1, LeastNat
<1>3. m \in 1..n /\ m - 1 \in 0..n /\ m - 1 \notin Left
  BY <1>2
<1> QED
  BY <1>2, <1>3

-----------------------------------------------------------------------------
(* Bytes and sequences.                                                    *)

\* A byte is a number.
LEMMA ByteNat == \A b \in Byte : b \in Nat /\ b <= 255
  BY DEF Byte

\* A function on an initial part of the positive numbers is a sequence.
LEMMA FunctionAsSeq ==
  ASSUME NEW S, NEW n \in Nat, NEW f \in [1..n -> S]
  PROVE  f \in Seq(S) /\ Len(f) = n
  OBVIOUS

-----------------------------------------------------------------------------
(* Numbers as bytes.                                                       *)

\* The loop of encodeUint, as the function its recursion defines up to m.
IsBytes(m, f) ==
  f = [n \in 0..m |-> IF n = 0 THEN <<>> ELSE Append(f[n \div 256], n % 256)]

\* A positive number shrinks when a byte is taken from it.
LEMMA ByteDiv ==
  ASSUME NEW n \in Nat, n # 0
  PROVE  n \div 256 \in Nat /\ n \div 256 < n /\ n % 256 \in 0..255
  OBVIOUS

\* The recursion of BigEndian defines a function.
LEMMA BytesExist == \A m \in Nat : \E f : IsBytes(m, f)
<1> DEFINE S == {m \in Nat : \E f : IsBytes(m, f)}
<1>1. 0 \in S
  <2> DEFINE f == [n \in 0..0 |-> <<>>]
  <2>1. f = [n \in 0..0 |-> IF n = 0 THEN <<>> ELSE Append(f[n \div 256], n % 256)]
    OBVIOUS
  <2> QED
    BY <2>1 DEF IsBytes
<1>2. ASSUME NEW m \in Nat, m # 0, m - 1 \in S PROVE m \in S
  <2>1. PICK f : IsBytes(m - 1, f)
    BY <1>2
  <2> DEFINE g == [n \in 0..m |-> IF n = m THEN Append(f[m \div 256], m % 256) ELSE f[n]]
  <2>2. ASSUME NEW n \in 0..m
        PROVE  g[n] = IF n = 0 THEN <<>> ELSE Append(g[n \div 256], n % 256)
    <3>1. CASE n = 0
      <4>1. g[0] = f[0]
        BY <1>2, <3>1
      <4>2. f[0] = <<>>
        BY <1>2, <2>1 DEF IsBytes
      <4> QED
        BY <3>1, <4>1, <4>2
    <3>2. CASE n # 0
      <4>1. n \div 256 \in 0..(m - 1) /\ n \div 256 # m
        BY <1>2, <3>2, ByteDiv
      <4>2. g[n \div 256] = f[n \div 256]
        BY <4>1
      <4>3. CASE n = m
        BY <3>2, <4>2, <4>3
      <4>4. CASE n # m
        <5>1. n \in 0..(m - 1) /\ g[n] = f[n]
          BY <4>4
        <5>2. f[n] = Append(f[n \div 256], n % 256)
          BY <2>1, <3>2, <5>1 DEF IsBytes
        <5> QED
          BY <3>2, <4>2, <5>1, <5>2
      <4> QED
        BY <4>3, <4>4
    <3> QED
      BY <3>1, <3>2
  <2>3. g = [n \in 0..m |-> IF n = 0 THEN <<>> ELSE Append(g[n \div 256], n % 256)]
    <3>1. g = [n \in 0..m |-> g[n]]
      OBVIOUS
    <3> HIDE DEF g
    <3> QED
      BY <2>2, <3>1
  <2> HIDE DEF g
  <2> QED
    BY <1>2, <2>3 DEF IsBytes
<1>3. ASSUME NEW m \in Nat PROVE m \in S
  <2>1. \A i \in 1..m : i - 1 \in S => i \in S
    BY <1>2
  <2> HIDE DEF S
  <2> QED
    BY <1>1, <2>1, UpTo
<1> QED
  BY <1>3

\* Two of these functions agree where both are defined.
LEMMA BytesAgree ==
  ASSUME NEW a \in Nat, NEW b \in Nat, NEW f, NEW g, IsBytes(a, f), IsBytes(b, g),
         NEW k \in Nat, k <= a, k <= b
  PROVE  f[k] = g[k]
<1> DEFINE S == {n \in Nat : n <= a /\ n <= b /\ f[n] # g[n]}
<1>1. SUFFICES ASSUME S # {} PROVE FALSE
  OBVIOUS
<1>2. PICK n \in S : \A i \in S : n <= i
  <2>1. S \in SUBSET Nat
    OBVIOUS
  <2> HIDE DEF S
  <2> QED
    BY <1>1, <2>1, LeastNat
<1>3. n \in Nat /\ n \in 0..a /\ n \in 0..b /\ f[n] # g[n]
  BY <1>2
<1>4. n # 0
  BY <1>3 DEF IsBytes
<1>5. n \div 256 \in Nat /\ n \div 256 < n
  BY <1>3, <1>4, ByteDiv
<1>6. n \div 256 \notin S
  BY <1>2, <1>3, <1>5
<1>7. f[n \div 256] = g[n \div 256]
  BY <1>3, <1>5, <1>6
<1>8. f[n] = Append(f[n \div 256], n % 256) /\ g[n] = Append(g[n \div 256], n % 256)
  BY <1>3, <1>4 DEF IsBytes
<1> QED
  BY <1>3, <1>7, <1>8

\* BigEndian, one byte at a time.
LEMMA BigEndianStep ==
  /\ BigEndian(0) = <<>>
  /\ \A v \in Nat \ {0} : BigEndian(v) = Append(BigEndian(v \div 256), v % 256)
<1> DEFINE chosen(v) == CHOOSE f : IsBytes(v, f)
<1>1. ASSUME NEW v \in Nat PROVE BigEndian(v) = chosen(v)[v] /\ IsBytes(v, chosen(v))
  <2>1. BigEndian(v) = chosen(v)[v]
    BY DEF BigEndian, IsBytes
  <2>2. IsBytes(v, chosen(v))
    BY BytesExist
  <2> QED
    BY <2>1, <2>2
<1> HIDE DEF chosen
<1>2. BigEndian(0) = <<>>
  BY <1>1 DEF IsBytes
<1>3. ASSUME NEW v \in Nat \ {0}
      PROVE  BigEndian(v) = Append(BigEndian(v \div 256), v % 256)
  <2> DEFINE d == v \div 256
  <2>1. d \in Nat /\ d <= v /\ d <= d
    BY ByteDiv
  <2>2. chosen(v)[v] = Append(chosen(v)[d], v % 256)
    <3>1. v \in 0..v /\ v # 0 /\ IsBytes(v, chosen(v))
      BY <1>1
    <3> QED
      BY <3>1 DEF IsBytes
  <2> HIDE DEF d
  <2>3. chosen(v)[d] = chosen(d)[d]
    BY <1>1, <2>1, BytesAgree
  <2> QED
    BY <1>1, <2>1, <2>2, <2>3 DEF d
<1> QED
  BY <1>2, <1>3

-----------------------------------------------------------------------------
(* Bytes as a number.                                                      *)

\* The loop of toUint, as the function its recursion defines.
IsValue(bytes, m, f) ==
  f = [i \in 0..m |-> IF i = 0 THEN 0 ELSE f[i - 1] * 256 + bytes[i]]

\* The recursion of toUint defines a function of natural numbers.
LEMMA ValueExists ==
  ASSUME NEW bytes \in Seq(Nat)
  PROVE  \A m \in 0..Len(bytes) :
           \E f : IsValue(bytes, m, f) /\ f[m] \in Nat
<1> DEFINE S == {m \in Nat : m <= Len(bytes) => \E f : IsValue(bytes, m, f) /\ f[m] \in Nat}
<1>1. 0 \in S
  <2> DEFINE f == [i \in 0..0 |-> 0]
  <2>1. f = [i \in 0..0 |-> IF i = 0 THEN 0 ELSE f[i - 1] * 256 + bytes[i]] /\ f[0] \in Nat
    OBVIOUS
  <2> QED
    BY <2>1 DEF IsValue
<1>2. ASSUME NEW m \in 1..Len(bytes), m - 1 \in S PROVE m \in S
  <2>0. m \in Nat /\ m # 0 /\ m - 1 \in Nat /\ m <= Len(bytes) /\ m - 1 <= Len(bytes)
    OBVIOUS
  <2>1. PICK f : IsValue(bytes, m - 1, f) /\ f[m - 1] \in Nat
    BY <1>2, <2>0
  <2> DEFINE g == [i \in 0..m |-> IF i = m THEN f[m - 1] * 256 + bytes[m] ELSE f[i]]
  <2>2. ASSUME NEW i \in 0..m
        PROVE  g[i] = IF i = 0 THEN 0 ELSE g[i - 1] * 256 + bytes[i]
    <3>1. CASE i = 0
      <4>1. g[0] = f[0]
        BY <2>0, <3>1
      <4>2. f[0] = 0
        BY <2>0, <2>1 DEF IsValue
      <4> QED
        BY <3>1, <4>1, <4>2
    <3>2. CASE i # 0
      <4>1. i - 1 \in 0..(m - 1) /\ g[i - 1] = f[i - 1]
        BY <2>0, <3>2
      <4>2. CASE i = m
        BY <3>2, <4>1, <4>2
      <4>3. CASE i # m
        <5>1. i \in 0..(m - 1) /\ g[i] = f[i]
          BY <4>3
        <5>2. f[i] = f[i - 1] * 256 + bytes[i]
          BY <2>1, <3>2, <5>1 DEF IsValue
        <5> QED
          BY <3>2, <4>1, <5>1, <5>2
      <4> QED
        BY <4>2, <4>3
    <3> QED
      BY <3>1, <3>2
  <2>3. g = [i \in 0..m |-> IF i = 0 THEN 0 ELSE g[i - 1] * 256 + bytes[i]]
    BY <2>2
  <2>4. g[m] \in Nat
    <3>1. bytes[m] \in Nat
      BY <2>0
    <3>2. g[m] = f[m - 1] * 256 + bytes[m]
      BY <2>0
    <3> HIDE DEF g
    <3> QED
      BY <2>1, <3>1, <3>2
  <2> HIDE DEF g
  <2> QED
    BY <2>0, <2>3, <2>4 DEF IsValue
<1>3. Len(bytes) \in Nat
  OBVIOUS
<1>4. 0..Len(bytes) \subseteq S
  <2> DEFINE n == Len(bytes)
  <2>1. \A i \in 1..n : i - 1 \in S => i \in S
    BY <1>2
  <2>2. n \in Nat
    BY <1>3
  <2> HIDE DEF S, n
  <2>3. 0..n \subseteq S
    BY <1>1, <2>1, <2>2, UpTo
  <2> QED
    BY <2>3 DEF n
<1> QED
  BY <1>3, <1>4

\* Two of these functions agree, also for sequences of which one goes on.
LEMMA ValueAgree ==
  ASSUME NEW a, NEW b, NEW m \in Nat, NEW n \in Nat, NEW f, NEW g, m <= n,
         IsValue(a, m, f), IsValue(b, n, g), \A i \in 1..m : a[i] = b[i]
  PROVE  f[m] = g[m]
<1> DEFINE S == {k \in Nat : k <= m => f[k] = g[k]}
<1>1. 0 \in S
  BY DEF IsValue
<1>2. ASSUME NEW i \in 1..m, i - 1 \in S PROVE i \in S
  <2>1. i \in 0..m /\ i \in 0..n /\ i # 0 /\ i - 1 <= m /\ i \in Nat
    OBVIOUS
  <2>2. f[i] = f[i - 1] * 256 + a[i] /\ g[i] = g[i - 1] * 256 + b[i]
    BY <2>1 DEF IsValue
  <2>3. f[i - 1] = g[i - 1]
    BY <1>2, <2>1
  <2> QED
    BY <2>1, <2>2, <2>3
<1>3. 0..m \subseteq S
  <2>1. \A i \in 1..m : i - 1 \in S => i \in S
    BY <1>2
  <2> HIDE DEF S
  <2> QED
    BY <1>1, <2>1, UpTo
<1> QED
  BY <1>3

\* toUint, one digit at a time; that a digit is a byte does not matter.
LEMMA ToUintDigit ==
  /\ toUint(<<>>) = 0
  /\ \A s \in Seq(Nat) : toUint(s) \in Nat
  /\ \A s \in Seq(Nat), b \in Nat : toUint(Append(s, b)) = toUint(s) * 256 + b
<1> DEFINE chosen(s) == CHOOSE f : IsValue(s, Len(s), f)
<1>1. ASSUME NEW s \in Seq(Nat)
      PROVE  toUint(s) = chosen(s)[Len(s)] /\ IsValue(s, Len(s), chosen(s)) /\ toUint(s) \in Nat
  <2>1. toUint(s) = chosen(s)[Len(s)]
    BY DEF toUint, IsValue
  <2>2. PICK f : IsValue(s, Len(s), f) /\ f[Len(s)] \in Nat
    BY ValueExists
  <2>3. IsValue(s, Len(s), chosen(s))
    BY <2>2
  <2> HIDE DEF chosen
  <2>4. f[Len(s)] = chosen(s)[Len(s)]
    <3> DEFINE n == Len(s)
               c == chosen(s)
    <3>1. n \in Nat /\ n <= n /\ IsValue(s, n, f) /\ IsValue(s, n, c)
      BY <2>2, <2>3
    <3> HIDE DEF n, c
    <3>2. f[n] = c[n]
      BY <3>1, ValueAgree
    <3> QED
      BY <3>2 DEF n, c
  <2> QED
    BY <2>1, <2>2, <2>3, <2>4
<1> HIDE DEF chosen
<1>2. toUint(<<>>) = 0
  <2>1. <<>> \in Seq(Nat) /\ Len(<<>>) = 0
    OBVIOUS
  <2>2. toUint(<<>>) = chosen(<<>>)[0] /\ IsValue(<<>>, 0, chosen(<<>>))
    BY <1>1, <2>1
  <2> QED
    BY <2>2 DEF IsValue
<1>3. ASSUME NEW s \in Seq(Nat), NEW b \in Nat
      PROVE  toUint(Append(s, b)) = toUint(s) * 256 + b
  <2> DEFINE t == Append(s, b)
             n == Len(s)
             cs == chosen(s)
             ct == chosen(t)
  <2>1. t \in Seq(Nat) /\ n \in Nat /\ Len(t) = n + 1 /\ t[n + 1] = b
        /\ \A i \in 1..n : s[i] = t[i]
    OBVIOUS
  <2>2. toUint(s) = cs[n] /\ IsValue(s, n, cs)
    BY <1>1
  <2>3. toUint(t) = ct[n + 1] /\ IsValue(t, n + 1, ct)
    BY <1>1, <2>1
  <2> HIDE DEF t, n, cs, ct
  <2>4. cs[n] = ct[n]
    <3>1. n <= n + 1 /\ n + 1 \in Nat
      BY <2>1
    <3> QED
      BY <2>1, <2>2, <2>3, <3>1, ValueAgree
  <2>5. ct[n + 1] = ct[n] * 256 + t[n + 1]
    BY <2>1, <2>3 DEF IsValue
  <2> QED
    BY <2>1, <2>2, <2>3, <2>4, <2>5 DEF t
<1> QED
  BY <1>1, <1>2, <1>3

\* toUint, one byte at a time.
LEMMA ToUintStep ==
  /\ toUint(<<>>) = 0
  /\ \A s \in Seq(Byte) : toUint(s) \in Nat
  /\ \A s \in Seq(Byte), b \in Byte : toUint(Append(s, b)) = toUint(s) * 256 + b
<1>1. \A s \in Seq(Byte) : s \in Seq(Nat)
  BY ByteNat
<1> QED
  BY <1>1, ByteNat, ToUintDigit

\* Appending to the second of two sequences.
LEMMA ConcatAppend ==
  ASSUME NEW T, NEW a \in Seq(T), NEW b \in Seq(T), NEW x \in T
  PROVE  a \o Append(b, x) = Append(a \o b, x)
  OBVIOUS

\* Digits before others make a number larger, unless they are all zero.
LEMMA ToUintAfter ==
  ASSUME NEW front \in Seq(Nat), toUint(front) > 0, NEW s \in Seq(Nat)
  PROVE  toUint(front \o s) > toUint(s)
<1>0. \A t \in Seq(Nat), c \in Nat : front \o Append(t, c) = Append(front \o t, c)
  BY ConcatAppend
<1> DEFINE P == {n \in Nat : \A t \in Seq(Nat) : Len(t) = n => toUint(front \o t) > toUint(t)}
<1>1. 0 \in P
  <2>1. ASSUME NEW t \in Seq(Nat), Len(t) = 0 PROVE toUint(front \o t) > toUint(t)
    <3>1. t = <<>> /\ front \o <<>> = front
      BY <2>1
    <3> QED
      BY <3>1, ToUintDigit
  <2> QED
    BY <2>1
<1>2. ASSUME NEW n \in 1..Len(s), n - 1 \in P PROVE n \in P
  <2>1. ASSUME NEW t \in Seq(Nat), Len(t) = n PROVE toUint(front \o t) > toUint(t)
    <3> DEFINE u == SubSeq(t, 1, n - 1)
               c == t[n]
    <3>1. u \in Seq(Nat) /\ c \in Nat /\ Len(u) = n - 1 /\ t = Append(u, c)
      BY <2>1
    <3> HIDE DEF u, c
    <3>2. front \o t = Append(front \o u, c) /\ front \o u \in Seq(Nat)
      <4>0. u \in Seq(Nat) /\ c \in Nat
        BY <3>1
      <4>1. front \o Append(u, c) = Append(front \o u, c)
        BY <1>0, <4>0
      <4>2. front \o u \in Seq(Nat)
        BY <3>1
      <4> QED
        BY <3>1, <4>1, <4>2
    <3>3. toUint(front \o u) > toUint(u)
      BY <1>2, <3>1
    <3> DEFINE f == front \o u
    <3>4. f \in Seq(Nat)
      BY <3>2
    <3> HIDE DEF f
    <3>5. /\ toUint(Append(f, c)) = toUint(f) * 256 + c
          /\ toUint(t) = toUint(u) * 256 + c
          /\ toUint(f) \in Nat /\ toUint(u) \in Nat
      <4>1. toUint(Append(f, c)) = toUint(f) * 256 + c /\ toUint(f) \in Nat
        BY <3>1, <3>4, ToUintDigit
      <4>2. toUint(Append(u, c)) = toUint(u) * 256 + c /\ toUint(u) \in Nat
        BY <3>1, ToUintDigit
      <4> QED
        BY <3>1, <4>1, <4>2
    <3>6. toUint(f) > toUint(u) /\ front \o t = Append(f, c)
      BY <3>2, <3>3 DEF f
    <3> QED
      BY <3>1, <3>5, <3>6
  <2> QED
    BY <2>1
<1>3. Len(s) \in Nat
  OBVIOUS
<1> HIDE DEF P
<1>4. Len(s) \in P
  <2> DEFINE m == Len(s)
  <2>1. m \in Nat /\ \A n \in 1..m : n - 1 \in P => n \in P
    BY <1>2, <1>3
  <2> HIDE DEF m
  <2>2. 0..m \subseteq P
    BY <1>1, <2>1, UpTo
  <2> QED
    BY <2>1, <2>2 DEF m
<1> QED
  BY <1>4 DEF P

\* A number reads back from its bytes, which are none for zero and otherwise
\* begin with one that is not zero.
THEOREM UintRoundTrip ==
  \A v \in Nat : /\ BigEndian(v) \in Seq(Byte)
                 /\ toUint(BigEndian(v)) = v
                 /\ v # 0 => Len(BigEndian(v)) > 0 /\ BigEndian(v)[1] # 0
<1> DEFINE Good(v) == /\ BigEndian(v) \in Seq(Byte)
                      /\ toUint(BigEndian(v)) = v
                      /\ v # 0 => Len(BigEndian(v)) > 0 /\ BigEndian(v)[1] # 0
           S == {v \in Nat : ~Good(v)}
<1>1. SUFFICES ASSUME S # {} PROVE FALSE
  OBVIOUS
<1>2. PICK v \in S : \A i \in S : v <= i
  <2>1. S \in SUBSET Nat
    OBVIOUS
  <2> HIDE DEF S
  <2> QED
    BY <1>1, <2>1, LeastNat
<1>3. v \in Nat /\ ~Good(v)
  BY <1>2
<1>4. v # 0
  <2>1. <<>> \in Seq(Byte)
    OBVIOUS
  <2> QED
    BY <1>3, <2>1, BigEndianStep, ToUintStep
<1> DEFINE d == v \div 256
           r == v % 256
           s == BigEndian(d)
<1>5. d \in Nat /\ d < v /\ r \in 0..255 /\ v = d * 256 + r
  BY <1>3, <1>4, ByteDiv, DivMod
<1>6. BigEndian(v) = Append(s, r)
  BY <1>3, <1>4, BigEndianStep
<1>7. Good(d)
  <2> HIDE DEF Good, d
  <2> QED
    BY <1>2, <1>3, <1>5
<1>8. s \in Seq(Byte) /\ toUint(s) = d /\ (d # 0 => Len(s) > 0 /\ s[1] # 0) /\ (d = 0 => s = <<>>)
  BY <1>7, BigEndianStep
<1> HIDE DEF s, d, r
<1>9. r \in Byte
  BY <1>5 DEF Byte
<1>10. Append(s, r) \in Seq(Byte) /\ toUint(Append(s, r)) = v
  BY <1>5, <1>8, <1>9, ToUintStep
<1>11. Len(Append(s, r)) > 0 /\ Append(s, r)[1] # 0
  <2>1. CASE d = 0
    <3>1. s = <<>> /\ r # 0
      BY <1>4, <1>5, <1>8, <2>1
    <3> QED
      BY <3>1
  <2>2. CASE d # 0
    BY <1>8, <1>9, <2>2
  <2> QED
    BY <2>1, <2>2
<1> QED
  BY <1>3, <1>6, <1>10, <1>11
-----------------------------------------------------------------------------
(* The decoder reads forward, so its recursion defines a function.         *)

Spots(in) == (0..(Len(in) + 1)) \X (0..Len(in))

\* One turn of the loop of decode, with f for what comes later.
Turn(in, f, offset, end) ==
  LET prefix == in[offset + 1]
      head   == readLen(in, offset, IF prefix < 192 THEN 128 ELSE 192)
      last   == head.start + head.len
      inner  == f[<<head.start, last>>]
      Then(item, next) ==
        LET rest == f[<<next, end>>]
        IN  [list |-> <<item>> \o rest.list, next |-> rest.next]
  IN  CASE offset >= end -> [list |-> <<>>, next |-> offset]
        [] offset < end /\ prefix < 128 -> Then(String(<<prefix>>), offset + 1)
        [] offset < end /\ prefix >= 128 /\ last > Len(in) ->
             [list |-> <<>>, next |-> Len(in) + 1]
        [] offset < end /\ prefix \in 128..191 /\ last <= Len(in) ->
             Then(String(SubSeq(in, head.start + 1, last)), last)
        [] offset < end /\ prefix >= 192 /\ last <= Len(in) ->
             Then(List(inner.list), inner.next)

IsItems(in, f) == f = [at \in Spots(in) |-> Turn(in, f, at[1], at[2])]

Items(in) == CHOOSE f : IsItems(in, f)

\* An item and what the loop collects after it.
After(f, item, next, end) ==
  [list |-> <<item>> \o f[<<next, end>>].list, next |-> f[<<next, end>>].next]

\* The length of the item at an offset, and where the item ends.
LengthAt(in, o) == readLen(in, o, IF in[o + 1] < 192 THEN 128 ELSE 192)

EndOf(in, o) == LengthAt(in, o).start + LengthAt(in, o).len

\* The cases of a turn, one by one.
TurnTable(in, f, o, e) ==
  /\ o >= e => Turn(in, f, o, e) = [list |-> <<>>, next |-> o]
  /\ o < e /\ in[o + 1] \in 0..127 =>
       Turn(in, f, o, e) = After(f, String(<<in[o + 1]>>), o + 1, e)
  /\ o < e /\ in[o + 1] \in 128..255 /\ EndOf(in, o) \in Nat /\ EndOf(in, o) > Len(in) =>
       Turn(in, f, o, e) = [list |-> <<>>, next |-> Len(in) + 1]
  /\ o < e /\ in[o + 1] \in 128..191 /\ EndOf(in, o) \in Nat /\ EndOf(in, o) <= Len(in) =>
       Turn(in, f, o, e) =
         After(f, String(SubSeq(in, LengthAt(in, o).start + 1, EndOf(in, o))), EndOf(in, o), e)
  /\ o < e /\ in[o + 1] \in 192..255 /\ EndOf(in, o) \in Nat /\ EndOf(in, o) <= Len(in) =>
       Turn(in, f, o, e) =
         After(f, List(f[<<LengthAt(in, o).start, EndOf(in, o)>>].list),
                  f[<<LengthAt(in, o).start, EndOf(in, o)>>].next, e)

\* They are exhaustive and exclude each other for bytes and numbers.
LEMMA TurnCases ==
  ASSUME NEW in, NEW f, NEW o \in Nat, NEW e \in Nat, Len(in) \in Nat
  PROVE  TurnTable(in, f, o, e)
<1> DEFINE prefix == in[o + 1]
           size == Len(in)
           last == EndOf(in, o)
           v1 == [list |-> <<>>, next |-> o]
           v2 == After(f, String(<<prefix>>), o + 1, e)
           v3 == [list |-> <<>>, next |-> size + 1]
           v4 == After(f, String(SubSeq(in, LengthAt(in, o).start + 1, last)), last, e)
           v5 == After(f, List(f[<<LengthAt(in, o).start, last>>].list),
                          f[<<LengthAt(in, o).start, last>>].next, e)
<1>1. Turn(in, f, o, e) =
        CASE o >= e -> v1
          [] o < e /\ prefix < 128 -> v2
          [] o < e /\ prefix >= 128 /\ last > size -> v3
          [] o < e /\ prefix \in 128..191 /\ last <= size -> v4
          [] o < e /\ prefix >= 192 /\ last <= size -> v5
  BY DEF Turn, After, LengthAt, EndOf
<1>2. size \in Nat
  OBVIOUS
<1> DEFINE c1 == o >= e
           c2 == o < e /\ prefix < 128
           c3 == o < e /\ prefix >= 128 /\ last > size
           c4 == o < e /\ prefix \in 128..191 /\ last <= size
           c5 == o < e /\ prefix >= 192 /\ last <= size
<1> HIDE DEF prefix, size, last, v1, v2, v3, v4, v5
<1>3. ASSUME o >= e PROVE Turn(in, f, o, e) = v1
  <2>1. c1 /\ ~c2 /\ ~c3 /\ ~c4 /\ ~c5
    BY <1>3
  <2> HIDE DEF c1, c2, c3, c4, c5
  <2> QED
    BY <1>1, <2>1, Zenon DEF c1, c2, c3, c4, c5
<1>4. ASSUME o < e, prefix \in 0..127 PROVE Turn(in, f, o, e) = v2
  <2>1. ~c1 /\ c2 /\ ~c3 /\ ~c4 /\ ~c5
    BY <1>4
  <2>2. Turn(in, f, o, e) = CASE c1 -> v1 [] c2 -> v2 [] c3 -> v3 [] c4 -> v4 [] c5 -> v5
    BY <1>1
  <2> HIDE DEF c1, c2, c3, c4, c5
  <2> QED
    BY <2>1, <2>2
<1>5. ASSUME o < e, prefix \in 128..255, last \in Nat, last > size PROVE Turn(in, f, o, e) = v3
  <2>1. ~c1 /\ ~c2 /\ c3 /\ ~c4 /\ ~c5
    BY <1>2, <1>5
  <2>2. Turn(in, f, o, e) = CASE c1 -> v1 [] c2 -> v2 [] c3 -> v3 [] c4 -> v4 [] c5 -> v5
    BY <1>1
  <2> HIDE DEF c1, c2, c3, c4, c5
  <2> QED
    BY <2>1, <2>2
<1>6. ASSUME o < e, prefix \in 128..191, last \in Nat, last <= size PROVE Turn(in, f, o, e) = v4
  <2>1. ~c1 /\ ~c2 /\ ~c3 /\ c4 /\ ~c5
    BY <1>2, <1>6
  <2>2. Turn(in, f, o, e) = CASE c1 -> v1 [] c2 -> v2 [] c3 -> v3 [] c4 -> v4 [] c5 -> v5
    BY <1>1
  <2> HIDE DEF c1, c2, c3, c4, c5
  <2> QED
    BY <2>1, <2>2
<1>7. ASSUME o < e, prefix \in 192..255, last \in Nat, last <= size PROVE Turn(in, f, o, e) = v5
  <2>1. ~c1 /\ ~c2 /\ ~c3 /\ ~c4 /\ c5
    BY <1>2, <1>7
  <2>2. Turn(in, f, o, e) = CASE c1 -> v1 [] c2 -> v2 [] c3 -> v3 [] c4 -> v4 [] c5 -> v5
    BY <1>1
  <2> HIDE DEF c1, c2, c3, c4, c5
  <2> QED
    BY <2>1, <2>2
<1> QED
  BY <1>3, <1>4, <1>5, <1>6, <1>7 DEF TurnTable, prefix, size, last, v1, v2, v3, v4, v5

\* The content of an item begins after its first byte.
LEMMA ReadLenType ==
  ASSUME NEW in \in Seq(Byte), NEW o \in Nat, o < Len(in), NEW base \in Nat,
         base <= in[o + 1]
  PROVE  LET head == readLen(in, o, base)
         IN  head.start \in Nat /\ head.start > o /\ head.len \in Nat
             /\ head.start <= Len(in) + 1
<1> DEFINE len == in[o + 1] - base
           num == len - 55
           head == readLen(in, o, base)
<1>1. in[o + 1] \in Nat /\ Len(in) \in Nat
  BY ByteNat
<1>2. len \in Nat
  BY <1>1
<1> HIDE DEF len
<1>3. head = CASE len <= 55 -> [start |-> o + 1, len |-> len]
               [] len > 55 /\ o + 1 + num <= Len(in) ->
                    [start |-> o + 1 + num, len |-> toUint(SubSeq(in, o + 2, o + 1 + num))]
               [] OTHER -> [start |-> Len(in) + 1, len |-> 0]
  BY DEF readLen, len
<1>4. CASE len <= 55
  BY <1>1, <1>2, <1>3, <1>4
<1>5. CASE len > 55 /\ o + 1 + num <= Len(in)
  <2>1. SubSeq(in, o + 2, o + 1 + num) \in Seq(Byte)
    BY <1>1, <1>2, <1>5
  <2>2. toUint(SubSeq(in, o + 2, o + 1 + num)) \in Nat
    BY <2>1, ToUintStep
  <2> QED
    BY <1>1, <1>2, <1>3, <1>5, <2>2
<1>6. CASE len > 55 /\ ~(o + 1 + num <= Len(in))
  <2>1. head = [start |-> Len(in) + 1, len |-> 0]
    BY <1>2, <1>3, <1>6
  <2> HIDE DEF head
  <2>2. head.start = Len(in) + 1 /\ head.len = 0
    BY <2>1
  <2> QED
    BY <1>1, <2>2 DEF head
<1> QED
  BY <1>1, <1>2, <1>4, <1>5, <1>6

\* f and g agree from offset p on, and g stops no earlier than it starts.
SameFrom(in, f, g, p) ==
  \A at \in Spots(in) : at[1] >= p =>
    f[at] = g[at] /\ g[at].next \in at[1]..(Len(in) + 1)

\* A turn depends on nothing before the next offset, and stops later.
LEMMA TurnLocal ==
  ASSUME NEW in \in Seq(Byte), NEW f, NEW g, NEW o \in 0..(Len(in) + 1),
         NEW e \in 0..Len(in), SameFrom(in, f, g, o + 1)
  PROVE  /\ Turn(in, f, o, e) = Turn(in, g, o, e)
         /\ Turn(in, g, o, e).next \in o..(Len(in) + 1)
<1> DEFINE size == Len(in)
           prefix == in[o + 1]
           start == LengthAt(in, o).start
           last == EndOf(in, o)
           goal == /\ Turn(in, f, o, e) = Turn(in, g, o, e)
                   /\ Turn(in, g, o, e).next \in o..(size + 1)
<1> SUFFICES goal
  OBVIOUS
<1>0. size \in Nat /\ o \in Nat /\ e \in Nat /\ o <= size + 1 /\ e <= size
  OBVIOUS
<1>1. ASSUME NEW p \in Nat, NEW q \in Nat, p > o, p <= size + 1, q <= size
      PROVE  f[<<p, q>>] = g[<<p, q>>] /\ g[<<p, q>>].next \in p..(size + 1)
  <2> DEFINE at == <<p, q>>
  <2>1. at \in Spots(in) /\ at[1] = p /\ p >= o + 1
    BY <1>0, <1>1 DEF Spots
  <2> HIDE DEF at
  <2> QED
    BY <2>1, <1>0 DEF SameFrom, at
<1>2. ASSUME NEW item, NEW p \in Nat, p > o, p <= size + 1,
             Turn(in, f, o, e) = After(f, item, p, e),
             Turn(in, g, o, e) = After(g, item, p, e)
      PROVE  goal
  <2>1. f[<<p, e>>] = g[<<p, e>>] /\ g[<<p, e>>].next \in p..(size + 1)
    BY <1>0, <1>1, <1>2
  <2>2. g[<<p, e>>].next \in o..(size + 1)
    BY <1>0, <1>2, <2>1
  <2>3. After(f, item, p, e) = After(g, item, p, e)
    BY <2>1 DEF After
  <2>4. After(g, item, p, e).next = g[<<p, e>>].next
    BY DEF After
  <2> QED
    BY <1>2, <2>2, <2>3, <2>4
<1>3. ASSUME NEW p \in Nat, p >= o, p <= size + 1,
             Turn(in, f, o, e) = [list |-> <<>>, next |-> p],
             Turn(in, g, o, e) = [list |-> <<>>, next |-> p]
      PROVE  goal
  BY <1>0, <1>3
<1>A. \A h : TurnTable(in, h, o, e)
  BY <1>0, TurnCases
<1>4. CASE o >= e
  <2>1. \A h : Turn(in, h, o, e) = [list |-> <<>>, next |-> o]
    BY <1>0, <1>4, <1>A DEF TurnTable
  <2> HIDE DEF goal
  <2> QED
    BY <1>0, <1>3, <2>1
<1>5. CASE o < e /\ prefix \in 0..127
  <2>1. \A h : Turn(in, h, o, e) = After(h, String(<<prefix>>), o + 1, e)
    BY <1>0, <1>5, <1>A DEF TurnTable
  <2>2. o + 1 \in Nat /\ o + 1 > o /\ o + 1 <= size + 1
    BY <1>0, <1>5
  <2> HIDE DEF goal
  <2> QED
    BY <1>2, <2>1, <2>2
<1>6. CASE o < e /\ prefix \in 128..255
  <2>1. /\ start \in Nat /\ start > o /\ start <= size + 1
        /\ last \in Nat /\ last >= start
    <3> DEFINE base == IF prefix < 192 THEN 128 ELSE 192
               head == readLen(in, o, base)
    <3>1. base \in Nat /\ base <= prefix /\ o < size
      <4> HIDE DEF prefix
      <4>1. o < e /\ prefix \in Nat /\ prefix >= 128
        BY <1>6
      <4> QED
        BY <1>0, <4>1
    <3>2. head.start \in Nat /\ head.start > o /\ head.len \in Nat /\ head.start <= size + 1
      BY <1>0, <3>1, ReadLenType
    <3>3. LengthAt(in, o) = head
      BY DEF LengthAt
    <3> HIDE DEF head
    <3> QED
      BY <3>2, <3>3 DEF EndOf
  <2> HIDE DEF start, last, prefix, size, goal
  <2>2. CASE last > size
    <3>1. \A h : Turn(in, h, o, e) = [list |-> <<>>, next |-> size + 1]
      BY <1>0, <1>6, <2>1, <2>2, <1>A DEF TurnTable, last, size, prefix
    <3>2. size + 1 \in Nat /\ size + 1 >= o /\ size + 1 <= size + 1
      BY <1>0
    <3> QED
      BY <1>3, <3>1, <3>2
  <2>3. CASE prefix \in 128..191 /\ last <= size
    <3> DEFINE item == String(SubSeq(in, start + 1, last))
    <3>1. \A h : Turn(in, h, o, e) = After(h, item, last, e)
      BY <1>0, <1>6, <2>1, <2>3, <1>A DEF TurnTable, last, size, prefix, start
    <3>2. last > o /\ last <= size + 1
      BY <1>0, <2>1, <2>3
    <3> HIDE DEF item
    <3> QED
      BY <1>2, <2>1, <3>1, <3>2
  <2>4. CASE prefix \in 192..255 /\ last <= size
    <3> DEFINE inner(h) == h[<<start, last>>]
    <3>1. inner(f) = inner(g) /\ inner(g).next \in start..(size + 1)
      BY <1>0, <1>1, <2>1, <2>4
    <3>2. \A h : Turn(in, h, o, e) = After(h, List(inner(h).list), inner(h).next, e)
      BY <1>0, <1>6, <2>1, <2>4, <1>A DEF TurnTable, last, size, prefix, start
    <3> HIDE DEF inner
    <3> DEFINE item == List(inner(g).list)
               next == inner(g).next
    <3>3. next \in Nat /\ next > o /\ next <= size + 1
      BY <1>0, <2>1, <3>1
    <3>4. Turn(in, f, o, e) = After(f, item, next, e) /\ Turn(in, g, o, e) = After(g, item, next, e)
      BY <3>1, <3>2
    <3> HIDE DEF item, next
    <3> QED
      BY <1>2, <3>3, <3>4
  <2> QED
    BY <1>0, <1>6, <2>1, <2>2, <2>3, <2>4
<1>7. o < e => prefix \in 0..127 \/ prefix \in 128..255
  <2> SUFFICES ASSUME o < e PROVE prefix \in 0..255
    BY <1>0
  <2>1. in[o + 1] \in Byte
    BY <1>0
  <2> QED
    BY <2>1 DEF Byte
<1> QED
  BY <1>0, <1>4, <1>5, <1>6, <1>7

\* g is the decoder's function from offset p on.
PartOf(in, g, p) ==
  \A at \in Spots(in) : at[1] >= p =>
    g[at] = Turn(in, g, at[1], at[2]) /\ g[at].next \in at[1]..(Len(in) + 1)

\* The recursion of decode defines a function, which reads forward.
LEMMA ItemsExist ==
  ASSUME NEW in \in Seq(Byte)
  PROVE  \E f : IsItems(in, f)
<1> DEFINE size == Len(in)
           S == {m \in Nat : m <= size + 1 => \E g : PartOf(in, g, (size + 1) - m)}
<1>0. size \in Nat
  OBVIOUS
<1>a. \A at \in Spots(in) : at = <<at[1], at[2]>> /\ at[1] \in 0..(size + 1) /\ at[2] \in 0..size
  BY DEF Spots
<1> HIDE DEF size
<1>1. 0 \in S
  <2> DEFINE g == [at \in Spots(in) |-> [list |-> <<>>, next |-> size + 1]]
  <2>1. ASSUME NEW at \in Spots(in), at[1] >= size + 1
        PROVE  g[at] = Turn(in, g, at[1], at[2]) /\ g[at].next \in at[1]..(size + 1)
    <3>1. at[1] = size + 1 /\ at[1] \in Nat /\ at[2] \in Nat /\ at[1] >= at[2]
      BY <1>0, <1>a, <2>1
    <3>2. g[at] = [list |-> <<>>, next |-> size + 1]
      OBVIOUS
    <3> HIDE DEF g
    <3>3. TurnTable(in, g, at[1], at[2])
      BY <1>0, <3>1, TurnCases DEF size
    <3>4. Turn(in, g, at[1], at[2]) = [list |-> <<>>, next |-> at[1]]
      BY <3>1, <3>3 DEF TurnTable
    <3> QED
      BY <1>0, <3>1, <3>2, <3>4
  <2> HIDE DEF g
  <2>2. PartOf(in, g, (size + 1) - 0)
    BY <1>0, <2>1 DEF PartOf, size
  <2> QED
    BY <2>2
<1>2. ASSUME NEW m \in 1..(size + 1), m - 1 \in S PROVE m \in S
  <2> DEFINE p == (size + 1) - m
  <2>0. m \in Nat /\ m - 1 \in Nat /\ m - 1 <= size + 1 /\ p \in 0..size
        /\ (size + 1) - (m - 1) = p + 1
    BY <1>0
  <2>1. PICK g : PartOf(in, g, p + 1)
    BY <1>2, <2>0
  <2> HIDE DEF p
  <2> DEFINE h == [at \in Spots(in) |->
                     IF at[1] >= p + 1 THEN g[at] ELSE Turn(in, g, at[1], at[2])]
  <2>2. SameFrom(in, h, g, p + 1)
    BY <2>1 DEF SameFrom, PartOf
  <2>3. ASSUME NEW at \in Spots(in), at[1] >= p
        PROVE  h[at] = Turn(in, h, at[1], at[2]) /\ h[at].next \in at[1]..(size + 1)
    <3> DEFINE o == at[1]
               e == at[2]
    <3>1. o \in 0..(size + 1) /\ e \in 0..size /\ o \in Nat /\ o >= p
      BY <1>0, <1>a, <2>3
    <3>2. h[at] = IF o >= p + 1 THEN g[at] ELSE Turn(in, g, o, e)
      OBVIOUS
    <3>3. o >= p + 1 => g[at] = Turn(in, g, o, e)
      BY <2>1 DEF PartOf
    <3> HIDE DEF h
    <3>4. SameFrom(in, h, g, o + 1)
      BY <1>0, <1>a, <2>0, <2>2, <3>1 DEF SameFrom
    <3> HIDE DEF o, e
    <3>5. Turn(in, h, o, e) = Turn(in, g, o, e) /\ Turn(in, g, o, e).next \in o..(size + 1)
      BY <3>1, <3>4, TurnLocal DEF size
    <3> QED
      BY <3>2, <3>3, <3>5 DEF o, e
  <2> HIDE DEF h
  <2>4. PartOf(in, h, p)
    BY <2>3 DEF PartOf, size
  <2> QED
    BY <2>0, <2>4 DEF p
<1>3. size + 1 \in S
  <2> DEFINE n == size + 1
  <2>1. n \in Nat /\ \A i \in 1..n : i - 1 \in S => i \in S
    BY <1>0, <1>2
  <2> HIDE DEF S, n
  <2>2. 0..n \subseteq S
    BY <1>1, <2>1, UpTo
  <2>3. n \in 0..n
    BY <2>1
  <2> QED
    BY <2>2, <2>3 DEF n
<1>4. PICK g : PartOf(in, g, 0)
  BY <1>0, <1>3
<1> DEFINE h == [at \in Spots(in) |-> g[at]]
<1>5. ASSUME NEW at \in Spots(in) PROVE h[at] = Turn(in, h, at[1], at[2])
  <2>1. at[1] \in 0..(size + 1) /\ at[2] \in 0..size /\ at[1] \in Nat /\ at[1] >= 0
    BY <1>0, <1>a
  <2>2. SameFrom(in, h, g, at[1] + 1)
    BY <1>0, <1>a, <1>4 DEF SameFrom, PartOf
  <2>3. h[at] = g[at] /\ g[at] = Turn(in, g, at[1], at[2])
    BY <1>4, <2>1 DEF PartOf
  <2> HIDE DEF h
  <2>4. Turn(in, h, at[1], at[2]) = Turn(in, g, at[1], at[2])
    BY <2>1, <2>2, TurnLocal DEF size
  <2> QED
    BY <2>3, <2>4
<1>6. h = [at \in Spots(in) |-> h[at]]
  OBVIOUS
<1> HIDE DEF h
<1>7. h = [at \in Spots(in) |-> Turn(in, h, at[1], at[2])]
  BY <1>5, <1>6
<1> QED
  BY <1>7 DEF IsItems

\* What decode returns, in terms of its loop.
LEMMA DecodeItems ==
  ASSUME NEW in \in Seq(Byte)
  PROVE  /\ \A o \in 0..(Len(in) + 1), e \in 0..Len(in) :
              Items(in)[<<o, e>>] = Turn(in, Items(in), o, e)
         /\ decode(in) = IF Len(in) = 0 \/ Items(in)[<<0, 1>>].next > Len(in)
                         THEN Thrown ELSE Items(in)[<<0, 1>>].list[1]
<1>1. IsItems(in, Items(in))
  BY ItemsExist DEF Items
<1>2. ASSUME NEW o \in 0..(Len(in) + 1), NEW e \in 0..Len(in)
      PROVE  Items(in)[<<o, e>>] = Turn(in, Items(in), o, e)
  <2> DEFINE at == <<o, e>>
             f == Items(in)
  <2>1. at \in Spots(in) /\ at[1] = o /\ at[2] = e
    BY DEF Spots
  <2> HIDE DEF at, f
  <2>2. f[at] = Turn(in, f, at[1], at[2])
    BY <1>1, <2>1 DEF IsItems, f
  <2> QED
    BY <2>1, <2>2 DEF at, f
<1>3. decode(in) = IF Len(in) = 0 \/ Items(in)[<<0, 1>>].next > Len(in)
                   THEN Thrown ELSE Items(in)[<<0, 1>>].list[1]
  BY DEF decode, Items, IsItems, Turn, Spots
<1> QED
  BY <1>2, <1>3

-----------------------------------------------------------------------------
(* Reading back one item.                                                  *)

\* A length that a std::size_t holds: at most eight bytes.
IsSize(n) == n \in Nat /\ Len(BigEndian(n)) <= 8

\* The bytes s stand in the input at an offset.
BytesAt(in, o, s) == o + Len(s) <= Len(in) /\ \A j \in 1..Len(s) : in[o + j] = s[j]

\* u is two strings of bytes, one after the other.
Concat(u, s, t) == s \in Seq(Byte) /\ t \in Seq(Byte) /\ u = s \o t

\* Of two strings one after the other, each stands at its place.
LEMMA AtConcat ==
  ASSUME NEW in \in Seq(Byte), NEW o \in Nat, NEW s, NEW t, NEW u,
         Concat(u, s, t), BytesAt(in, o, u)
  PROVE  BytesAt(in, o, s) /\ BytesAt(in, o + Len(s), t)
<1>1. /\ Len(s) \in Nat /\ Len(t) \in Nat /\ Len(in) \in Nat /\ Len(u) = Len(s) + Len(t)
      /\ \A j \in 1..Len(s) : u[j] = s[j]
      /\ \A j \in 1..Len(t) : u[Len(s) + j] = t[j]
  BY DEF Concat
<1>2. o + Len(u) <= Len(in) /\ \A j \in 1..Len(u) : in[o + j] = u[j]
  BY DEF BytesAt
<1>3. BytesAt(in, o, s)
  <2>1. \A j \in 1..Len(s) : j \in 1..Len(u)
    BY <1>1
  <2> QED
    BY <1>1, <1>2, <2>1 DEF BytesAt
<1>4. BytesAt(in, o + Len(s), t)
  <2>1. ASSUME NEW j \in 1..Len(t) PROVE in[(o + Len(s)) + j] = t[j]
    <3>1. Len(s) + j \in 1..Len(u) /\ (o + Len(s)) + j = o + (Len(s) + j)
      BY <1>1
    <3> QED
      BY <1>1, <1>2, <3>1
  <2> QED
    BY <1>1, <1>2, <2>1 DEF BytesAt
<1> QED
  BY <1>3, <1>4

\* The part of the input where a string stands is the string.
LEMMA AtSub ==
  ASSUME NEW in \in Seq(Byte), NEW o \in Nat, NEW s \in Seq(Byte), BytesAt(in, o, s)
  PROVE  SubSeq(in, o + 1, o + Len(s)) = s
<1> DEFINE u == SubSeq(in, o + 1, o + Len(s))
<1>1. Len(s) \in Nat /\ Len(in) \in Nat /\ o + Len(s) <= Len(in)
  BY DEF BytesAt
<1>2. u \in Seq(Byte) /\ Len(u) = Len(s)
  BY <1>1
<1>3. ASSUME NEW j \in 1..Len(s) PROVE u[j] = s[j]
  <2>1. u[j] = in[o + j]
    BY <1>1
  <2> QED
    BY <2>1 DEF BytesAt
<1> HIDE DEF u
<1>4. u = [j \in 1..Len(u) |-> u[j]] /\ s = [j \in 1..Len(s) |-> s[j]]
  BY <1>2
<1>5. u = s
  BY <1>2, <1>3, <1>4
<1> QED
  BY <1>5 DEF u

\* The bytes of such a length.
LEMMA SizeBytes ==
  ASSUME NEW n, IsSize(n)
  PROVE  /\ n \in Nat /\ BigEndian(n) \in Seq(Byte) /\ toUint(BigEndian(n)) = n
         /\ Len(BigEndian(n)) \in 0..8
         /\ n # 0 => Len(BigEndian(n)) \in 1..8
<1>1. n \in Nat /\ Len(BigEndian(n)) <= 8
  BY DEF IsSize
<1>2. BigEndian(n) \in Seq(Byte) /\ toUint(BigEndian(n)) = n
      /\ (n # 0 => Len(BigEndian(n)) > 0)
  BY <1>1, UintRoundTrip
<1> DEFINE k == Len(BigEndian(n))
<1>3. k \in Nat
  BY <1>2
<1>4. k <= 8 /\ (n # 0 => k > 0)
  BY <1>1, <1>2
<1>5. k \in 0..8 /\ (n # 0 => k \in 1..8)
  <2> HIDE DEF k
  <2> QED
    BY <1>3, <1>4
<1> QED
  BY <1>1, <1>2, <1>5

\* The prefix bytes h of a length, in their short and in their long form.
LengthForm(n, base, h) ==
  /\ h \in Seq(Byte) /\ Len(h) \in 1..9
  /\ h[1] \in base..(base + 63)
  /\ n < 56  => h = <<base + n>>
  /\ n >= 56 => h = <<base + 55 + Len(BigEndian(n))>> \o BigEndian(n)

\* What encodeLength writes.
LEMMA LengthBytes ==
  ASSUME NEW n, IsSize(n), NEW base \in {128, 192}
  PROVE  LengthForm(n, base, encodeLength(n, base))
<1> DEFINE big == BigEndian(n)
           k == Len(big)
           h == encodeLength(n, base)
<1>1. n \in Nat /\ big \in Seq(Byte) /\ k \in 0..8 /\ (n # 0 => k \in 1..8)
  BY SizeBytes
<1>2. h = IF n < 56 THEN <<base + n>> ELSE <<base + 55 + k>> \o big
  BY DEF encodeLength
<1>3. CASE n < 56
  <2>1. h = <<base + n>>
    BY <1>2, <1>3
  <2>2. base + n \in Byte /\ base + n \in base..(base + 63)
    BY <1>1, <1>3 DEF Byte
  <2> HIDE DEF h
  <2>3. h \in Seq(Byte) /\ Len(h) = 1 /\ h[1] = base + n
    BY <2>1, <2>2
  <2>4. ~(n >= 56)
    BY <1>1, <1>3
  <2> QED
    BY <2>1, <2>2, <2>3, <2>4 DEF h, LengthForm
<1>4. CASE n >= 56
  <2> DEFINE b == base + 55 + k
  <2>1. h = <<b>> \o big /\ ~(n < 56)
    BY <1>1, <1>2, <1>4
  <2>2. b \in Byte /\ b \in base..(base + 63)
    <3> HIDE DEF k
    <3>1. base = 128 \/ base = 192
      OBVIOUS
    <3> QED
      BY <1>1, <1>4, <3>1 DEF Byte
  <2> HIDE DEF h, b
  <2>3. h \in Seq(Byte) /\ Len(h) = 1 + k /\ h[1] = b
    BY <1>1, <2>1, <2>2
  <2>4. Len(h) \in 1..9
    <3> HIDE DEF k
    <3> QED
      BY <1>1, <2>3
  <2> QED
    BY <2>1, <2>2, <2>3, <2>4 DEF h, b, LengthForm
<1> QED
  BY <1>1, <1>3, <1>4

\* readLen, at the length of an item.
LengthRead(in, o, n, base) ==
  /\ in[o + 1] \in base..(base + 63)
  /\ readLen(in, o, base) = [start |-> o + Len(encodeLength(n, base)), len |-> n]

\* readLen gives back the length that encodeLength wrote.
LEMMA LengthReadBack ==
  ASSUME NEW in \in Seq(Byte), NEW o \in Nat, NEW n, IsSize(n), NEW base \in {128, 192},
         BytesAt(in, o, encodeLength(n, base))
  PROVE  LengthRead(in, o, n, base)
<1> DEFINE h == encodeLength(n, base)
           big == BigEndian(n)
           len == in[o + 1] - base
           num == len - 55
<1>0. LengthForm(n, base, h)
  BY LengthBytes
<1>1. /\ h \in Seq(Byte) /\ Len(h) \in 1..9
      /\ h[1] \in base..(base + 63)
      /\ n < 56  => h = <<base + n>>
      /\ n >= 56 => h = <<base + 55 + Len(big)>> \o big
  BY <1>0 DEF LengthForm
<1>2. n \in Nat /\ big \in Seq(Byte) /\ Len(big) \in 0..8
      /\ (n # 0 => Len(big) \in 1..8) /\ toUint(big) = n
  BY SizeBytes
<1> HIDE DEF h, big
<1>3. BytesAt(in, o, h)
  BY DEF h
<1>4. in[o + 1] = h[1]
  BY <1>1, <1>3 DEF BytesAt
<1>5. in[o + 1] \in base..(base + 63)
  BY <1>1, <1>4
<1>6. readLen(in, o, base) =
        CASE len <= 55 -> [start |-> o + 1, len |-> len]
          [] len > 55 /\ o + 1 + num <= Len(in) ->
               [start |-> o + 1 + num, len |-> toUint(SubSeq(in, o + 2, o + 1 + num))]
          [] OTHER -> [start |-> Len(in) + 1, len |-> 0]
  BY DEF readLen
<1>7. CASE n < 56
  <2>1. h = <<base + n>> /\ Len(h) = 1 /\ h[1] = base + n
    BY <1>1, <1>7
  <2>2. len = n /\ len <= 55
    BY <1>2, <1>4, <1>7, <2>1
  <2> HIDE DEF len
  <2> QED
    BY <1>2, <1>5, <1>6, <2>1, <2>2 DEF h, LengthRead
<1>8. CASE n >= 56
  <2> DEFINE b == base + 55 + Len(big)
  <2>1. h = <<b>> \o big
    BY <1>1, <1>8
  <2>2. b \in Byte
    <3> DEFINE k == Len(big)
    <3>1. k \in 0..8 /\ (base = 128 \/ base = 192) /\ b = base + 55 + k
      BY <1>2
    <3> HIDE DEF k, b
    <3> QED
      BY <3>1 DEF Byte
  <2> HIDE DEF b
  <2>3. Len(<<b>>) = 1 /\ <<b>> \in Seq(Byte) /\ h[1] = b /\ Len(h) = 1 + Len(big)
    BY <1>2, <2>1, <2>2
  <2>4. BytesAt(in, o + 1, big)
    <3> DEFINE s == <<b>>
    <3>1. s \in Seq(Byte) /\ Len(s) = 1 /\ h = s \o big /\ big \in Seq(Byte)
      BY <1>2, <2>1, <2>3
    <3> HIDE DEF s
    <3>2. Concat(h, s, big)
      BY <3>1 DEF Concat
    <3>3. BytesAt(in, o + Len(s), big)
      BY <1>3, <3>2, AtConcat
    <3> QED
      BY <3>1, <3>3
  <2>5. o + 1 + Len(big) <= Len(in) /\ Len(big) > 0
    <3> DEFINE k == Len(big)
    <3>1. (o + 1) + k <= Len(in) /\ (n # 0 => k \in 1..8)
      BY <1>2, <2>4 DEF BytesAt
    <3> HIDE DEF k
    <3>2. k \in 1..8 /\ o + 1 + k = (o + 1) + k
      BY <1>2, <1>8, <3>1
    <3>3. o + 1 + k <= Len(in) /\ k > 0
      BY <3>1, <3>2
    <3> QED
      BY <3>3 DEF k
  <2>6. SubSeq(in, (o + 1) + 1, (o + 1) + Len(big)) = big
    BY <1>2, <2>4, AtSub
  <2>7. num = Len(big) /\ len > 55 /\ ~(len <= 55)
    BY <1>2, <1>4, <2>3, <2>5 DEF b
  <2>8. toUint(SubSeq(in, o + 2, o + 1 + num)) = n
    <3>1. (o + 1) + 1 = o + 2
      OBVIOUS
    <3> QED
      BY <1>2, <2>6, <2>7, <3>1
  <2> DEFINE value == toUint(SubSeq(in, o + 2, o + 1 + num))
  <2> HIDE DEF len, num, value
  <2>9. readLen(in, o, base) = [start |-> o + 1 + num, len |-> value]
    BY <1>6, <2>5, <2>7 DEF value
  <2>10. o + 1 + num = o + Len(h)
    BY <1>2, <2>3, <2>7
  <2> QED
    BY <1>5, <2>8, <2>9, <2>10 DEF h, value, LengthRead
<1> QED
  BY <1>2, <1>7, <1>8

\* What encodeBytes writes.
LEMMA EncodedBytes ==
  ASSUME NEW c \in Seq(Byte), IsSize(Len(c))
  PROVE  /\ encodeBytes(c) \in Seq(Byte)
         /\ Len(encodeBytes(c)) \in Nat /\ Len(encodeBytes(c)) >= 1
         /\ Len(encodeBytes(c)) <= Len(c) + 9
<1> DEFINE h == encodeLength(Len(c), 128)
<1>0. LengthForm(Len(c), 128, h)
  BY LengthBytes
<1>1. h \in Seq(Byte) /\ Len(h) \in 1..9 /\ Len(c) \in Nat
  BY <1>0 DEF LengthForm
<1> HIDE DEF h
<1>2. h \o c \in Seq(Byte) /\ Len(h \o c) = Len(h) + Len(c)
  BY <1>1
<1>3. (encodeBytes(c) = c /\ Len(c) = 1) \/ encodeBytes(c) = h \o c
  BY DEF encodeBytes, h
<1>4. CASE encodeBytes(c) = c /\ Len(c) = 1
  BY <1>4
<1>5. CASE encodeBytes(c) = h \o c
  <2> DEFINE a == Len(h)
             b == Len(c)
  <2>1. Len(encodeBytes(c)) = a + b /\ a \in 1..9 /\ b \in Nat
    BY <1>1, <1>2, <1>5
  <2> HIDE DEF a, b
  <2>2. a + b \in Nat /\ a + b >= 1 /\ a + b <= b + 9
    BY <2>1
  <2> QED
    BY <1>2, <1>5, <2>1, <2>2 DEF b
<1> QED
  BY <1>3, <1>4, <1>5

\* A turn of the decoder at a string that encodeBytes wrote takes the string.
LEMMA ItemReadBack ==
  ASSUME NEW in \in Seq(Byte), NEW f, NEW o \in Nat, NEW e \in Nat, o < e,
         NEW c \in Seq(Byte), IsSize(Len(c)), BytesAt(in, o, encodeBytes(c))
  PROVE  Turn(in, f, o, e) = After(f, String(c), o + Len(encodeBytes(c)), e)
<1> DEFINE enc == encodeBytes(c)
           h == encodeLength(Len(c), 128)
<1>0. Len(in) \in Nat /\ Len(c) \in Nat
  OBVIOUS
<1>1. TurnTable(in, f, o, e)
  BY <1>0, TurnCases
<1>2. enc = IF Len(c) = 1 /\ c[1] < 128 THEN c ELSE h \o c
  BY DEF encodeBytes
<1>3. BytesAt(in, o, enc)
  OBVIOUS
<1> HIDE DEF enc
<1>4. CASE Len(c) = 1 /\ c[1] < 128
  <2>1. enc = c /\ Len(enc) = 1
    BY <1>2, <1>4
  <2>2. in[o + 1] = c[1]
    BY <1>3, <2>1 DEF BytesAt
  <2>3. c[1] \in Nat /\ c = <<c[1]>>
    BY <1>4, ByteNat
  <2>4. in[o + 1] \in 0..127
    <3> DEFINE b == c[1]
    <3>1. b \in Nat /\ b < 128 /\ in[o + 1] = b
      BY <1>4, <2>2, <2>3
    <3> HIDE DEF b
    <3> QED
      BY <3>1
  <2>5. Turn(in, f, o, e) = After(f, String(<<in[o + 1]>>), o + 1, e)
    BY <1>1, <2>4 DEF TurnTable
  <2> QED
    BY <2>1, <2>2, <2>3, <2>5 DEF enc
<1>5. CASE ~(Len(c) = 1 /\ c[1] < 128)
  <2>1. enc = h \o c
    BY <1>2, <1>5
  <2>2. h \in Seq(Byte) /\ Len(h) \in Nat
    <3>1. LengthForm(Len(c), 128, h)
      BY LengthBytes
    <3> QED
      BY <3>1 DEF LengthForm
  <2> HIDE DEF h
  <2>3. BytesAt(in, o, h) /\ BytesAt(in, o + Len(h), c) /\ Len(enc) = Len(h) + Len(c)
    <3>1. Concat(enc, h, c) /\ Len(enc) = Len(h) + Len(c)
      BY <2>1, <2>2 DEF Concat
    <3> QED
      BY <1>3, <3>1, AtConcat
  <2>4. in[o + 1] \in 128..191 /\ readLen(in, o, 128) = [start |-> o + Len(h), len |-> Len(c)]
    <3>1. LengthRead(in, o, Len(c), 128)
      BY <2>3, LengthReadBack DEF h
    <3> QED
      BY <3>1 DEF LengthRead, h
  <2>5. LengthAt(in, o) = readLen(in, o, 128)
    <3> DEFINE b == in[o + 1]
    <3>1. b \in 128..191
      BY <2>4
    <3>2. LengthAt(in, o) = readLen(in, o, IF b < 192 THEN 128 ELSE 192)
      BY DEF LengthAt
    <3> HIDE DEF b
    <3> QED
      BY <3>1, <3>2
  <2>6. LengthAt(in, o).start = o + Len(h) /\ EndOf(in, o) = (o + Len(h)) + Len(c)
    BY <2>4, <2>5 DEF EndOf
  <2>7. EndOf(in, o) \in Nat /\ EndOf(in, o) <= Len(in)
    BY <1>0, <2>2, <2>3, <2>6 DEF BytesAt
  <2>8. SubSeq(in, (o + Len(h)) + 1, (o + Len(h)) + Len(c)) = c
    <3>1. o + Len(h) \in Nat
      BY <2>2
    <3> QED
      BY <2>3, <3>1, AtSub
  <2>9. Turn(in, f, o, e) =
          After(f, String(SubSeq(in, LengthAt(in, o).start + 1, EndOf(in, o))), EndOf(in, o), e)
    BY <1>1, <2>4, <2>7 DEF TurnTable
  <2>10. EndOf(in, o) = o + Len(enc)
    BY <1>0, <2>2, <2>3, <2>6
  <2> QED
    BY <2>6, <2>8, <2>9, <2>10 DEF enc
<1> QED
  BY <1>4, <1>5

-----------------------------------------------------------------------------
(* Reading back a list.                                                    *)

IsJoined(items, m, f) ==
  f = [i \in 0..m |-> IF i = 0 THEN <<>> ELSE f[i - 1] \o items[i]]

\* The payload of a list, after each of its items.
Joined(items) == CHOOSE f : IsJoined(items, Len(items), f)

\* The recursion of Payload defines a function.
LEMMA JoinedExists ==
  ASSUME NEW items, Len(items) \in Nat
  PROVE  \E f : IsJoined(items, Len(items), f)
<1> DEFINE n == Len(items)
           S == {m \in Nat : \E f : IsJoined(items, m, f)}
<1>0. n \in Nat
  OBVIOUS
<1> HIDE DEF n
<1>1. 0 \in S
  <2> DEFINE f == [i \in 0..0 |-> <<>>]
  <2>1. f = [i \in 0..0 |-> IF i = 0 THEN <<>> ELSE f[i - 1] \o items[i]]
    OBVIOUS
  <2> QED
    BY <2>1 DEF IsJoined
<1>2. ASSUME NEW m \in 1..n, m - 1 \in S PROVE m \in S
  <2>0. m \in Nat /\ m # 0 /\ m - 1 \in Nat
    BY <1>0
  <2>1. PICK f : IsJoined(items, m - 1, f)
    BY <1>2
  <2> DEFINE g == [i \in 0..m |-> IF i = m THEN f[m - 1] \o items[m] ELSE f[i]]
  <2>2. ASSUME NEW i \in 0..m
        PROVE  g[i] = IF i = 0 THEN <<>> ELSE g[i - 1] \o items[i]
    <3>1. CASE i = 0
      <4>1. g[0] = f[0]
        BY <2>0, <3>1
      <4>2. f[0] = <<>>
        BY <2>0, <2>1 DEF IsJoined
      <4> QED
        BY <3>1, <4>1, <4>2
    <3>2. CASE i # 0
      <4>1. i - 1 \in 0..(m - 1) /\ g[i - 1] = f[i - 1]
        BY <2>0, <3>2
      <4>2. CASE i = m
        BY <3>2, <4>1, <4>2
      <4>3. CASE i # m
        <5>1. i \in 0..(m - 1) /\ g[i] = f[i]
          BY <4>3
        <5>2. f[i] = f[i - 1] \o items[i]
          BY <2>1, <3>2, <5>1 DEF IsJoined
        <5> QED
          BY <3>2, <4>1, <5>1, <5>2
      <4> QED
        BY <4>2, <4>3
    <3> QED
      BY <3>1, <3>2
  <2>3. g = [i \in 0..m |-> g[i]]
    OBVIOUS
  <2> HIDE DEF g
  <2>4. g = [i \in 0..m |-> IF i = 0 THEN <<>> ELSE g[i - 1] \o items[i]]
    BY <2>2, <2>3
  <2> QED
    BY <2>0, <2>4 DEF IsJoined
<1>3. n \in S
  <2>1. \A i \in 1..n : i - 1 \in S => i \in S
    BY <1>2
  <2> HIDE DEF S
  <2>2. 0..n \subseteq S
    BY <1>0, <1>1, <2>1, UpTo
  <2>3. n \in 0..n
    BY <1>0
  <2> QED
    BY <2>2, <2>3
<1> QED
  BY <1>3 DEF n

\* The payload, one item at a time.
LEMMA JoinedStep ==
  ASSUME NEW items \in Seq(Seq(Byte))
  PROVE  /\ Payload(items) = Joined(items)[Len(items)]
         /\ Joined(items)[0] = <<>>
         /\ \A i \in 1..Len(items) : Concat(Joined(items)[i], Joined(items)[i - 1], items[i])
         /\ \A i \in 0..Len(items) : Joined(items)[i] \in Seq(Byte)
<1> DEFINE n == Len(items)
           f == Joined(items)
           S == {i \in Nat : i <= n => f[i] \in Seq(Byte)}
<1>1. n \in Nat /\ \A i \in 1..n : items[i] \in Seq(Byte)
  OBVIOUS
<1>2. Payload(items) = f[n]
  BY DEF Payload, Joined, IsJoined
<1>3. IsJoined(items, n, f)
  BY <1>1, JoinedExists DEF Joined
<1> HIDE DEF n, f
<1>a. ASSUME NEW i \in 0..n PROVE f[i] = IF i = 0 THEN <<>> ELSE f[i - 1] \o items[i]
  BY <1>3 DEF IsJoined
<1>b. 0 \in 0..n /\ \A i \in 1..n : i \in 0..n /\ i # 0 /\ i \in Nat
  BY <1>1
<1>4. f[0] = <<>> /\ \A i \in 1..n : f[i] = f[i - 1] \o items[i]
  BY <1>a, <1>b
<1>5. 0 \in S
  <2>1. <<>> \in Seq(Byte)
    OBVIOUS
  <2> QED
    BY <1>4, <2>1
<1>6. ASSUME NEW i \in 1..n, i - 1 \in S PROVE i \in S
  <2>1. f[i - 1] \in Seq(Byte) /\ items[i] \in Seq(Byte)
    BY <1>1, <1>6
  <2>2. f[i - 1] \o items[i] \in Seq(Byte)
    BY <2>1
  <2>3. f[i] \in Seq(Byte)
    BY <1>4, <2>2
  <2> QED
    BY <1>b, <2>3
<1>7. 0..n \subseteq S
  <2>1. \A i \in 1..n : i - 1 \in S => i \in S
    BY <1>6
  <2> HIDE DEF S
  <2> QED
    BY <1>1, <1>5, <2>1, UpTo
<1>8. \A i \in 0..n : f[i] \in Seq(Byte)
  BY <1>1, <1>7
<1>9. ASSUME NEW i \in 1..n PROVE Concat(f[i], f[i - 1], items[i])
  <2>1. f[i - 1] \in Seq(Byte)
    BY <1>1, <1>8
  <2> QED
    BY <1>1, <1>4, <2>1 DEF Concat
<1> QED
  BY <1>2, <1>4, <1>8, <1>9 DEF n, f

\* Where a payload stands, each of its items stands after the ones before it.
LEMMA ItemsAt ==
  ASSUME NEW in \in Seq(Byte), NEW o \in Nat, NEW items \in Seq(Seq(Byte)),
         BytesAt(in, o, Payload(items))
  PROVE  \A k \in 1..Len(items) :
           /\ BytesAt(in, o + Len(Joined(items)[k - 1]), items[k])
           /\ Len(Joined(items)[k]) = Len(Joined(items)[k - 1]) + Len(items[k])
<1> DEFINE n == Len(items)
           f == Joined(items)
           S == {m \in Nat : m <= n => BytesAt(in, o, f[n - m])}
<1>1. n \in Nat
  OBVIOUS
<1>2. /\ Payload(items) = f[n]
      /\ \A i \in 1..n : Concat(f[i], f[i - 1], items[i])
  BY JoinedStep
<1> HIDE DEF n, f
<1>3. 0 \in S
  BY <1>1, <1>2
<1>4. ASSUME NEW m \in 1..n, m - 1 \in S PROVE m \in S
  <2> DEFINE i == n - (m - 1)
  <2>1. m \in Nat /\ i \in 1..n /\ i - 1 = n - m
    BY <1>1
  <2>2. BytesAt(in, o, f[i])
    BY <1>1, <1>4
  <2>3. Concat(f[i], f[i - 1], items[i])
    BY <1>2, <2>1
  <2> HIDE DEF i
  <2>4. BytesAt(in, o, f[i - 1])
    BY <2>2, <2>3, AtConcat
  <2> QED
    BY <2>1, <2>4
<1>5. 0..n \subseteq S
  <2>1. \A i \in 1..n : i - 1 \in S => i \in S
    BY <1>4
  <2> HIDE DEF S
  <2> QED
    BY <1>1, <1>3, <2>1, UpTo
<1>6. ASSUME NEW k \in 1..n
      PROVE  /\ BytesAt(in, o + Len(f[k - 1]), items[k])
             /\ Len(f[k]) = Len(f[k - 1]) + Len(items[k])
  <2>1. n - k \in 0..n /\ n - k <= n /\ n - (n - k) = k
    BY <1>1
  <2>2. n - k \in S
    BY <1>5, <2>1
  <2>3. BytesAt(in, o, f[k])
    BY <2>1, <2>2
  <2>4. Concat(f[k], f[k - 1], items[k])
    BY <1>2
  <2>5. BytesAt(in, o + Len(f[k - 1]), items[k])
    BY <2>3, <2>4, AtConcat
  <2>6. Len(f[k]) = Len(f[k - 1]) + Len(items[k])
    BY <2>4 DEF Concat
  <2> QED
    BY <2>5, <2>6
<1> QED
  BY <1>6 DEF n, f

\* The items of a list of strings, as encodeBytes writes them.
Encoded(contents) == [i \in 1..Len(contents) |-> encodeBytes(contents[i])]

\* The last m of these strings, as the decoder returns them.
LastItems(contents, m) ==
  [i \in 1..m |-> String(contents[(Len(contents) - m) + i])]

\* One more of the last strings.
LEMMA LastItemsStep ==
  ASSUME NEW contents, Len(contents) \in Nat, NEW m \in 1..Len(contents)
  PROVE  <<String(contents[(Len(contents) - m) + 1])>> \o LastItems(contents, m - 1) =
           LastItems(contents, m)
<1> DEFINE n == Len(contents)
           k == n - m
           V(j) == String(contents[j])
           T == {V(k + i) : i \in 1..m}
           s == <<V(k + 1)>>
           t == [i \in 1..(m - 1) |-> V((n - (m - 1)) + i)]
           u == [i \in 1..m |-> V(k + i)]
<1>1. n \in Nat /\ m \in Nat /\ m - 1 \in Nat /\ k \in Nat /\ 1 \in 1..m
  OBVIOUS
<1>2. \A i \in 1..(m - 1) : (n - (m - 1)) + i = k + (i + 1) /\ i + 1 \in 1..m
  BY <1>1
<1> HIDE DEF n, k, V
<1>3. s \in Seq(T) /\ Len(s) = 1 /\ s[1] = V(k + 1)
  <2>1. V(k + 1) \in T
    BY <1>1
  <2> HIDE DEF T
  <2> QED
    BY <2>1
<1>4. t \in Seq(T) /\ Len(t) = m - 1 /\ \A i \in 1..(m - 1) : t[i] = V(k + (i + 1))
  <2>1. ASSUME NEW i \in 1..(m - 1) PROVE t[i] = V(k + (i + 1)) /\ t[i] \in T
    BY <1>2
  <2>2. t = [i \in 1..(m - 1) |-> t[i]]
    OBVIOUS
  <2> HIDE DEF t, T
  <2>3. t \in [1..(m - 1) -> T]
    BY <2>1, <2>2
  <2> QED
    BY <1>1, <2>1, <2>3
<1>5. u = [i \in 1..m |-> u[i]] /\ \A i \in 1..m : u[i] = V(k + i)
  OBVIOUS
<1> HIDE DEF s, t, u, T
<1> DEFINE w == s \o t
<1>6. w \in Seq(T) /\ Len(w) = m /\ w[1] = s[1]
      /\ \A i \in 2..m : w[i] = t[i - 1]
  <2>1. w \in Seq(T) /\ Len(w) = Len(s) + Len(t)
    <3>1. s \in Seq(T) /\ t \in Seq(T)
      BY <1>3, <1>4
    <3> QED
      BY ONLY <3>1
  <2>2. \A i \in 1..Len(w) : w[i] = IF i <= Len(s) THEN s[i] ELSE t[i - Len(s)]
    BY <1>3, <1>4, <2>1
  <2> HIDE DEF w
  <2>3. Len(w) = m
    BY <1>1, <1>3, <1>4, <2>1
  <2>4. \A i \in 1..m : w[i] = IF i <= 1 THEN s[i] ELSE t[i - 1]
    BY <1>3, <2>2, <2>3
  <2>5. w[1] = s[1]
    BY <1>1, <2>4
  <2>6. ASSUME NEW i \in 2..m PROVE w[i] = t[i - 1]
    <3>1. i \in 1..m /\ ~(i <= 1)
      BY <1>1
    <3> QED
      BY <2>4, <3>1
  <2> QED
    BY <2>1, <2>3, <2>5, <2>6
<1> HIDE DEF w
<1>7. ASSUME NEW i \in 1..m PROVE w[i] = u[i]
  <2>1. CASE i = 1
    BY <1>3, <1>5, <1>6, <2>1
  <2>2. CASE i # 1
    <3>1. i \in 2..m /\ i - 1 \in 1..(m - 1) /\ (i - 1) + 1 = i
      BY <1>1, <2>2
    <3>2. w[i] = t[i - 1] /\ t[i - 1] = V(k + ((i - 1) + 1)) /\ u[i] = V(k + i)
      BY <1>4, <1>5, <1>6, <3>1
    <3> QED
      BY <3>1, <3>2
  <2> QED
    BY <2>1, <2>2
<1>8. w = [i \in 1..m |-> w[i]]
  BY <1>6
<1>9. w = u
  BY <1>5, <1>7, <1>8
<1> QED
  BY <1>9 DEF w, s, t, u, V, k, n, LastItems

\* From any of its items on, the decoder collects the rest of a list of strings.
LEMMA ListLoop ==
  ASSUME NEW contents \in Seq(Seq(Byte)), NEW in \in Seq(Byte), NEW o \in Nat,
         \A i \in 1..Len(contents) : IsSize(Len(contents[i])),
         BytesAt(in, o, Payload(Encoded(contents)))
  PROVE  LET end == o + Len(Payload(Encoded(contents)))
         IN  Items(in)[<<o, end>>] = [list |-> LastItems(contents, Len(contents)), next |-> end]
<1> DEFINE n == Len(contents)
           encs == Encoded(contents)
           J == Joined(encs)
           P == Payload(encs)
           end == o + Len(P)
           size == Len(in)
           place(m) == o + Len(J[n - m])
           F == Items(in)
           S == {m \in Nat : m <= n =>
                   F[<<place(m), end>>] = [list |-> LastItems(contents, m), next |-> end]}
<1>1. n \in Nat /\ size \in Nat /\ \A i \in 1..n : contents[i] \in Seq(Byte)
  OBVIOUS
<1>2. /\ encs \in Seq(Seq(Byte)) /\ Len(encs) = n
      /\ \A i \in 1..n : encs[i] = encodeBytes(contents[i]) /\ Len(encs[i]) \in Nat /\ Len(encs[i]) >= 1
  <2>1. \A i \in 1..n : encodeBytes(contents[i]) \in Seq(Byte) /\ Len(encodeBytes(contents[i])) \in Nat
          /\ Len(encodeBytes(contents[i])) >= 1
    BY <1>1, EncodedBytes
  <2>2. encs = [i \in 1..n |-> encodeBytes(contents[i])]
    BY DEF Encoded
  <2> HIDE DEF encs, n
  <2>3. encs \in [1..n -> Seq(Byte)]
    BY <2>1, <2>2
  <2> QED
    BY <1>1, <2>1, <2>2, <2>3
<1>3. /\ P = J[n] /\ J[0] = <<>>
      /\ \A i \in 0..n : J[i] \in Seq(Byte)
  BY <1>2, JoinedStep
<1> HIDE DEF encs, P
<1>4. \A k \in 1..n : BytesAt(in, o + Len(J[k - 1]), encs[k]) /\ Len(J[k]) = Len(J[k - 1]) + Len(encs[k])
  BY <1>2, ItemsAt DEF encs, P
<1>5. end \in Nat /\ end <= size /\ Len(P) \in Nat
  <2>1. P \in Seq(Byte)
    BY <1>1, <1>3
  <2>2. BytesAt(in, o, P)
    BY DEF P, encs
  <2> QED
    BY <1>1, <2>1, <2>2 DEF BytesAt
<1> HIDE DEF J, F, end
<1>6. ASSUME NEW p \in 0..(size + 1) PROVE F[<<p, end>>] = Turn(in, F, p, end)
  <2>1. end \in 0..size
    BY <1>1, <1>5
  <2> QED
    BY <1>6, <2>1, DecodeItems DEF F
<1>7. \A i \in 0..n : Len(J[i]) \in Nat
  BY <1>3
<1> HIDE DEF n, size
<1>8. 0 \in S
  <2>1. n - 0 = n /\ place(0) = end /\ end \in 0..(size + 1)
    BY <1>1, <1>3, <1>5 DEF end
  <2>2. TurnTable(in, F, end, end)
    BY <1>1, <1>5, TurnCases DEF size
  <2>3. Turn(in, F, end, end) = [list |-> <<>>, next |-> end]
    BY <1>5, <2>2 DEF TurnTable
  <2>4. LastItems(contents, 0) = <<>>
    BY DEF LastItems
  <2>5. F[<<place(0), end>>] = [list |-> LastItems(contents, 0), next |-> end]
    BY <1>6, <2>1, <2>3, <2>4
  <2> HIDE DEF place
  <2> QED
    BY <2>5
<1>9. ASSUME NEW m \in 1..n, m - 1 \in S PROVE m \in S
  <2> DEFINE k == (n - m) + 1
             p == place(m)
             q == place(m - 1)
             c == contents[k]
  <2>1. m \in Nat /\ k \in 1..n /\ k - 1 = n - m /\ n - (m - 1) = k /\ k - 1 \in 0..n /\ m - 1 <= n
    BY <1>1
  <2>2. F[<<q, end>>] = [list |-> LastItems(contents, m - 1), next |-> end]
    BY <1>9, <2>1
  <2>3. encs[k] = encodeBytes(c) /\ c \in Seq(Byte) /\ IsSize(Len(c)) /\ Len(encs[k]) \in Nat
        /\ Len(encs[k]) >= 1
    BY <1>1, <1>2, <2>1 DEF n
  <2>4. BytesAt(in, p, encodeBytes(c)) /\ q = p + Len(encs[k]) /\ p \in Nat
    <3>1. BytesAt(in, o + Len(J[k - 1]), encs[k]) /\ Len(J[k]) = Len(J[k - 1]) + Len(encs[k])
      BY <1>4, <2>1
    <3>2. p = o + Len(J[k - 1]) /\ q = o + Len(J[k]) /\ Len(J[k - 1]) \in Nat
      BY <1>7, <2>1
    <3> HIDE DEF p, q
    <3> DEFINE a == Len(J[k - 1])
               b == Len(encs[k])
    <3>3. a \in Nat /\ b \in Nat /\ p = o + a /\ q = o + (a + b)
      BY <2>3, <3>1, <3>2
    <3> HIDE DEF a, b
    <3>4. q = p + b /\ p \in Nat
      BY <3>3
    <3> QED
      BY <2>3, <3>1, <3>2, <3>4 DEF b
  <2> HIDE DEF p, q, c
  <2>5. p + Len(encs[k]) <= size
    BY <2>3, <2>4 DEF BytesAt, size
  <2>6. p \in 0..(size + 1) /\ p < end
    <3> DEFINE L(i) == Len(J[i])
    <3>1. L(k) <= L(n)
      \* The payload only grows.
      <4> DEFINE G == {i \in Nat : i <= n - k => L(k) <= L(k + i)}
      <4>1. \A i \in 0..n : L(i) \in Nat
        BY <1>7
      <4>2. \A i \in 1..n : L(i - 1) <= L(i)
        <5>1. ASSUME NEW i \in 1..n PROVE L(i - 1) <= L(i)
          <6> DEFINE b == Len(encs[i])
          <6>1. L(i) = L(i - 1) + b /\ b \in Nat /\ i - 1 \in 0..n
            BY <1>1, <1>2, <1>4
          <6>2. L(i - 1) \in Nat
            BY <4>1, <6>1
          <6> HIDE DEF L, b
          <6> QED
            BY <6>1, <6>2
        <5> QED
          BY <5>1
      <4> HIDE DEF L, k
      <4>3. n - k \in Nat /\ k \in Nat /\ k <= n
        BY <1>1, <2>1
      <4>4. 0 \in G
        BY <4>1, <4>3, <1>1
      <4>5. ASSUME NEW i \in 1..(n - k), i - 1 \in G PROVE i \in G
        <5>1. i \in Nat /\ k + i \in 1..n /\ k + (i - 1) \in 0..n /\ k \in 0..n /\ k + i \in 0..n
              /\ (k + i) - 1 = k + (i - 1) /\ i - 1 <= n - k
          BY <1>1, <4>3
        <5>2. L(k) <= L(k + (i - 1)) /\ L(k + (i - 1)) <= L(k + i)
          BY <4>2, <4>5, <5>1
        <5>3. L(k) \in Nat /\ L(k + (i - 1)) \in Nat /\ L(k + i) \in Nat
          BY <4>1, <5>1
        <5> QED
          BY <5>1, <5>2, <5>3
      <4>6. 0..(n - k) \subseteq G
        <5> DEFINE d == n - k
        <5>1. d \in Nat /\ \A i \in 1..d : i - 1 \in G => i \in G
          BY <4>3, <4>5
        <5> HIDE DEF G, d
        <5>2. 0..d \subseteq G
          BY <4>4, <5>1, UpTo
        <5> QED
          BY <5>2 DEF d
      <4>7. n - k \in G /\ k + (n - k) = n /\ n - k <= n - k
        <5>1. n - k \in 0..(n - k) /\ k + (n - k) = n /\ n - k <= n - k
          BY <1>1, <4>3
        <5> HIDE DEF G
        <5> QED
          BY <4>6, <5>1
      <4> QED
        BY <4>7
    <3>2. q = o + L(k) /\ end = o + L(n) /\ L(k) \in Nat /\ L(n) \in Nat
      BY <1>1, <1>3, <1>7, <2>1 DEF q, end
    <3> HIDE DEF L
    <3>3. q <= end
      BY <3>1, <3>2
    <3> DEFINE b == Len(encs[k])
    <3>4. q = p + b /\ b \in Nat /\ b >= 1 /\ p \in Nat /\ q \in Nat
      BY <2>3, <2>4
    <3> HIDE DEF b
    <3> QED
      BY <1>1, <1>5, <3>3, <3>4
  <2>7. Turn(in, F, p, end) = After(F, String(c), p + Len(encodeBytes(c)), end)
    BY <1>5, <2>3, <2>4, <2>6, ItemReadBack
  <2>8. F[<<p, end>>] = After(F, String(c), q, end)
    BY <1>6, <2>3, <2>4, <2>6, <2>7
  <2>9. <<String(c)>> \o LastItems(contents, m - 1) = LastItems(contents, m)
    BY <1>1, LastItemsStep DEF n, k, c
  <2>10. F[<<p, end>>] = [list |-> LastItems(contents, m), next |-> end]
    <3> DEFINE rest == F[<<q, end>>]
               old  == LastItems(contents, m - 1)
               new  == LastItems(contents, m)
    <3>1. F[<<p, end>>] = [list |-> <<String(c)>> \o rest.list, next |-> rest.next]
      BY <2>8 DEF After
    <3>2. rest = [list |-> old, next |-> end]
      BY <2>2
    <3>3. <<String(c)>> \o old = new
      BY <2>9
    <3> HIDE DEF rest, old, new
    <3>4. rest.list = old /\ rest.next = end
      BY <3>2
    <3>5. F[<<p, end>>] = [list |-> new, next |-> end]
      BY <3>1, <3>3, <3>4, Zenon
    <3> QED
      BY <3>5 DEF new
  <2> QED
    BY <2>1, <2>10 DEF p
<1>10. 0..n \subseteq S
  <2>1. \A i \in 1..n : i - 1 \in S => i \in S
    BY <1>9
  <2> HIDE DEF S
  <2> QED
    BY <1>1, <1>8, <2>1, UpTo
<1>11. n \in S /\ n <= n /\ n - n = 0
  <2>1. n \in 0..n /\ n <= n /\ n - n = 0
    BY <1>1
  <2> HIDE DEF S
  <2> QED
    BY <1>10, <2>1
<1>12. place(n) = o
  BY <1>3, <1>11
<1>13. F[<<o, end>>] = [list |-> LastItems(contents, n), next |-> end]
  <2> HIDE DEF place
  <2> QED
    BY <1>11, <1>12
<1> QED
  BY <1>13 DEF F, end, n, P, encs

\* decode gives back a string that encodeBytes wrote.
THEOREM StringRoundTrip ==
  ASSUME NEW c \in Seq(Byte), IsSize(Len(c))
  PROVE  decode(encodeBytes(c)) = String(c)
<1> DEFINE in == encodeBytes(c)
           F == Items(in)
           size == Len(in)
<1>1. in \in Seq(Byte) /\ size \in Nat /\ size >= 1
  BY EncodedBytes
<1>2. BytesAt(in, 0, in)
  BY <1>1 DEF BytesAt
<1> HIDE DEF in
<1>3. Turn(in, F, 0, 1) = After(F, String(c), 0 + size, 1)
  <2>1. BytesAt(in, 0, encodeBytes(c)) /\ Len(encodeBytes(c)) = size
    BY <1>2 DEF in
  <2>2. 0 \in Nat /\ 1 \in Nat /\ 0 < 1
    OBVIOUS
  <2> HIDE DEF F, size
  <2>3. Turn(in, F, 0, 1) = After(F, String(c), 0 + Len(encodeBytes(c)), 1)
    BY <1>1, <2>1, <2>2, ItemReadBack
  <2> QED
    BY <2>1, <2>3
<1>4. \A p \in 0..(size + 1), e \in 0..size : F[<<p, e>>] = Turn(in, F, p, e)
  BY <1>1, DecodeItems
<1>5. decode(in) = IF size = 0 \/ F[<<0, 1>>].next > size THEN Thrown ELSE F[<<0, 1>>].list[1]
  BY <1>1, DecodeItems
<1> HIDE DEF F, size
<1>6. 0 \in 0..(size + 1) /\ size \in 0..(size + 1) /\ 1 \in 0..size /\ 0 + size = size
  BY <1>1
<1>7. TurnTable(in, F, size, 1)
  BY <1>1, TurnCases DEF size
<1>8. F[<<size, 1>>] = [list |-> <<>>, next |-> size]
  BY <1>1, <1>4, <1>6, <1>7 DEF TurnTable
<1>9. F[<<0, 1>>] = After(F, String(c), size, 1)
  BY <1>3, <1>4, <1>6
<1> DEFINE item == String(c)
           first == F[<<0, 1>>]
<1>10. first = [list |-> <<item>> \o <<>>, next |-> size]
  BY <1>8, <1>9 DEF After
<1> HIDE DEF item, first
<1>11. first.next = size /\ first.list = <<item>> \o <<>>
  BY <1>10
<1>12. (<<item>> \o <<>>)[1] = item
  OBVIOUS
<1>13. decode(in) = IF size = 0 \/ first.next > size THEN Thrown ELSE first.list[1]
  BY <1>5 DEF first
<1>14. decode(in) = item
  BY <1>1, <1>11, <1>12, <1>13
<1> QED
  BY <1>14 DEF item, in

\* What encodeList writes.
LEMMA EncodedList ==
  ASSUME NEW items \in Seq(Seq(Byte)), IsSize(Len(Payload(items)))
  PROVE  /\ encodeList(items) \in Seq(Byte)
         /\ Len(encodeList(items)) \in Nat
         /\ Len(encodeList(items)) >= 1
         /\ Len(encodeList(items)) <= Len(Payload(items)) + 9
<1> DEFINE P == Payload(items)
           h == encodeLength(Len(P), 192)
<1>1. P \in Seq(Byte)
  <2>1. Len(items) \in 0..Len(items)
    OBVIOUS
  <2> QED
    BY <2>1, JoinedStep
<1>2. LengthForm(Len(P), 192, h)
  BY LengthBytes
<1>3. encodeList(items) = h \o P
  BY DEF encodeList
<1> HIDE DEF P, h
<1>4. h \in Seq(Byte) /\ Len(h) \in 1..9
  BY <1>2 DEF LengthForm
<1> DEFINE a == Len(h)
           b == Len(P)
           u == h \o P
<1>5. u \in Seq(Byte) /\ Len(u) = a + b /\ a \in 1..9 /\ b \in Nat
  BY <1>1, <1>4
<1> HIDE DEF a, b, u
<1>6. a + b \in Nat /\ a + b >= 1 /\ a + b <= b + 9
  BY <1>5
<1> QED
  BY <1>3, <1>5, <1>6 DEF u, b, P

\* decode gives back a list of strings that encodeList wrote: short and long
\* strings, short and long lists, empty ones too.
THEOREM ListRoundTrip ==
  ASSUME NEW contents \in Seq(Seq(Byte)),
         \A i \in 1..Len(contents) : IsSize(Len(contents[i])),
         IsSize(Len(Payload(Encoded(contents))))
  PROVE  decode(encodeList(Encoded(contents))) =
           List([i \in 1..Len(contents) |-> String(contents[i])])
<1> DEFINE encs == Encoded(contents)
           P == Payload(encs)
           h == encodeLength(Len(P), 192)
           in == encodeList(encs)
           F == Items(in)
           size == Len(in)
           start == Len(h)
           n == Len(contents)
<1>1. encs \in Seq(Seq(Byte))
  <2>1. n \in Nat /\ encs = [i \in 1..n |-> encodeBytes(contents[i])]
    BY DEF Encoded
  <2>2. \A i \in 1..n : encodeBytes(contents[i]) \in Seq(Byte)
    BY EncodedBytes
  <2> HIDE DEF encs, n
  <2>3. encs \in [1..n -> Seq(Byte)]
    BY <2>1, <2>2
  <2> QED
    BY <2>1, <2>3
<1>2. P \in Seq(Byte)
  <2>1. Len(encs) \in 0..Len(encs)
    BY <1>1
  <2> HIDE DEF encs
  <2> QED
    BY <1>1, <2>1, JoinedStep
<1>3. LengthForm(Len(P), 192, h)
  BY LengthBytes
<1>4. Concat(in, h, P)
  BY <1>2, <1>3 DEF encodeList, Concat, LengthForm
<1>5. in \in Seq(Byte) /\ size \in Nat /\ size = start + Len(P) /\ start \in Nat /\ start >= 1
  <2> HIDE DEF in, h, P
  <2>1. in \in Seq(Byte) /\ Len(in) = Len(h) + Len(P)
    BY <1>4 DEF Concat
  <2>2. Len(h) \in 1..9 /\ Len(P) \in Nat
    BY <1>2, <1>3 DEF LengthForm
  <2> DEFINE a == Len(h)
             b == Len(P)
  <2>3. Len(in) = a + b /\ a \in 1..9 /\ b \in Nat
    BY <2>1, <2>2
  <2> HIDE DEF a, b
  <2>4. a + b \in Nat /\ a \in Nat /\ a >= 1
    BY <2>3
  <2> QED
    BY <2>1, <2>3, <2>4 DEF a, b
<1>6. BytesAt(in, 0, in)
  BY <1>5 DEF BytesAt
<1> HIDE DEF in, h, P
<1>7. BytesAt(in, 0, h) /\ BytesAt(in, start, P)
  <2>1. BytesAt(in, 0, h) /\ BytesAt(in, 0 + Len(h), P)
    BY <1>4, <1>5, <1>6, AtConcat
  <2>2. 0 + Len(h) = start
    BY <1>5
  <2> QED
    BY <2>1, <2>2
<1>8. in[0 + 1] \in 192..255 /\ readLen(in, 0, 192) = [start |-> 0 + Len(h), len |-> Len(P)]
  <2> DEFINE k == Len(P)
  <2>1. IsSize(k) /\ BytesAt(in, 0, encodeLength(k, 192)) /\ h = encodeLength(k, 192)
    BY <1>7 DEF h, P, encs
  <2> HIDE DEF k
  <2>2. LengthRead(in, 0, k, 192)
    BY <1>5, <2>1, LengthReadBack
  <2> QED
    BY <2>1, <2>2 DEF k, LengthRead
<1>9. LengthAt(in, 0) = readLen(in, 0, 192)
  <2> DEFINE b == in[0 + 1]
  <2>1. b \in 192..255
    BY <1>8
  <2>2. LengthAt(in, 0) = readLen(in, 0, IF b < 192 THEN 128 ELSE 192)
    BY DEF LengthAt
  <2> HIDE DEF b
  <2> QED
    BY <2>1, <2>2
<1>10. LengthAt(in, 0).start = start /\ EndOf(in, 0) = size
  <2> DEFINE a == Len(h)
             b == Len(P)
             r == [start |-> 0 + a, len |-> b]
  <2>1. LengthAt(in, 0) = r /\ start = a /\ size = a + b /\ a \in Nat
    BY <1>5, <1>8, <1>9
  <2> HIDE DEF a, b
  <2>2. r.start = 0 + a /\ r.len = b /\ 0 + a = a
    BY <2>1
  <2> HIDE DEF r, start, size
  <2> QED
    BY <2>1, <2>2 DEF EndOf
<1>11. \A p \in 0..(size + 1), e \in 0..size : F[<<p, e>>] = Turn(in, F, p, e)
  BY <1>5, DecodeItems
<1>12. decode(in) = IF size = 0 \/ F[<<0, 1>>].next > size THEN Thrown ELSE F[<<0, 1>>].list[1]
  BY <1>5, DecodeItems
<1>13. F[<<start, start + Len(P)>>] = [list |-> LastItems(contents, n), next |-> start + Len(P)]
  BY <1>5, <1>7, ListLoop DEF P, encs
<1> HIDE DEF F, size, start
<1> DEFINE inner == [list |-> LastItems(contents, n), next |-> size]
<1>14. F[<<start, size>>] = inner
  BY <1>5, <1>13
<1>15. TurnTable(in, F, 0, 1) /\ TurnTable(in, F, size, 1)
  BY <1>5, TurnCases DEF size
<1>16. size >= 1 /\ 0 \in 0..(size + 1) /\ size \in 0..(size + 1) /\ 1 \in 0..size
  <2> DEFINE k == Len(P)
  <2>1. k \in Nat /\ size = start + k
    BY <1>2, <1>5
  <2> HIDE DEF k
  <2> QED
    BY <1>5, <2>1
<1>17. F[<<size, 1>>] = [list |-> <<>>, next |-> size]
  BY <1>5, <1>11, <1>15, <1>16 DEF TurnTable
<1>18. F[<<0, 1>>] = After(F, List(F[<<start, size>>].list), F[<<start, size>>].next, 1)
  <2>1. F[<<0, 1>>] = Turn(in, F, 0, 1)
    BY <1>11, <1>16
  <2>2. 0 < 1 /\ in[0 + 1] \in 192..255 /\ size \in Nat /\ size <= Len(in)
    BY <1>5, <1>8 DEF size
  <2>3. Turn(in, F, 0, 1) = After(F, List(F[<<start, size>>].list), F[<<start, size>>].next, 1)
    BY <1>10, <1>15, <2>2 DEF TurnTable
  <2> QED
    BY <2>1, <2>3
<1> DEFINE all == LastItems(contents, n)
           item == List(all)
           first == F[<<0, 1>>]
<1> HIDE DEF all
<1>19. inner.list = all /\ inner.next = size
  BY DEF all
<1> HIDE DEF inner, item
<1>20. first = After(F, item, size, 1)
  BY <1>14, <1>18, <1>19 DEF item
<1>21. first = [list |-> <<item>> \o <<>>, next |-> size]
  BY <1>17, <1>20 DEF After
<1> HIDE DEF first
<1>22. first.next = size /\ first.list = <<item>> \o <<>>
  BY <1>21
<1>23. (<<item>> \o <<>>)[1] = item
  OBVIOUS
<1>24. decode(in) = item
  BY <1>5, <1>12, <1>16, <1>22, <1>23 DEF first
<1>25. all = [i \in 1..n |-> String(contents[i])]
  <2>1. n \in Nat
    OBVIOUS
  <2>2. \A i \in 1..n : (n - n) + i = i
    BY <2>1
  <2>3. all = [i \in 1..n |-> String(contents[(n - n) + i])]
    BY DEF all, LastItems
  <2> QED
    BY <2>2, <2>3
<1> QED
  BY <1>24, <1>25 DEF item, in, encs, n

-----------------------------------------------------------------------------
(* Lengths.                                                                *)

\* The bytes of a number are at most one more than those of its quotient.
LEMMA BytesOfQuotient ==
  ASSUME NEW v \in Nat, NEW k \in Nat, Len(BigEndian(v \div 256)) <= k
  PROVE  Len(BigEndian(v)) <= k + 1 /\ Len(BigEndian(v)) \in Nat
<1>0. BigEndian(v) \in Seq(Byte)
  BY UintRoundTrip
<1>1. BigEndian(v) \in Seq(Byte) /\ Len(BigEndian(v)) \in Nat
  BY <1>0
<1>2. CASE v = 0
  <2>1. Len(BigEndian(v)) = 0
    BY <1>2, BigEndianStep
  <2> QED
    BY <2>1
<1>3. CASE v # 0
  <2> DEFINE d == v \div 256
             s == BigEndian(d)
             r == v % 256
  <2>1. d \in Nat /\ s \in Seq(Byte)
    BY <1>3, ByteDiv, UintRoundTrip
  <2>2. BigEndian(v) = Append(s, r) /\ Len(s) <= k
    BY <1>3, BigEndianStep
  <2> HIDE DEF s, r
  <2>3. Len(Append(s, r)) = Len(s) + 1 /\ Len(s) \in Nat
    BY <2>1
  <2> QED
    BY <1>1, <2>2, <2>3
<1> QED
  BY <1>2, <1>3

\* A length below 2^64 is one that a std::size_t holds.
LEMMA SmallSize ==
  ASSUME NEW v \in Nat, v < 65536 * 65536 * 65536 * 65536
  PROVE  IsSize(v)
<1> DEFINE Fits(w, k) == Len(BigEndian(w)) <= k
<1>0. Fits(0, 0)
  <2>1. Len(BigEndian(0)) = 0
    BY BigEndianStep
  <2> QED
    BY <2>1
<1>1. ASSUME NEW w \in Nat, NEW k \in Nat, Fits(w \div 256, k)
      PROVE  Fits(w, k + 1) /\ Len(BigEndian(w)) \in Nat
  BY <1>1, BytesOfQuotient, SMT
<1> HIDE DEF Fits
<1> DEFINE v1 == v \div 256
           v2 == v1 \div 256
           v3 == v2 \div 256
           v4 == v3 \div 256
           v5 == v4 \div 256
           v6 == v5 \div 256
           v7 == v6 \div 256
           v8 == v7 \div 256
<1>21. v1 \in Nat /\ v1 < 256 * 65536 * 65536 * 65536
  BY SMT
<1> HIDE DEF v1
<1>22. v2 \in Nat /\ v2 < 65536 * 65536 * 65536
  BY <1>21, SMT
<1> HIDE DEF v2
<1>23. v3 \in Nat /\ v3 < 256 * 65536 * 65536
  BY <1>22, SMT
<1> HIDE DEF v3
<1>24. v4 \in Nat /\ v4 < 65536 * 65536
  BY <1>23, SMT
<1> HIDE DEF v4
<1>25. v5 \in Nat /\ v5 < 256 * 65536
  BY <1>24, SMT
<1> HIDE DEF v5
<1>26. v6 \in Nat /\ v6 < 65536
  BY <1>25, SMT
<1> HIDE DEF v6
<1>27. v7 \in Nat /\ v7 < 256
  BY <1>26, SMT
<1> HIDE DEF v7
<1>28. v8 \in Nat /\ v8 < 1
  BY <1>27, SMT
<1> HIDE DEF v8
<1>30. v8 = 0
  BY <1>28, SMT
<1>31. Fits(v7, 1)
  BY <1>0, <1>1, <1>27, <1>30, SMT DEF v8
<1>32. Fits(v6, 2)
  <2>1. Fits(v6, 1 + 1)
    BY <1>1, <1>26, <1>31, SMT DEF v7
  <2> QED
    BY <2>1, SMT
<1>33. Fits(v5, 3)
  <2>1. Fits(v5, 2 + 1)
    BY <1>1, <1>25, <1>32, SMT DEF v6
  <2> QED
    BY <2>1, SMT
<1>34. Fits(v4, 4)
  <2>1. Fits(v4, 3 + 1)
    BY <1>1, <1>24, <1>33, SMT DEF v5
  <2> QED
    BY <2>1, SMT
<1>35. Fits(v3, 5)
  <2>1. Fits(v3, 4 + 1)
    BY <1>1, <1>23, <1>34, SMT DEF v4
  <2> QED
    BY <2>1, SMT
<1>36. Fits(v2, 6)
  <2>1. Fits(v2, 5 + 1)
    BY <1>1, <1>22, <1>35, SMT DEF v3
  <2> QED
    BY <2>1, SMT
<1>37. Fits(v1, 7)
  <2>1. Fits(v1, 6 + 1)
    BY <1>1, <1>21, <1>36, SMT DEF v2
  <2> QED
    BY <2>1, SMT
<1>38. Fits(v, 8) /\ Len(BigEndian(v)) \in Nat
  <2>1. Fits(v, 7 + 1) /\ Len(BigEndian(v)) \in Nat
    BY <1>1, <1>37, SMT DEF v1
  <2> QED
    BY <2>1, SMT
<1> QED
  BY <1>38, SMT DEF Fits, IsSize

\* A smaller number has no more bytes.
LEMMA BytesMonotone ==
  ASSUME NEW v \in Nat, NEW w \in Nat, v <= w
  PROVE  Len(BigEndian(v)) <= Len(BigEndian(w))
<1> DEFINE L(n) == Len(BigEndian(n))
           S == {n \in Nat : \E m \in Nat : n <= m /\ ~(L(n) <= L(m))}
<1>1. \A n \in Nat : BigEndian(n) \in Seq(Byte)
  BY UintRoundTrip
<1>2. \A n \in Nat : L(n) \in Nat
  BY <1>1
<1>3. \A n \in Nat \ {0} : L(n) = L(n \div 256) + 1
  <2>1. ASSUME NEW n \in Nat \ {0} PROVE L(n) = L(n \div 256) + 1
    <3> DEFINE s == BigEndian(n \div 256)
               r == n % 256
    <3>1. s \in Seq(Byte) /\ BigEndian(n) = Append(s, r)
      BY <1>1, ByteDiv, BigEndianStep
    <3> HIDE DEF s, r
    <3>2. Len(Append(s, r)) = Len(s) + 1
      BY <3>1
    <3> QED
      BY <3>1, <3>2 DEF s
  <2> QED
    BY <2>1
<1>4. L(0) = 0
  BY BigEndianStep
<1> HIDE DEF L
<1>5. SUFFICES ASSUME S # {} PROVE FALSE
  BY DEF L
<1>6. PICK n \in S : \A i \in S : n <= i
  <2>1. S \in SUBSET Nat
    OBVIOUS
  <2> HIDE DEF S
  <2> QED
    BY <1>5, <2>1, LeastNat
<1>7. PICK m \in Nat : n <= m /\ ~(L(n) <= L(m))
  BY <1>6
<1>8. n \in Nat /\ n # 0 /\ m # 0
  BY <1>2, <1>4, <1>6, <1>7
<1> DEFINE a == n \div 256
           b == m \div 256
<1>9. a \in Nat /\ b \in Nat /\ a < n /\ a <= b
  BY <1>7, <1>8
<1>10. L(n) = L(a) + 1 /\ L(m) = L(b) + 1
  BY <1>3, <1>7, <1>8
<1> HIDE DEF a, b
<1>11. a \notin S
  BY <1>6, <1>8, <1>9
<1>12. L(a) <= L(b)
  BY <1>9, <1>11
<1> QED
  BY <1>2, <1>7, <1>9, <1>10, <1>12

PayloadAtMost(items, m) == Len(Payload(items)) \in Nat /\ Len(Payload(items)) <= m

\* A payload is at most as long as so many of its longest items.
LEMMA PayloadLength ==
  ASSUME NEW items \in Seq(Seq(Byte)), NEW B \in Nat,
         \A i \in 1..Len(items) : Len(items[i]) <= B
  PROVE  PayloadAtMost(items, Len(items) * B)
<1> DEFINE n == Len(items)
           J == Joined(items)
           L(i) == Len(J[i])
           S == {i \in Nat : i <= n => L(i) <= i * B}
<1>1. n \in Nat /\ \A i \in 1..n : Len(items[i]) \in Nat /\ Len(items[i]) <= B
  OBVIOUS
<1>2. /\ Payload(items) = J[n] /\ J[0] = <<>>
      /\ \A i \in 1..n : Concat(J[i], J[i - 1], items[i])
      /\ \A i \in 0..n : J[i] \in Seq(Byte)
  BY JoinedStep
<1> HIDE DEF n, J
<1>3. L(0) = 0 /\ \A i \in 0..n : L(i) \in Nat
  BY <1>2
<1>4. \A i \in 1..n : L(i) = L(i - 1) + Len(items[i])
  <2>1. ASSUME NEW u, NEW s, NEW t, Concat(u, s, t) PROVE Len(u) = Len(s) + Len(t)
    BY <2>1 DEF Concat
  <2>2. ASSUME NEW i \in 1..n PROVE Len(J[i]) = Len(J[i - 1]) + Len(items[i])
    <3> DEFINE u == J[i]
               s == J[i - 1]
               t == items[i]
    <3>1. Concat(u, s, t)
      BY <1>2
    <3> HIDE DEF u, s, t
    <3>2. Len(u) = Len(s) + Len(t)
      BY <2>1, <3>1
    <3> QED
      BY <3>2 DEF u, s, t
  <2> QED
    BY <2>2
<1>5. Len(Payload(items)) = L(n)
  BY <1>2
<1> HIDE DEF L
<1>6. 0 \in S
  BY <1>3
<1>7. ASSUME NEW i \in 1..n, i - 1 \in S PROVE i \in S
  <2> DEFINE b == Len(items[i])
             p == L(i - 1)
  <2>1. i \in Nat /\ i - 1 \in 0..n /\ i - 1 <= n /\ i - 1 \in Nat
    BY <1>1
  <2>2. p \in Nat /\ b \in Nat /\ b <= B /\ p <= (i - 1) * B /\ L(i) = p + b
    BY <1>1, <1>3, <1>4, <1>7, <2>1
  <2> HIDE DEF b, p
  <2>3. (i - 1) * B + B = i * B /\ (i - 1) * B \in Nat /\ i * B \in Nat
    BY <2>1
  <2>4. L(i) <= i * B
    BY <2>2, <2>3
  <2> QED
    BY <2>1, <2>4
<1>8. 0..n \subseteq S
  <2>1. \A i \in 1..n : i - 1 \in S => i \in S
    BY <1>7
  <2> HIDE DEF S
  <2> QED
    BY <1>1, <1>6, <2>1, UpTo
<1>9. n \in 0..n /\ n <= n
  BY <1>1
<1>10. L(n) <= n * B /\ L(n) \in Nat
  BY <1>3, <1>8, <1>9
<1> QED
  BY <1>5, <1>10 DEF n, PayloadAtMost

\* A number is written as the string of its bytes, zero as no bytes.
LEMMA UintAsBytes == \A v \in Nat : encodeUint(v) = encodeBytes(BigEndian(v))
<1>1. encodeBytes(BigEndian(0)) = <<128>>
  <2>1. BigEndian(0) = <<>> /\ Len(<<>>) = 0
    BY BigEndianStep
  <2>2. encodeBytes(<<>>) = encodeLength(0, 128) \o <<>>
    BY <2>1 DEF encodeBytes
  <2>3. encodeLength(0, 128) = <<128>>
    BY DEF encodeLength
  <2>4. <<128>> \o <<>> = <<128>>
    OBVIOUS
  <2> QED
    BY <2>1, <2>2, <2>3, <2>4
<1> QED
  BY <1>1 DEF encodeUint

\* A list of at most n strings of at most B bytes, as encodeList writes it.
SmallList(enc, contents, n, B) ==
  /\ enc \in Seq(Byte) /\ Len(enc) \in Nat
  /\ Len(enc) >= 1 /\ Len(enc) <= n * (B + 9) + 9
  /\ decode(enc) = List([i \in 1..n |-> String(contents[i])])
  /\ \A i \in 1..n : decode(enc).list[i].bytes = contents[i]

SmallContents(contents, n, B) ==
  /\ n \in 1..17 /\ B \in Nat /\ B <= 16000
  /\ contents \in [1..n -> Seq(Byte)]
  /\ \A i \in 1..n : Len(contents[i]) <= B

\* ListRoundTrip where the sizes are no question.
LEMMA SmallListReadBack ==
  ASSUME NEW n, NEW contents, NEW B, SmallContents(contents, n, B)
  PROVE  SmallList(encodeList([i \in 1..n |-> encodeBytes(contents[i])]), contents, n, B)
<1> DEFINE encs == [i \in 1..n |-> encodeBytes(contents[i])]
           Q == B + 9
           P == Payload(encs)
           enc == encodeList(encs)
<1>0. /\ n \in 1..17 /\ B \in Nat /\ B <= 16000
      /\ contents \in [1..n -> Seq(Byte)] /\ \A i \in 1..n : Len(contents[i]) <= B
  BY DEF SmallContents
<1>1. n \in Nat /\ n <= 17 /\ Q \in Nat
  BY <1>0
<1>2. contents \in Seq(Seq(Byte)) /\ Len(contents) = n
  <2> DEFINE S == Seq(Byte)
  <2>1. contents \in [1..n -> S]
    BY <1>0
  <2> HIDE DEF S
  <2>2. contents \in Seq(S) /\ Len(contents) = n
    BY <1>1, <2>1, FunctionAsSeq
  <2> QED
    BY <2>2 DEF S
<1>3. \A k \in Nat : k <= 17 * Q => IsSize(k)
  <2>1. ASSUME NEW k \in Nat, k <= 17 * Q PROVE k < 65536 * 65536 * 65536 * 65536
    <3> DEFINE w == 65536 * 65536
               M == 65536 * 65536 * 65536 * 65536
    <3>1. w \in Nat
      BY SMT
    <3>2. w > 17 * 16000 + 17 * 9
      BY SMT
    <3>3. M = w * w
      BY SMT
    <3>4. k < w
      <4> HIDE DEF w
      <4> QED
        BY <1>0, <2>1, <3>1, <3>2, SMT
    <3> HIDE DEF w, M
    <3>5. w * w \in Nat /\ w * w >= w
      BY <3>1, <3>4, SMT
    <3>6. k < M
      BY <3>1, <3>3, <3>4, <3>5, SMT
    <3> QED
      BY <3>6, SMT DEF M
  <2> QED
    BY <2>1, SmallSize, SMT
<1>4. ASSUME NEW i \in 1..n
      PROVE  /\ IsSize(Len(contents[i]))
             /\ encodeBytes(contents[i]) \in Seq(Byte)
             /\ Len(encodeBytes(contents[i])) <= Q
  <2> DEFINE c == contents[i]
             k == Len(c)
             j == Len(encodeBytes(c))
  <2>1. c \in Seq(Byte) /\ k \in Nat /\ k <= B
    BY <1>0
  <2> HIDE DEF c
  <2>2. IsSize(k)
    <3> HIDE DEF k
    <3>1. k <= 17 * Q
      BY <1>0, <2>1, SMT
    <3> HIDE DEF Q
    <3> QED
      BY <1>3, <2>1, <3>1, SMT
  <2>3. encodeBytes(c) \in Seq(Byte) /\ j \in Nat /\ j <= k + 9
    BY <2>1, <2>2, EncodedBytes
  <2> HIDE DEF k, j
  <2>4. j <= Q
    BY <1>0, <2>1, <2>3, SMT
  <2> QED
    BY <2>2, <2>3, <2>4 DEF c, k, j
<1>5. encs \in Seq(Seq(Byte)) /\ Len(encs) = n /\ \A i \in 1..n : Len(encs[i]) <= Q
  <2> DEFINE S == Seq(Byte)
  <2>1. \A i \in 1..n : encs[i] = encodeBytes(contents[i])
    OBVIOUS
  <2>2. encs \in [1..n -> S]
    BY <1>4
  <2> HIDE DEF S, encs
  <2>3. encs \in Seq(S) /\ Len(encs) = n
    BY <1>1, <2>2, FunctionAsSeq
  <2> QED
    BY <1>4, <2>1, <2>3 DEF S
<1> HIDE DEF encs
<1>6. Len(P) \in Nat /\ Len(P) <= n * Q
  <2> HIDE DEF Q
  <2>1. PayloadAtMost(encs, Len(encs) * Q)
    <3>1. \A i \in 1..Len(encs) : Len(encs[i]) <= Q
      BY <1>5
    <3>2. encs \in Seq(Seq(Byte)) /\ Q \in Nat
      BY <1>1, <1>5
    <3> QED
      BY ONLY <3>1, <3>2, PayloadLength
  <2> QED
    BY <1>5, <2>1 DEF PayloadAtMost
<1>7. n * Q <= 17 * Q /\ n * Q \in Nat
  <2> HIDE DEF Q
  <2> QED
    BY <1>1, SMT
<1>8. IsSize(Len(P))
  <2> DEFINE k == Len(P)
             a == n * Q
             b == 17 * Q
  <2>1. k \in Nat /\ k <= a /\ a <= b /\ a \in Nat /\ b \in Nat
    <3> HIDE DEF Q
    <3> QED
      BY <1>1, <1>6, <1>7, SMT
  <2>2. \A j \in Nat : j <= b => IsSize(j)
    BY <1>3, SMT
  <2> HIDE DEF k, a, b
  <2>3. k <= b
    BY <2>1, SMT
  <2> QED
    BY <2>1, <2>2, <2>3, SMT DEF k
<1>9. enc \in Seq(Byte) /\ Len(enc) \in Nat /\ Len(enc) >= 1 /\ Len(enc) <= Len(P) + 9
  BY <1>5, <1>8, EncodedList
<1>10. encs = Encoded(contents)
  BY <1>2 DEF encs, Encoded
<1> DEFINE strings == [i \in 1..n |-> String(contents[i])]
<1>11. decode(enc) = List(strings)
  <2> HIDE DEF P, enc
  <2>1. \A i \in 1..Len(contents) : IsSize(Len(contents[i]))
    BY <1>2, <1>4
  <2>2. IsSize(Len(Payload(Encoded(contents))))
    BY <1>8, <1>10 DEF P
  <2>3. decode(encodeList(Encoded(contents))) =
          List([i \in 1..Len(contents) |-> String(contents[i])])
    BY <1>2, <2>1, <2>2, ListRoundTrip
  <2> QED
    BY <1>2, <1>10, <2>3 DEF enc
<1>12. \A i \in 1..n : strings[i] = String(contents[i])
  OBVIOUS
<1> HIDE DEF enc, strings
<1>13. decode(enc).list = strings
  BY <1>11 DEF List
<1>14. \A i \in 1..n : decode(enc).list[i].bytes = contents[i]
  <2>1. ASSUME NEW i \in 1..n PROVE decode(enc).list[i].bytes = contents[i]
    <3>1. String(contents[i]).bytes = contents[i]
      BY DEF String
    <3> QED
      BY <1>12, <1>13, <3>1
  <2> QED
    BY <2>1
<1>15. Len(enc) <= n * (B + 9) + 9
  <2> DEFINE a == Len(enc)
             b == Len(P)
             c == n * Q
  <2>1. a \in Nat /\ b \in Nat /\ c \in Nat /\ a <= b + 9 /\ b <= c
    <3> HIDE DEF Q
    <3> QED
      BY <1>6, <1>7, <1>9, SMT
  <2> HIDE DEF a, b, c
  <2>2. a <= c + 9
    BY <2>1, SMT
  <2> QED
    BY <2>2 DEF a, c
<1> QED
  BY <1>9, <1>11, <1>14, <1>15 DEF SmallList, enc, encs, strings
=============================================================================
