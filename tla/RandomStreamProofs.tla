-------------------------- MODULE RandomStreamProofs --------------------------
(***************************************************************************)
(* Proofs about RandomStream, for words, floats, constants of splitmix64   *)
(* and programs of any size.                                               *)
(***************************************************************************)
EXTENDS RandomStream, SequenceTheorems, FiniteSetTheorems, FunctionTheorems, WellFoundedInduction, TLAPS

------------------------------------------------------------------------------
(* Natural numbers and recursion *)

\* A set of natural numbers has a least element.
LEMMA LeastNatural ==
    ASSUME NEW S, S \subseteq Nat, S # {}
    PROVE  \E n \in S : \A m \in S : n <= m
<1>1. PICK n \in S : \A m \in S : ~(<<m, n>> \in OpToRel(<, Nat))
  BY NatLessThanWellFounded, WFMin
<1>2. ASSUME NEW m \in S PROVE n <= m
  <2>1. <<m, n>> \in Nat \X Nat /\ <<m, n>>[1] = m /\ <<m, n>>[2] = n
    OBVIOUS
  <2>2. ~(m < n)
    BY <1>1, <2>1 DEF OpToRel
  <2> QED
    BY <2>2
<1> QED
  BY <1>2

\* What holds of 0 and is passed on to the next number holds of every number.
LEMMA Induction ==
    ASSUME NEW S, 0 \in S, \A n \in Nat : n \in S => n + 1 \in S
    PROVE  Nat \subseteq S
<1> SUFFICES ASSUME Nat \ S # {} PROVE FALSE
  OBVIOUS
<1>1. PICK n \in Nat \ S : \A m \in Nat \ S : n <= m
  BY LeastNatural
<1>2. n # 0 /\ n - 1 \in Nat /\ n - 1 \in S
  BY <1>1
<1>3. (n - 1) + 1 \in S
  BY <1>2
<1> QED
  BY <1>1, <1>3

\* A function defined by recursion from 0 to a number, and that there is one.
Recursively(f, N, base, step) == f = [n \in 0..N |-> IF n = 0 THEN base ELSE step[<<n, f[n - 1]>>]]

\* A function defined from the value before exists.
LEMMA Recursion ==
    ASSUME NEW N \in Nat, NEW T, NEW base \in T, NEW step \in [(1..N) \X T -> T]
    PROVE  \E f \in [0..N -> T] : Recursively(f, N, base, step)
<1> DEFINE From(f, n) == f \in [0..n -> T] /\ f[0] = base /\ \A k \in 1..n : f[k] = step[<<k, f[k - 1]>>]
           S == {n \in Nat : n <= N => \E f : From(f, n)}
<1>1. 0 \in S
  <2>1. From([k \in 0..0 |-> base], 0)
    OBVIOUS
  <2> QED
    BY <2>1
<1>2. ASSUME NEW n \in Nat, n \in S PROVE n + 1 \in S
  <2> SUFFICES ASSUME n + 1 <= N PROVE \E f : From(f, n + 1)
    OBVIOUS
  <2>1. PICK f : From(f, n)
    BY <1>2
  <2> DEFINE g == [k \in 0..n + 1 |-> IF k = n + 1 THEN step[<<n + 1, f[n]>>] ELSE f[k]]
  <2>2. f[n] \in T /\ n + 1 \in 1..N
    BY <2>1
  <2>3. step[<<n + 1, f[n]>>] \in T
    BY <2>2
  <2>4. g \in [0..n + 1 -> T]
    BY <2>1, <2>3
  <2>5. ASSUME NEW k \in 1..n + 1 PROVE g[k] = step[<<k, g[k - 1]>>]
    <3>1. g[k - 1] = f[k - 1]
      OBVIOUS
    <3>2. CASE k = n + 1
      <4>1. g[k] = step[<<n + 1, f[n]>>] /\ f[k - 1] = f[n]
        BY <3>2
      <4> QED
        BY <3>1, <3>2, <4>1
    <3>3. CASE k \in 1..n
      <4>1. g[k] = f[k] /\ f[k] = step[<<k, f[k - 1]>>]
        BY <2>1, <3>3
      <4> QED
        BY <3>1, <4>1
    <3> QED
      BY <3>2, <3>3
  <2>6. g[0] = base
    BY <2>1
  <2>7. From(g, n + 1)
    BY <2>4, <2>5, <2>6
  <2> QED
    BY <2>7
<1> HIDE DEF S
<1>3. N \in S
  BY <1>1, <1>2, Induction
<1> USE DEF S
<1>4. PICK f : From(f, N)
  BY <1>3
<1>5. Recursively(f, N, base, step)
  BY <1>4 DEF Recursively
<1> QED
  BY <1>4, <1>5

\* What holds of the first value of a function and is passed on to the next holds of all.
LEMMA PassedOn ==
    ASSUME NEW N \in Nat, NEW T, NEW f, f[0] \in T,
           \A n \in 1..N : f[n - 1] \in T => f[n] \in T
    PROVE  \A n \in 0..N : f[n] \in T
<1> DEFINE S == {n \in Nat : n <= N => f[n] \in T}
<1>1. 0 \in S
  OBVIOUS
<1>2. ASSUME NEW n \in Nat, n \in S PROVE n + 1 \in S
  <2> SUFFICES ASSUME n + 1 <= N PROVE f[n + 1] \in T
    OBVIOUS
  <2>1. n + 1 \in 1..N /\ f[(n + 1) - 1] \in T
    BY <1>2
  <2> QED
    BY <2>1
<1> HIDE DEF S
<1>3. Nat \subseteq S
  BY <1>1, <1>2, Induction
<1> QED
  BY <1>3 DEF S

------------------------------------------------------------------------------
(* Powers of two *)

\* The powers that TwoTo(n) is the last of.
PowersTo(f, n) == f = [k \in 0..n |-> IF k = 0 THEN 1 ELSE 2 * f[k - 1]]

\* The powers of two up to n, and TwoTo among them.
LEMMA PowersExist ==
    ASSUME NEW n \in Nat
    PROVE  \E f \in [0..n -> Nat \ {0}] : PowersTo(f, n) /\ TwoTo(n) = f[n]
<1> DEFINE step == [p \in (1..n) \X (Nat \ {0}) |-> 2 * p[2]]
<1>1. step \in [(1..n) \X (Nat \ {0}) -> Nat \ {0}]
  OBVIOUS
<1>2. ASSUME NEW k \in 1..n, NEW m \in Nat \ {0} PROVE step[<<k, m>>] = 2 * m
  OBVIOUS
<1> HIDE DEF step
<1>3. PICK f \in [0..n -> Nat \ {0}] : Recursively(f, n, 1, step)
  <2>1. 1 \in Nat \ {0}
    OBVIOUS
  <2> QED
    BY <1>1, <2>1, Recursion, Zenon
<1>4. ASSUME NEW k \in 0..n
      PROVE  (IF k = 0 THEN 1 ELSE step[<<k, f[k - 1]>>]) = IF k = 0 THEN 1 ELSE 2 * f[k - 1]
  <2>1. k # 0 => k \in 1..n /\ f[k - 1] \in Nat \ {0}
    OBVIOUS
  <2> QED
    BY <1>2, <2>1
<1>5. PowersTo(f, n)
  BY <1>3, <1>4 DEF PowersTo, Recursively
<1> DEFINE g == CHOOSE h : PowersTo(h, n)
<1>6. PowersTo(g, n)
  BY <1>5
<1>7. TwoTo(n) = g[n]
  BY DEF TwoTo, PowersTo
<1> HIDE DEF g
<1>8. g[0] = 1 /\ \A k \in 1..n : g[k] = 2 * g[k - 1]
  BY <1>6 DEF PowersTo
<1>9. \A k \in 0..n : g[k] \in Nat \ {0}
  <2>1. ASSUME NEW k \in 1..n, g[k - 1] \in Nat \ {0} PROVE g[k] \in Nat \ {0}
    BY <1>8, <2>1
  <2>2. g[0] \in Nat \ {0}
    BY <1>8
  <2> QED
    BY <2>1, <2>2, PassedOn, Zenon
<1>10. g \in [0..n -> Nat \ {0}]
  BY <1>6, <1>9 DEF PowersTo
<1> QED
  BY <1>6, <1>7, <1>10

\* Two functions of powers agree where both are defined.
LEMMA PowersAgree ==
    ASSUME NEW m \in Nat, NEW n \in Nat, m <= n, NEW f, PowersTo(f, m), NEW g, PowersTo(g, n)
    PROVE  f[m] = g[m]
<1> DEFINE S == {k \in Nat : k <= m => f[k] = g[k]}
<1>1. 0 \in S
  BY DEF PowersTo
<1>2. ASSUME NEW k \in Nat, k \in S PROVE k + 1 \in S
  <2> SUFFICES ASSUME k + 1 <= m PROVE f[k + 1] = g[k + 1]
    OBVIOUS
  <2>1. k + 1 \in 0..m /\ k + 1 \in 0..n /\ k + 1 # 0 /\ (k + 1) - 1 = k
    OBVIOUS
  <2>2. f[k + 1] = 2 * f[k] /\ g[k + 1] = 2 * g[k]
    BY <2>1 DEF PowersTo
  <2> QED
    BY <1>2, <2>2
<1> HIDE DEF S
<1>3. m \in S
  BY <1>1, <1>2, Induction
<1> QED
  BY <1>3 DEF S

\* What TwoTo was defined by, for any n.
LEMMA TwoToIs ==
    /\ TwoTo(0) = 1
    /\ \A n \in Nat : TwoTo(n) \in Nat \ {0} /\ TwoTo(n + 1) = 2 * TwoTo(n)
<1>1. TwoTo(0) = 1
  <2>1. PICK f \in [0..0 -> Nat \ {0}] : PowersTo(f, 0) /\ TwoTo(0) = f[0]
    BY PowersExist
  <2> QED
    BY <2>1 DEF PowersTo
<1>2. ASSUME NEW n \in Nat PROVE TwoTo(n) \in Nat \ {0} /\ TwoTo(n + 1) = 2 * TwoTo(n)
  <2>1. PICK f \in [0..n -> Nat \ {0}] : PowersTo(f, n) /\ TwoTo(n) = f[n]
    BY PowersExist
  <2>2. PICK g \in [0..n + 1 -> Nat \ {0}] : PowersTo(g, n + 1) /\ TwoTo(n + 1) = g[n + 1]
    <3>1. n + 1 \in Nat
      OBVIOUS
    <3> QED
      BY <3>1, PowersExist, Zenon
  <2>3. f[n] = g[n]
    BY <2>1, <2>2, PowersAgree
  <2>4. g[n + 1] = 2 * g[n]
    <3>1. n + 1 \in 0..n + 1 /\ n + 1 # 0 /\ (n + 1) - 1 = n
      OBVIOUS
    <3> QED
      BY <2>2, <3>1 DEF PowersTo
  <2> QED
    BY <2>1, <2>2, <2>3, <2>4
<1> QED
  BY <1>1, <1>2

\* The power of a sum is the product of the powers.
LEMMA TwoToSum ==
    ASSUME NEW m \in Nat, NEW n \in Nat
    PROVE  TwoTo(m + n) = TwoTo(m) * TwoTo(n)
<1> DEFINE S == {k \in Nat : TwoTo(m + k) = TwoTo(m) * TwoTo(k)}
<1>1. 0 \in S
  BY TwoToIs
<1>2. ASSUME NEW k \in Nat, k \in S PROVE k + 1 \in S
  <2>1. TwoTo(m + k) = TwoTo(m) * TwoTo(k)
    BY <1>2
  <2>2. TwoTo((m + k) + 1) = 2 * TwoTo(m + k) /\ (m + k) + 1 = m + (k + 1) /\ m + k \in Nat
    BY TwoToIs
  <2>3. TwoTo(k + 1) = 2 * TwoTo(k)
    BY TwoToIs
  <2>4. \A a, b \in Nat : a * (2 * b) = 2 * (a * b)
    OBVIOUS
  <2>5. TwoTo(m) \in Nat /\ TwoTo(k) \in Nat
    BY TwoToIs
  <2>6. TwoTo(m + (k + 1)) = TwoTo(m) * TwoTo(k + 1)
    BY <2>1, <2>2, <2>3, <2>4, <2>5
  <2> QED
    BY <2>6
<1> HIDE DEF S
<1>3. n \in S
  BY <1>1, <1>2, Induction
<1> QED
  BY <1>3 DEF S

\* A greater power is a multiple of a smaller one.
LEMMA TwoToGrows ==
    ASSUME NEW m \in Nat, NEW n \in Nat, m <= n
    PROVE  TwoTo(n) = TwoTo(m) * TwoTo(n - m) /\ TwoTo(m) <= TwoTo(n)
<1>1. n - m \in Nat /\ m + (n - m) = n
  OBVIOUS
<1>2. TwoTo(n) = TwoTo(m) * TwoTo(n - m)
  BY <1>1, TwoToSum
<1>3. \A a, b \in Nat \ {0} : a <= a * b
  OBVIOUS
<1> QED
  BY <1>1, <1>2, <1>3, TwoToIs

------------------------------------------------------------------------------
(* Quotients and remainders *)

\* A quotient and its remainder.
LEMMA DivMod ==
    ASSUME NEW a \in Int, NEW d \in Nat \ {0}
    PROVE  /\ a \div d \in Int /\ a % d \in 0..d - 1
           /\ a = d * (a \div d) + (a % d)
           /\ a \in Nat => a \div d \in Nat
OBVIOUS

\* Quotient and remainder are unique.
LEMMA DivModIs ==
    ASSUME NEW a \in Int, NEW d \in Nat \ {0}, NEW q \in Int, NEW r \in 0..d - 1, a = d * q + r
    PROVE  a \div d = q /\ a % d = r
<1>1. a % d = r
  OBVIOUS
<1>2. a \div d = q
  OBVIOUS
<1> QED
  BY <1>1, <1>2

\* Multiples of the divisor do not change a remainder.
LEMMA ModPlus ==
    ASSUME NEW a \in Int, NEW d \in Nat \ {0}, NEW k \in Int
    PROVE  (a + d * k) % d = a % d
<1> DEFINE q == a \div d
           r == a % d
<1>1. a = d * q + r /\ q \in Int /\ r \in 0..d - 1
  BY DivMod
<1> HIDE DEF q, r
<1>2. a + d * k = d * (q + k) + r
  BY <1>1
<1>3. a + d * k \in Int /\ q + k \in Int
  BY <1>1
<1>4. (a + d * k) % d = r
  BY <1>1, <1>2, <1>3, DivModIs
<1> QED
  BY <1>4 DEF r

\* A number below the divisor is its own remainder.
LEMMA ModSmall ==
    ASSUME NEW d \in Nat \ {0}, NEW a \in 0..d - 1
    PROVE  a % d = a /\ a \div d = 0
<1>1. a = d * 0 + a /\ a \in Int
  OBVIOUS
<1> QED
  BY <1>1, DivModIs

\* Remainders may be taken before the sum or product is.
LEMMA ModSum ==
    ASSUME NEW a \in Int, NEW b \in Int, NEW d \in Nat \ {0}
    PROVE  ((a % d) + b) % d = (a + b) % d
<1> DEFINE q == a \div d
           r == a % d
<1>1. a = d * q + r /\ q \in Int /\ r \in Int
  BY DivMod
<1> HIDE DEF q, r
<1>2. a + b = (r + b) + d * q
  BY <1>1
<1>3. r + b \in Int
  BY <1>1
<1>4. ((r + b) + d * q) % d = (r + b) % d
  BY <1>1, <1>3, ModPlus, Zenon
<1> QED
  BY <1>2, <1>4 DEF r

\* A factor may be cut before a product and sum are.
LEMMA ModProduct ==
    ASSUME NEW a \in Int, NEW b \in Int, NEW c \in Int, NEW d \in Nat \ {0}
    PROVE  ((a % d) * b + c) % d = (a * b + c) % d
<1> DEFINE q == a \div d
           r == a % d
<1>1. a = d * q + r /\ q \in Int /\ r \in Int
  BY DivMod
<1> HIDE DEF q, r
<1>2. (d * q + r) * b = r * b + d * (q * b)
  BY <1>1
<1>3. a * b + c = (r * b + c) + d * (q * b)
  BY <1>1, <1>2
<1>4. r * b + c \in Int /\ q * b \in Int
  BY <1>1
<1>5. ((r * b + c) + d * (q * b)) % d = (r * b + c) % d
  BY <1>4, ModPlus, Zenon
<1> QED
  BY <1>3, <1>5 DEF r

\* Dividing twice is dividing by the product.
LEMMA DivDiv ==
    ASSUME NEW a \in Nat, NEW d \in Nat \ {0}, NEW e \in Nat \ {0}
    PROVE  (a \div d) \div e = a \div (d * e)
<1> DEFINE q == a \div d
           r == a % d
           p == q \div e
           s == q % e
<1>1. a = d * q + r /\ q \in Nat /\ r \in 0..d - 1
  OBVIOUS
<1> HIDE DEF q, r
<1>2. q = e * p + s /\ p \in Nat /\ s \in 0..e - 1
  BY <1>1
<1> HIDE DEF p, s
<1>3. d * (e * p + s) = (d * e) * p + d * s
  BY <1>2
<1>4. a = (d * e) * p + (d * s + r)
  BY <1>1, <1>2, <1>3
<1>5. d * s + r \in 0..(d * e) - 1
  <2>1. d * s <= d * (e - 1) /\ 0 <= d * s
    BY <1>2
  <2>2. d * (e - 1) = (d * e) - d
    OBVIOUS
  <2> QED
    BY <1>1, <1>2, <2>1, <2>2
<1>6. d * e \in Nat \ {0}
  OBVIOUS
<1>7. a \div (d * e) = p
  BY <1>2, <1>4, <1>5, <1>6, DivModIs
<1> QED
  BY <1>7 DEF p, q

------------------------------------------------------------------------------
(* Exclusive or *)

Bit(word, n) == (word \div TwoTo(n)) % 2

\* A bit of a word, and what is left above it.
LEMMA BitIs ==
    ASSUME NEW word \in Nat, NEW n \in Nat
    PROVE  /\ Bit(word, n) \in {0, 1}
           /\ word \div TwoTo(n) = 2 * (word \div TwoTo(n + 1)) + Bit(word, n)
<1> DEFINE q == word \div TwoTo(n)
<1>1. q \in Nat
  <2>1. TwoTo(n) \in Nat \ {0}
    BY TwoToIs
  <2> QED
    BY <2>1
<1>2. q \div 2 = word \div (TwoTo(n) * 2)
  <2>1. PICK d \in Nat \ {0} : d = TwoTo(n)
    BY TwoToIs
  <2>2. 2 \in Nat \ {0}
    OBVIOUS
  <2>3. (word \div d) \div 2 = word \div (d * 2)
    BY <2>2, DivDiv
  <2> QED
    BY <2>1, <2>3
<1>3. TwoTo(n) * 2 = TwoTo(n + 1)
  BY TwoToIs
<1> HIDE DEF q
<1>4. q = 2 * (q \div 2) + (q % 2) /\ q % 2 \in {0, 1}
  BY <1>1
<1> QED
  BY <1>2, <1>3, <1>4 DEF Bit, q

\* The words of the lowest bits of an exclusive or.
XorsOf(f, a, b) ==
    f = [n \in 0..Bits["i64"] |->
            IF n = 0 THEN 0 ELSE f[n - 1] + TwoTo(n - 1) * ((Bit(a, n - 1) + Bit(b, n - 1)) % 2)]

\* The sums that xor_i64 adds up, each below its power of two.
LEMMA XorExists ==
    ASSUME NEW a \in Nat, NEW b \in Nat
    PROVE  \E f : /\ xor_i64(a, b) = f[Bits["i64"]]
                  /\ f[0] = 0
                  /\ \A n \in 1..Bits["i64"] :
                        f[n] = f[n - 1] + TwoTo(n - 1) * ((Bit(a, n - 1) + Bit(b, n - 1)) % 2)
                  /\ \A n \in 0..Bits["i64"] : f[n] \in 0..TwoTo(n) - 1
<1> DEFINE N == Bits["i64"]
           Term(n) == TwoTo(n - 1) * ((Bit(a, n - 1) + Bit(b, n - 1)) % 2)
           step == [p \in (1..N) \X Nat |-> p[2] + Term(p[1])]
<1>1. N \in Nat
  BY FormatsAssumption
<1>2. ASSUME NEW n \in 1..N PROVE Term(n) \in {0, TwoTo(n - 1)} /\ TwoTo(n - 1) \in Nat \ {0}
  <2>1. n - 1 \in Nat
    BY <1>1
  <2>2. (Bit(a, n - 1) + Bit(b, n - 1)) % 2 \in {0, 1}
    BY <2>1, BitIs
  <2>3. TwoTo(n - 1) \in Nat \ {0}
    BY <2>1, TwoToIs
  <2> QED
    BY <2>2, <2>3
<1> HIDE DEF N, Term
<1>3. step \in [(1..N) \X Nat -> Nat]
  BY <1>2
<1>4. ASSUME NEW n \in 1..N, NEW m \in Nat PROVE step[<<n, m>>] = m + Term(n)
  OBVIOUS
<1> HIDE DEF step
<1>5. PICK f \in [0..N -> Nat] : Recursively(f, N, 0, step)
  BY <1>1, <1>3, Recursion, Zenon
<1>6. ASSUME NEW n \in 0..N
      PROVE  (IF n = 0 THEN 0 ELSE step[<<n, f[n - 1]>>]) = IF n = 0 THEN 0 ELSE f[n - 1] + Term(n)
  <2>1. n # 0 => n \in 1..N /\ f[n - 1] \in Nat
    BY <1>1
  <2> QED
    BY <1>4, <2>1
<1>7. XorsOf(f, a, b)
  <2>1. f = [n \in 0..N |-> IF n = 0 THEN 0 ELSE f[n - 1] + Term(n)]
    BY <1>5, <1>6 DEF Recursively
  <2> QED
    BY <2>1, Zenon DEF XorsOf, N, Term
<1> DEFINE g == CHOOSE h : XorsOf(h, a, b)
<1>8. XorsOf(g, a, b)
  BY <1>7
<1>9. xor_i64(a, b) = g[N]
  BY DEF xor_i64, XorsOf, Bit, N
<1> HIDE DEF g
<1>10. g = [n \in 0..N |-> IF n = 0 THEN 0 ELSE g[n - 1] + Term(n)]
  BY <1>8, Zenon DEF XorsOf, N, Term
<1>11. g[0] = 0 /\ \A n \in 1..N : g[n] = g[n - 1] + Term(n)
  BY <1>1, <1>10
<1>12. \A n \in 0..N : g[n] \in 0..TwoTo(n) - 1
  <2> DEFINE S == {n \in Nat : n <= N => g[n] \in 0..TwoTo(n) - 1}
  <2>1. 0 \in S
    <3>1. TwoTo(0) = 1 /\ g[0] = 0
      BY <1>11, TwoToIs
    <3> QED
      BY <3>1
  <2>2. ASSUME NEW n \in Nat, n \in S PROVE n + 1 \in S
    <3> SUFFICES ASSUME n + 1 <= N PROVE g[n + 1] \in 0..TwoTo(n + 1) - 1
      OBVIOUS
    <3>1. n + 1 \in 1..N /\ (n + 1) - 1 = n
      BY <1>1
    <3>2. g[n + 1] = g[n] + Term(n + 1)
      BY <1>11, <3>1
    <3>3. Term(n + 1) \in {0, TwoTo(n)} /\ TwoTo(n) \in Nat \ {0}
      BY <1>2, <3>1
    <3>4. g[n] \in 0..TwoTo(n) - 1
      BY <1>1, <2>2
    <3>5. TwoTo(n + 1) = 2 * TwoTo(n)
      BY TwoToIs
    <3> QED
      BY <3>2, <3>3, <3>4, <3>5
  <2> HIDE DEF S
  <2>3. Nat \subseteq S
    BY <2>1, <2>2, Induction
  <2> QED
    BY <1>1, <2>3 DEF S
<1> QED
  BY <1>9, <1>11, <1>12, Zenon DEF N, Term

\* An exclusive or is a word of 64 bits.
LEMMA XorIsWord ==
    ASSUME NEW a \in Nat, NEW b \in Nat
    PROVE  xor_i64(a, b) \in Words("i64")
<1>1. Bits["i64"] \in Nat
  BY FormatsAssumption
<1>2. PICK f : xor_i64(a, b) = f[Bits["i64"]] /\ \A n \in 0..Bits["i64"] : f[n] \in 0..TwoTo(n) - 1
  BY XorExists
<1> QED
  BY <1>1, <1>2 DEF Words

\* Equal words have equal bits.
LEMMA XorBits ==
    ASSUME NEW a \in Nat, NEW b \in Nat, NEW c \in Nat, NEW d \in Nat, xor_i64(a, b) = xor_i64(c, d)
    PROVE  \A n \in 1..Bits["i64"] :
             (Bit(a, n - 1) + Bit(b, n - 1)) % 2 = (Bit(c, n - 1) + Bit(d, n - 1)) % 2
<1> TAKE n \in 1..Bits["i64"]
<1> DEFINE N == Bits["i64"]
           Xor(x, y, m) == (Bit(x, m) + Bit(y, m)) % 2
<1>1. N \in Nat
  BY FormatsAssumption
<1>2. ASSUME NEW x \in Nat, NEW y \in Nat, NEW m \in 1..N
      PROVE  Xor(x, y, m - 1) \in {0, 1}
  <2>1. m - 1 \in Nat
    BY <1>1
  <2> QED
    BY <2>1, BitIs
<1> HIDE DEF N, Xor
<1>3. PICK f : /\ xor_i64(a, b) = f[N]
               /\ \A m \in 1..N : f[m] = f[m - 1] + TwoTo(m - 1) * Xor(a, b, m - 1)
               /\ \A m \in 0..N : f[m] \in 0..TwoTo(m) - 1
  BY XorExists, Zenon DEF N, Xor
<1>4. PICK g : /\ xor_i64(c, d) = g[N]
               /\ \A m \in 1..N : g[m] = g[m - 1] + TwoTo(m - 1) * Xor(c, d, m - 1)
               /\ \A m \in 0..N : g[m] \in 0..TwoTo(m) - 1
  BY XorExists, Zenon DEF N, Xor
<1>5. ASSUME NEW m \in 1..N, f[m] = g[m]
      PROVE  f[m - 1] = g[m - 1] /\ Xor(a, b, m - 1) = Xor(c, d, m - 1)
  <2>1. m - 1 \in Nat /\ m - 1 \in 0..N
    BY <1>1
  <2>2. PICK p \in Nat \ {0} : p = TwoTo(m - 1)
    BY <2>1, TwoToIs
  <2>3. f[m - 1] \in 0..p - 1 /\ g[m - 1] \in 0..p - 1
    <3>1. f[m - 1] \in 0..TwoTo(m - 1) - 1 /\ g[m - 1] \in 0..TwoTo(m - 1) - 1
      BY <1>3, <1>4, <2>1, Zenon
    <3> QED
      BY <2>2, <3>1
  <2>4. f[m - 1] + p * Xor(a, b, m - 1) = g[m - 1] + p * Xor(c, d, m - 1)
    BY <1>3, <1>4, <1>5, <2>2
  <2>5. Xor(a, b, m - 1) \in {0, 1} /\ Xor(c, d, m - 1) \in {0, 1}
    BY <1>2
  <2> QED
    BY <2>2, <2>3, <2>4, <2>5
<1> DEFINE S == {k \in Nat : k <= N => f[N - k] = g[N - k]}
<1>6. 0 \in S
  <2>1. f[N] = g[N]
    BY <1>3, <1>4, Zenon
  <2>2. N - 0 = N
    BY <1>1
  <2> QED
    BY <2>1, <2>2
<1>7. ASSUME NEW k \in Nat, k \in S PROVE k + 1 \in S
  <2> SUFFICES ASSUME k + 1 <= N PROVE f[N - (k + 1)] = g[N - (k + 1)]
    OBVIOUS
  <2>1. N - k \in 1..N /\ (N - k) - 1 = N - (k + 1) /\ f[N - k] = g[N - k]
    BY <1>1, <1>7
  <2>2. f[(N - k) - 1] = g[(N - k) - 1]
    BY <1>5, <2>1
  <2> QED
    BY <2>1, <2>2
<1> HIDE DEF S
<1>8. Nat \subseteq S
  BY <1>6, <1>7, Induction
<1>9. f[n] = g[n] /\ n \in 1..N
  <2>1. N - n \in Nat /\ N - n <= N /\ N - (N - n) = n /\ n \in 1..N
    BY <1>1 DEF N
  <2> QED
    BY <1>8, <2>1 DEF S
<1>10. Xor(a, b, n - 1) = Xor(c, d, n - 1)
  BY <1>5, <1>9
<1> QED
  BY <1>10 DEF Xor

\* A word is known from the exclusive or of it and of itself shifted.
LEMMA ShiftedXorIsInjective ==
    ASSUME NEW x \in Words("i64"), NEW y \in Words("i64"), NEW s \in Nat \ {0},
           xor_i64(x, x \div TwoTo(s)) = xor_i64(y, y \div TwoTo(s))
    PROVE  x = y
<1> DEFINE N == Bits["i64"]
           S == {k \in Nat : \A n \in Nat : n >= N - k => x \div TwoTo(n) = y \div TwoTo(n)}
<1>1. N \in Nat /\ x \in Nat /\ y \in Nat /\ x \in 0..TwoTo(N) - 1 /\ y \in 0..TwoTo(N) - 1
  <2>1. N \in Nat
    BY FormatsAssumption
  <2>2. TwoTo(N) \in Nat
    BY <2>1, TwoToIs
  <2> QED
    BY <2>1, <2>2 DEF Words
<1>2. TwoTo(s) \in Nat \ {0} /\ x \div TwoTo(s) \in Nat /\ y \div TwoTo(s) \in Nat
  <2>1. TwoTo(s) \in Nat \ {0}
    BY TwoToIs
  <2> QED
    BY <1>1, <2>1
<1> HIDE DEF N
<1>3. 0 \in S
  <2> SUFFICES ASSUME NEW n \in Nat, n >= N PROVE x \div TwoTo(n) = y \div TwoTo(n)
    BY <1>1
  <2>1. TwoTo(N) <= TwoTo(n) /\ TwoTo(n) \in Nat \ {0} /\ TwoTo(N) \in Nat
    BY <1>1, TwoToGrows, TwoToIs
  <2>2. x \in 0..TwoTo(n) - 1 /\ y \in 0..TwoTo(n) - 1
    BY <1>1, <2>1
  <2> QED
    BY <2>1, <2>2, ModSmall
<1>4. ASSUME NEW k \in Nat, k \in S PROVE k + 1 \in S
  <2> SUFFICES ASSUME NEW n \in Nat, n >= N - (k + 1) PROVE x \div TwoTo(n) = y \div TwoTo(n)
    OBVIOUS
  <2>1. CASE n >= N - k
    BY <1>4, <2>1
  <2>2. CASE n = N - (k + 1)
    <3>1. n + 1 >= N - k /\ n + 1 \in Nat /\ n + s >= N - k /\ n + s \in Nat /\ n + 1 \in 1..N /\ (n + 1) - 1 = n
      BY <1>1, <2>2
    <3>2. x \div TwoTo(n + 1) = y \div TwoTo(n + 1) /\ x \div TwoTo(n + s) = y \div TwoTo(n + s)
      BY <1>4, <3>1
    <3>3. TwoTo(s) * TwoTo(n) = TwoTo(n + s)
      <4>1. s + n = n + s
        OBVIOUS
      <4> QED
        BY <4>1, TwoToSum
    <3>4. Bit(x \div TwoTo(s), n) = Bit(y \div TwoTo(s), n)
      <4>1. TwoTo(n) \in Nat \ {0}
        BY TwoToIs
      <4>2. (x \div TwoTo(s)) \div TwoTo(n) = x \div TwoTo(n + s)
        BY <1>1, <1>2, <3>3, <4>1, DivDiv
      <4>3. (y \div TwoTo(s)) \div TwoTo(n) = y \div TwoTo(n + s)
        BY <1>1, <1>2, <3>3, <4>1, DivDiv
      <4> QED
        BY <3>2, <4>2, <4>3 DEF Bit
    <3>5. (Bit(x, n) + Bit(x \div TwoTo(s), n)) % 2 = (Bit(y, n) + Bit(y \div TwoTo(s), n)) % 2
      <4> DEFINE u == x \div TwoTo(s)
                 v == y \div TwoTo(s)
      <4>1. u \in Nat /\ v \in Nat /\ xor_i64(x, u) = xor_i64(y, v)
        BY <1>2
      <4> HIDE DEF u, v
      <4>2. (Bit(x, (n + 1) - 1) + Bit(u, (n + 1) - 1)) % 2 = (Bit(y, (n + 1) - 1) + Bit(v, (n + 1) - 1)) % 2
        <5>1. x \in Nat /\ y \in Nat /\ n + 1 \in 1..Bits["i64"]
          BY <1>1, <3>1 DEF N
        <5>2. \A m \in 1..Bits["i64"] :
                (Bit(x, m - 1) + Bit(u, m - 1)) % 2 = (Bit(y, m - 1) + Bit(v, m - 1)) % 2
          BY <4>1, <5>1, XorBits, SMT
        <5> QED
          BY <5>1, <5>2, Zenon
      <4> QED
        BY <3>1, <4>2 DEF u, v
    <3>6. Bit(x, n) \in {0, 1} /\ Bit(y, n) \in {0, 1} /\ Bit(x \div TwoTo(s), n) \in {0, 1}
      BY <1>1, <1>2, BitIs
    <3>7. Bit(x, n) = Bit(y, n)
      BY <3>4, <3>5, <3>6
    <3>8. x \div TwoTo(n) = 2 * (x \div TwoTo(n + 1)) + Bit(x, n) /\ y \div TwoTo(n) = 2 * (y \div TwoTo(n + 1)) + Bit(y, n)
      BY <1>1, BitIs
    <3> QED
      BY <3>2, <3>7, <3>8
  <2> QED
    BY <1>1, <2>1, <2>2
<1> HIDE DEF S
<1>5. N \in S
  BY <1>1, <1>3, <1>4, Induction
<1>6. x \div TwoTo(0) = y \div TwoTo(0)
  BY <1>1, <1>5 DEF S
<1> QED
  BY <1>1, <1>6, TwoToIs

------------------------------------------------------------------------------
(* splitmix64 takes different counters to different hashes *)

\* A multiple of a power of two by an odd factor is one without it.
LEMMA OddFactor ==
    ASSUME NEW F \in Nat, F % 2 = 1, NEW n \in Nat
    PROVE  \A z, q \in Int : z * F = TwoTo(n) * q => \E k \in Int : z = TwoTo(n) * k
<1> DEFINE S == {m \in Nat : \A z, q \in Int : z * F = TwoTo(m) * q => \E k \in Int : z = TwoTo(m) * k}
<1>1. 0 \in S
  <2> SUFFICES ASSUME NEW z \in Int PROVE \E k \in Int : z = TwoTo(0) * k
    OBVIOUS
  <2>1. z = 1 * z
    OBVIOUS
  <2> QED
    BY <2>1, TwoToIs
<1>2. ASSUME NEW m \in Nat, m \in S PROVE m + 1 \in S
  <2> SUFFICES ASSUME NEW z \in Int, NEW q \in Int, z * F = TwoTo(m + 1) * q
               PROVE  \E k \in Int : z = TwoTo(m + 1) * k
    OBVIOUS
  <2>1. PICK p \in Nat \ {0} : p = TwoTo(m)
    BY TwoToIs
  <2>2. TwoTo(m + 1) = 2 * p
    BY <2>1, TwoToIs
  <2>3. PICK c \in Nat : F = 2 * c + 1
    OBVIOUS
  <2>4. (2 * p) * q = 2 * (p * q) /\ p * q \in Int
    OBVIOUS
  <2>5. z * (2 * c + 1) = 2 * (z * c) + z /\ z * c \in Int
    OBVIOUS
  <2>6. z = 2 * (p * q - z * c)
    BY <2>2, <2>3, <2>4, <2>5
  <2>7. PICK y \in Int : z = 2 * y
    <3>1. p * q - z * c \in Int
      BY <2>4, <2>5
    <3> QED
      BY <2>6, <3>1
  <2>8. (2 * y) * F = 2 * (y * F) /\ y * F \in Int
    OBVIOUS
  <2>9. y * F = p * q
    BY <2>2, <2>4, <2>7, <2>8
  <2>10. PICK k \in Int : y = p * k
    BY <1>2, <2>1, <2>9
  <2>11. 2 * (p * k) = (2 * p) * k
    OBVIOUS
  <2> QED
    BY <2>2, <2>7, <2>10, <2>11
<1> HIDE DEF S
<1>3. n \in S
  BY <1>1, <1>2, Induction
<1> QED
  BY <1>3 DEF S

\* Words of 64 bits are what Modulo gives and keeps.
LEMMA WordsAre ==
    /\ Bits["i64"] \in Nat \ {0}
    /\ TwoTo(Bits["i64"]) \in Nat \ {0}
    /\ \A n \in Int : Modulo("i64", n) \in Words("i64")
    /\ \A word \in Words("i64") : word \in Nat /\ Modulo("i64", word) = word
<1>1. Bits["i64"] \in Nat \ {0}
  BY FormatsAssumption
<1>2. PICK m \in Nat \ {0} : m = TwoTo(Bits["i64"])
  BY <1>1, TwoToIs
<1>3. Words("i64") = 0..m - 1 /\ \A n : Modulo("i64", n) = n % m
  BY <1>2 DEF Words, Modulo
<1>4. \A n \in Int : n % m \in 0..m - 1
  OBVIOUS
<1>5. \A word \in 0..m - 1 : word \in Nat /\ word % m = word
  BY ModSmall
<1> QED
  BY <1>1, <1>2, <1>3, <1>4, <1>5

\* A product with an odd factor is known from its lowest bits.
LEMMA MulInjective ==
    ASSUME NEW x \in Words("i64"), NEW y \in Words("i64"), NEW F \in Nat, F % 2 = 1,
           mul_i64(x, F) = mul_i64(y, F)
    PROVE  x = y
<1>1. PICK m \in Nat \ {0} : m = TwoTo(Bits["i64"])
  BY WordsAre
<1>2. x \in 0..m - 1 /\ y \in 0..m - 1
  BY <1>1 DEF Words
<1>3. (x * F) % m = (y * F) % m
  BY <1>1 DEF mul_i64, Modulo
<1>4. PICK u \in Nat, v \in Nat : u = x * F /\ v = y * F
  BY <1>2
<1>5. PICK q \in Int, p \in Int : u = m * q + (u % m) /\ v = m * p + (v % m)
  <2>1. u = m * (u \div m) + (u % m) /\ u \div m \in Int
    BY DivMod
  <2>2. v = m * (v \div m) + (v % m) /\ v \div m \in Int
    BY DivMod
  <2> QED
    BY <2>1, <2>2
<1>6. (x - y) * F = x * F - y * F /\ m * (q - p) = m * q - m * p
  BY <1>2
<1>7. u % m = v % m /\ u % m \in Int /\ m * q \in Int /\ m * p \in Int
  BY <1>3, <1>4
<1>8. (x - y) * F = m * (q - p)
  BY <1>4, <1>5, <1>6, <1>7
<1>9. PICK k \in Int : x - y = m * k
  <2>1. x - y \in Int /\ q - p \in Int /\ Bits["i64"] \in Nat
    BY <1>2, WordsAre
  <2>2. \A z, n \in Int : z * F = TwoTo(Bits["i64"]) * n => \E k \in Int : z = TwoTo(Bits["i64"]) * k
    BY <2>1, OddFactor
  <2> QED
    BY <1>1, <1>8, <2>1, <2>2
<1>10. k = 0
  <2>1. x - y < m /\ y - x < m
    BY <1>2
  <2>2. k >= 1 => m * k >= m
    OBVIOUS
  <2>3. k <= -1 => m * k <= -m
    OBVIOUS
  <2> QED
    BY <1>2, <1>9, <2>1, <2>2, <2>3
<1> QED
  BY <1>2, <1>9, <1>10

\* splitmix64_in_block takes no two counters to one hash: every step of its mixing
\* can be taken back.
THEOREM SplitmixInjective ==
    ASSUME NEW a \in Words("i64"), NEW b \in Words("i64"), splitmix64_in_block(a) = splitmix64_in_block(b)
    PROVE  a = b
<1> DEFINE Added(n) == Modulo("i64", n + Increment)
           Mixed(n, k) == xor_i64(n, shift_right_i64(n, Shifts[k]))
<1>1. \A n \in Words("i64") : Added(n) \in Words("i64")
  <2>1. \A n \in Words("i64") : n + Increment \in Int
    BY WordsAre, MixAssumption
  <2> QED
    BY <2>1, WordsAre
<1>2. ASSUME NEW n \in Words("i64"), NEW k \in 1..3 PROVE Mixed(n, k) \in Words("i64")
  <2>1. n \in Nat /\ n \div TwoTo(Shifts[k]) \in Nat
    <3>1. TwoTo(Shifts[k]) \in Nat \ {0} /\ n \in Nat
      BY MixAssumption, TwoToIs, WordsAre
    <3> QED
      BY <3>1
  <2> QED
    BY <2>1, XorIsWord DEF shift_right_i64
<1>3. ASSUME NEW n \in Words("i64"), NEW m \in Words("i64"), NEW k \in 1..3, Mixed(n, k) = Mixed(m, k)
      PROVE  n = m
  <2>1. Shifts[k] \in Nat \ {0}
    BY MixAssumption
  <2> QED
    BY <1>3, <2>1, ShiftedXorIsInjective DEF shift_right_i64
<1>4. ASSUME NEW n \in Words("i64"), NEW k \in 1..2 PROVE mul_i64(n, Factors[k]) \in Words("i64")
  <2>1. n * Factors[k] \in Int
    BY MixAssumption, WordsAre
  <2> QED
    BY <2>1, WordsAre DEF mul_i64
<1>5. ASSUME NEW n \in Words("i64"), NEW m \in Words("i64"), NEW k \in 1..2,
             mul_i64(n, Factors[k]) = mul_i64(m, Factors[k])
      PROVE  n = m
  BY <1>5, MulInjective, MixAssumption
<1>6. Added(a) = Added(b) => a = b
  <2>1. PICK m \in Nat \ {0} : m = TwoTo(Bits["i64"])
    BY WordsAre
  <2>2. a \in 0..m - 1 /\ b \in 0..m - 1 /\ Increment \in Nat
    BY <2>1, MixAssumption DEF Words
  <2>3. SUFFICES ASSUME (a + Increment) % m = (b + Increment) % m PROVE a = b
    BY <2>1 DEF Modulo
  <2>4. PICK q \in Int, p \in Int, r \in Int : a + Increment = m * q + r /\ b + Increment = m * p + r
    <3>1. PICK u \in Nat, v \in Nat : u = a + Increment /\ v = b + Increment
      BY <2>2
    <3>2. u = m * (u \div m) + (u % m) /\ u \div m \in Int /\ u % m \in Int
      BY DivMod
    <3>3. v = m * (v \div m) + (v % m) /\ v \div m \in Int
      BY DivMod
    <3> QED
      BY <2>3, <3>1, <3>2, <3>3
  <2>5. a - b = m * (q - p)
    BY <2>2, <2>4
  <2>6. \A k \in Int : (k >= 1 => m * k >= m) /\ (k <= -1 => m * k <= -m)
    OBVIOUS
  <2>7. q - p = 0
    BY <2>2, <2>5, <2>6
  <2> QED
    BY <2>2, <2>5, <2>7
<1> HIDE DEF Added, Mixed
<1> DEFINE first(n) == mul_i64(Mixed(Added(n), 1), Factors[1])
           second(n) == mul_i64(Mixed(first(n), 2), Factors[2])
<1>7. splitmix64_in_block(a) = Mixed(second(a), 3) /\ splitmix64_in_block(b) = Mixed(second(b), 3)
  BY DEF splitmix64_in_block, Mixed, Added
<1>8. \A n \in Words("i64") : first(n) \in Words("i64") /\ second(n) \in Words("i64")
  BY <1>1, <1>2, <1>4
<1> HIDE DEF second
<1>9. second(a) = second(b)
  <2>1. second(a) \in Words("i64") /\ second(b) \in Words("i64")
    BY <1>8
  <2>2. Mixed(second(a), 3) = Mixed(second(b), 3)
    BY <1>7, Zenon
  <2>3. 3 \in 1..3
    OBVIOUS
  <2> QED
    BY <1>3, <2>1, <2>2, <2>3, Zenon
<1>10. Mixed(first(a), 2) = Mixed(first(b), 2)
  <2>1. Mixed(first(a), 2) \in Words("i64") /\ Mixed(first(b), 2) \in Words("i64")
    BY <1>2, <1>8
  <2> QED
    BY <1>5, <1>9, <2>1 DEF second
<1>11. first(a) = first(b)
  BY <1>3, <1>8, <1>10
<1>12. Mixed(Added(a), 1) = Mixed(Added(b), 1)
  <2>1. Mixed(Added(a), 1) \in Words("i64") /\ Mixed(Added(b), 1) \in Words("i64")
    BY <1>1, <1>2
  <2> QED
    BY <1>5, <1>11, <2>1
<1>13. Added(a) = Added(b)
  BY <1>1, <1>3, <1>12
<1> QED
  BY <1>6, <1>13

\* The build's copy of the generator is the same function, and both give words.
LEMMA HashesAre ==
    /\ \A counter \in Words("i64") :
         /\ HashesInBlock[counter] = splitmix64_in_block(counter)
         /\ Hashes[counter] = HashesInBlock[counter]
         /\ HashesInBlock[counter] \in Words("i64")
    /\ \A a, b \in Words("i64") : HashesInBlock[a] = HashesInBlock[b] => a = b
<1>1. ASSUME NEW counter \in Words("i64")
      PROVE  /\ HashesInBlock[counter] = splitmix64_in_block(counter)
             /\ Hashes[counter] = splitmix64(counter)
  BY DEF HashesInBlock, Hashes
<1>2. ASSUME NEW counter \in Words("i64") PROVE splitmix64(counter) = splitmix64_in_block(counter)
  BY DEF splitmix64, splitmix64_in_block, mul_i64, shift_right_i64
<1>3. ASSUME NEW counter \in Words("i64") PROVE splitmix64_in_block(counter) \in Words("i64")
  <2>1. ASSUME NEW n \in Int, NEW k \in 1..3
        PROVE  xor_i64(Modulo("i64", n), shift_right_i64(Modulo("i64", n), Shifts[k])) \in Words("i64")
    <3>1. TwoTo(Shifts[k]) \in Nat \ {0} /\ Modulo("i64", n) \in Nat
      BY MixAssumption, TwoToIs, WordsAre
    <3>2. Modulo("i64", n) \div TwoTo(Shifts[k]) \in Nat
      BY <3>1
    <3> QED
      BY <3>1, <3>2, XorIsWord DEF shift_right_i64
  <2> DEFINE Mixed(n, k) == xor_i64(n, shift_right_i64(n, Shifts[k]))
             value == Modulo("i64", counter + Increment)
             first == mul_i64(Mixed(value, 1), Factors[1])
             second == mul_i64(Mixed(first, 2), Factors[2])
  <2>2. Mixed(value, 1) \in Words("i64")
    BY <2>1, WordsAre, MixAssumption
  <2>3. Mixed(value, 1) * Factors[1] \in Int
    BY <2>2, WordsAre, MixAssumption
  <2>4. Mixed(first, 2) \in Words("i64")
    BY <2>1, <2>3 DEF mul_i64
  <2>5. Mixed(first, 2) * Factors[2] \in Int
    BY <2>4, WordsAre, MixAssumption
  <2>6. Mixed(second, 3) \in Words("i64")
    BY <2>1, <2>5 DEF mul_i64
  <2> QED
    BY <2>6 DEF splitmix64_in_block
<1> QED
  BY <1>1, <1>2, <1>3, SplitmixInjective

------------------------------------------------------------------------------
(* Shapes, and the places of their elements *)

\* The products that Product(dims) is the last of.
ProductsOf(f, dims) == f = [n \in 0..Len(dims) |-> IF n = 0 THEN 1 ELSE f[n - 1] * dims[n]]

\* The products of the first dimensions, and Product among them.
LEMMA ProductsExist ==
    ASSUME NEW dims \in Seq(Nat)
    PROVE  \E f : /\ Product(dims) = f[Len(dims)] /\ f[0] = 1
                  /\ \A n \in 1..Len(dims) : f[n] = f[n - 1] * dims[n]
                  /\ \A n \in 0..Len(dims) : f[n] \in Nat
<1> DEFINE N == Len(dims)
           step == [p \in (1..N) \X Nat |-> p[2] * dims[p[1]]]
<1>1. N \in Nat /\ \A n \in 1..N : dims[n] \in Nat
  OBVIOUS
<1>2. step \in [(1..N) \X Nat -> Nat]
  BY <1>1
<1>3. ASSUME NEW n \in 1..N, NEW m \in Nat PROVE step[<<n, m>>] = m * dims[n]
  OBVIOUS
<1> HIDE DEF step, N
<1>4. PICK f \in [0..N -> Nat] : Recursively(f, N, 1, step)
  <2>1. 1 \in Nat
    OBVIOUS
  <2> QED
    BY <1>1, <1>2, <2>1, Recursion, Zenon
<1>5. ASSUME NEW n \in 0..N
      PROVE  (IF n = 0 THEN 1 ELSE step[<<n, f[n - 1]>>]) = IF n = 0 THEN 1 ELSE f[n - 1] * dims[n]
  <2>1. n # 0 => n \in 1..N /\ f[n - 1] \in Nat
    BY <1>1
  <2> QED
    BY <1>3, <2>1
<1>6. ProductsOf(f, dims)
  BY <1>4, <1>5 DEF ProductsOf, Recursively, N
<1> DEFINE g == CHOOSE h : ProductsOf(h, dims)
<1>7. ProductsOf(g, dims)
  BY <1>6
<1>8. Product(dims) = g[N]
  BY DEF Product, ProductsOf, N
<1> HIDE DEF g
<1>9. g[0] = 1 /\ \A n \in 1..N : g[n] = g[n - 1] * dims[n]
  <2>1. g = [n \in 0..N |-> IF n = 0 THEN 1 ELSE g[n - 1] * dims[n]]
    BY <1>7 DEF ProductsOf, N
  <2>2. \A n \in 0..N : g[n] = IF n = 0 THEN 1 ELSE g[n - 1] * dims[n]
    BY <2>1
  <2>3. 0 \in 0..N /\ \A n \in 1..N : n \in 0..N /\ n # 0
    BY <1>1
  <2> QED
    BY <2>2, <2>3
<1>10. \A n \in 0..N : g[n] \in Nat
  <2>1. ASSUME NEW n \in 1..N, g[n - 1] \in Nat PROVE g[n] \in Nat
    <3>1. g[n] = g[n - 1] * dims[n] /\ dims[n] \in Nat
      BY <1>1, <1>9, Zenon
    <3> QED
      BY <2>1, <3>1
  <2>2. g[0] \in Nat
    BY <1>9
  <2> QED
    BY <1>1, <2>1, <2>2, PassedOn, Zenon
<1> QED
  BY <1>8, <1>9, <1>10, Zenon DEF N

\* A number of elements is a natural number.
LEMMA ProductIsNat ==
    ASSUME NEW dims \in Seq(Nat)
    PROVE  Product(dims) \in Nat
<1>1. Len(dims) \in Nat
  OBVIOUS
<1> QED
  BY <1>1, ProductsExist

\* A scalar has one element.
LEMMA ProductOfNone == Product(<< >>) = 1
<1>1. << >> \in Seq(Nat) /\ Len(<< >>) = 0
  OBVIOUS
<1> QED
  BY <1>1, ProductsExist

\* The product of a sequence is that of its first element and of the others.
LEMMA ProductOfRest ==
    ASSUME NEW dims \in Seq(Nat), NEW rest \in Seq(Nat), Len(dims) = Len(rest) + 1,
           \A i \in 1..Len(rest) : rest[i] = dims[i + 1]
    PROVE  Product(dims) = dims[1] * Product(rest)
<1>0. \A i \in 1..Len(rest) : rest[i] = dims[i + 1] /\ rest[i] \in Nat
  OBVIOUS
<1>1. PICK f : /\ Product(dims) = f[Len(dims)] /\ f[0] = 1
               /\ \A n \in 1..Len(dims) : f[n] = f[n - 1] * dims[n]
               /\ \A n \in 0..Len(dims) : f[n] \in Nat
  BY ProductsExist
<1>2. PICK g : /\ Product(rest) = g[Len(rest)] /\ g[0] = 1
               /\ \A n \in 1..Len(rest) : g[n] = g[n - 1] * rest[n]
               /\ \A n \in 0..Len(rest) : g[n] \in Nat
  BY ProductsExist
<1> DEFINE S == {n \in Nat : n <= Len(rest) => f[n + 1] = dims[1] * g[n]}
<1>3. Len(rest) \in Nat /\ dims[1] \in Nat
  OBVIOUS
<1>4. 0 \in S
  <2>1. f[1] = f[0] * dims[1]
    BY <1>1, <1>3
  <2>2. 1 * dims[1] = dims[1] * 1
    BY <1>3
  <2> QED
    BY <1>1, <1>2, <2>1, <2>2
<1>5. ASSUME NEW n \in Nat, n \in S PROVE n + 1 \in S
  <2> SUFFICES ASSUME n + 1 <= Len(rest) PROVE f[(n + 1) + 1] = dims[1] * g[n + 1]
    OBVIOUS
  <2>1. PICK k \in 1..Len(rest) : k = n + 1 /\ k - 1 = n /\ k + 1 \in 1..Len(dims) /\ (k + 1) - 1 = k
    BY <1>3
  <2>2. f[k + 1] = f[k] * dims[k + 1]
    BY <1>1, <2>1
  <2>3. f[k] = dims[1] * g[n]
    BY <1>5, <2>1
  <2>4. g[k] = g[n] * rest[k] /\ g[n] \in Nat
    BY <1>2, <2>1
  <2>5. rest[k] = dims[k + 1] /\ rest[k] \in Nat
    BY <1>0, <2>1, Zenon
  <2>6. PICK a \in Nat, b \in Nat, c \in Nat : a = dims[1] /\ b = g[n] /\ c = rest[k]
    BY <1>3, <2>4, <2>5
  <2>7. (dims[1] * g[n]) * rest[k] = dims[1] * (g[n] * rest[k])
    <3>1. (a * b) * c = a * (b * c)
      OBVIOUS
    <3> QED
      BY <2>6, <3>1, Zenon
  <2>8. f[k + 1] = dims[1] * g[k]
    BY <2>2, <2>3, <2>4, <2>5, <2>7
  <2> QED
    BY <2>1, <2>8
<1> HIDE DEF S
<1>6. Len(rest) \in S
  BY <1>3, <1>4, <1>5, Induction
<1> QED
  BY <1>1, <1>2, <1>6 DEF S

\* The product of the dimensions after an axis.
Later(shape, axis) == Product(SubSeq(shape, axis + 1, Len(shape)))

\* Products of the dimensions after an axis, from the one after it.
LEMMA LaterIs ==
    ASSUME NEW shape \in Seq(Nat)
    PROVE  /\ \A axis \in 0..Len(shape) : Later(shape, axis) \in Nat
           /\ \A axis \in 1..Len(shape) : Later(shape, axis - 1) = shape[axis] * Later(shape, axis)
           /\ Later(shape, 0) = Product(shape)
           /\ Later(shape, Len(shape)) = 1
<1>1. ASSUME NEW axis \in 0..Len(shape)
      PROVE  /\ SubSeq(shape, axis + 1, Len(shape)) \in Seq(Nat)
             /\ Len(SubSeq(shape, axis + 1, Len(shape))) = Len(shape) - axis
             /\ \A i \in 1..Len(shape) - axis : SubSeq(shape, axis + 1, Len(shape))[i] = shape[i + axis]
  <2>1. axis + 1 \in Int /\ Len(shape) \in Int /\ \A i \in axis + 1..Len(shape) : shape[i] \in Nat
    OBVIOUS
  <2> DEFINE dims == SubSeq(shape, axis + 1, Len(shape))
  <2>2. /\ dims \in Seq(Nat)
        /\ Len(dims) = IF axis + 1 <= Len(shape) THEN Len(shape) - (axis + 1) + 1 ELSE 0
        /\ \A i \in 1..Len(shape) - (axis + 1) + 1 : dims[i] = shape[(axis + 1) + i - 1]
    BY <2>1, SubSeqProperties
  <2> HIDE DEF dims
  <2>3. Len(dims) = Len(shape) - axis
    BY <2>1, <2>2
  <2>4. ASSUME NEW i \in 1..Len(shape) - axis PROVE dims[i] = shape[i + axis]
    <3>1. i \in 1..Len(shape) - (axis + 1) + 1 /\ (axis + 1) + i - 1 = i + axis
      BY <2>1
    <3> QED
      BY <2>2, <3>1
  <2> QED
    BY <2>2, <2>3, <2>4 DEF dims
<1>2. \A axis \in 0..Len(shape) : Later(shape, axis) \in Nat
  BY <1>1, ProductIsNat DEF Later
<1>3. ASSUME NEW axis \in 1..Len(shape) PROVE Later(shape, axis - 1) = shape[axis] * Later(shape, axis)
  <2> DEFINE dims == SubSeq(shape, (axis - 1) + 1, Len(shape))
             rest == SubSeq(shape, axis + 1, Len(shape))
  <2>1. axis - 1 \in 0..Len(shape) /\ axis \in 0..Len(shape)
    OBVIOUS
  <2>2. /\ dims \in Seq(Nat) /\ Len(dims) = Len(shape) - (axis - 1)
        /\ \A i \in 1..Len(shape) - (axis - 1) : dims[i] = shape[i + (axis - 1)]
    BY <1>1, <2>1, Zenon
  <2>3. /\ rest \in Seq(Nat) /\ Len(rest) = Len(shape) - axis
        /\ \A i \in 1..Len(shape) - axis : rest[i] = shape[i + axis]
    BY <1>1, <2>1, Zenon
  <2>4. Later(shape, axis - 1) = Product(dims) /\ Later(shape, axis) = Product(rest)
    BY DEF Later
  <2> HIDE DEF dims, rest
  <2>5. Len(dims) = Len(rest) + 1 /\ dims[1] = shape[axis]
    <3>1. 1 \in 1..Len(shape) - (axis - 1) /\ 1 + (axis - 1) = axis
      OBVIOUS
    <3>2. dims[1] = shape[1 + (axis - 1)]
      BY <2>2, <3>1, Zenon
    <3>3. Len(dims) = Len(rest) + 1
      BY <2>2, <2>3
    <3> QED
      BY <3>1, <3>2, <3>3
  <2>6. ASSUME NEW i \in 1..Len(rest) PROVE rest[i] = dims[i + 1]
    <3>1. i + 1 \in 1..Len(shape) - (axis - 1) /\ (i + 1) + (axis - 1) = i + axis /\ i \in 1..Len(shape) - axis
      <4>1. PICK N \in Nat : N = Len(shape)
        OBVIOUS
      <4>2. axis \in 1..N /\ i \in 1..N - axis
        BY <2>3, <4>1
      <4> QED
        BY <4>1, <4>2
    <3>2. dims[i + 1] = shape[(i + 1) + (axis - 1)]
      BY <2>2, <3>1, Zenon
    <3>3. rest[i] = shape[i + axis]
      BY <2>3, <3>1, Zenon
    <3> QED
      BY <3>1, <3>2, <3>3
  <2> QED
    BY <2>2, <2>3, <2>4, <2>5, <2>6, ProductOfRest
<1>4. Later(shape, 0) = Product(shape)
  <2>1. SubSeq(shape, 0 + 1, Len(shape)) = shape
    OBVIOUS
  <2> QED
    BY <2>1 DEF Later
<1>5. Later(shape, Len(shape)) = 1
  <2>1. SubSeq(shape, Len(shape) + 1, Len(shape)) = << >>
    OBVIOUS
  <2> QED
    BY <2>1, ProductOfNone DEF Later
<1> QED
  BY <1>2, <1>3, <1>4, <1>5

\* A non-empty shape of a few dimensions has a largest one.
LEMMA LargestDimension ==
    ASSUME NEW shape \in Seq(Nat)
    PROVE  Max({0} \cup ToSet(shape)) \in Nat /\ \A axis \in DOMAIN shape : shape[axis] <= Max({0} \cup ToSet(shape))
<1> DEFINE Largest(n) == \E m \in {0} \cup ToSet(shape) : m \in Nat /\ \A i \in 1..n : shape[i] <= m
           S == {n \in Nat : n <= Len(shape) => Largest(n)}
<1>1. ToSet(shape) = {shape[i] : i \in 1..Len(shape)} /\ Len(shape) \in Nat /\ DOMAIN shape = 1..Len(shape)
  BY DEF ToSet
<1>2. \A i \in 1..Len(shape) : shape[i] \in Nat /\ shape[i] \in {0} \cup ToSet(shape)
  BY <1>1
<1>3. 0 \in S
  BY <1>1
<1>4. ASSUME NEW n \in Nat, n \in S PROVE n + 1 \in S
  <2> SUFFICES ASSUME n + 1 <= Len(shape) PROVE Largest(n + 1)
    OBVIOUS
  <2>1. PICK m \in {0} \cup ToSet(shape) : m \in Nat /\ \A i \in 1..n : shape[i] <= m
    BY <1>1, <1>4
  <2>2. shape[n + 1] \in Nat /\ shape[n + 1] \in {0} \cup ToSet(shape)
    BY <1>2
  <2>3. CASE shape[n + 1] <= m
    <3>1. \A i \in 1..n + 1 : shape[i] <= m
      BY <2>1, <2>3
    <3> QED
      BY <2>1, <3>1
  <2>4. CASE shape[n + 1] > m
    <3>1. \A i \in 1..n + 1 : shape[i] <= shape[n + 1]
      BY <1>2, <2>1, <2>2, <2>4
    <3> QED
      BY <2>2, <3>1
  <2> QED
    BY <2>1, <2>2, <2>3, <2>4
<1> HIDE DEF S
<1>5. Len(shape) \in S
  BY <1>1, <1>3, <1>4, Induction
<1>6. PICK m \in {0} \cup ToSet(shape) : m \in Nat /\ \A i \in 1..Len(shape) : shape[i] <= m
  BY <1>1, <1>5 DEF S
<1>7. \A d \in {0} \cup ToSet(shape) : m >= d
  BY <1>1, <1>2, <1>6
<1> DEFINE largest == Max({0} \cup ToSet(shape))
<1>8. largest \in {0} \cup ToSet(shape) /\ \A d \in {0} \cup ToSet(shape) : largest >= d
  BY <1>6, <1>7 DEF Max
<1> HIDE DEF largest
<1>9. largest \in Nat
  BY <1>1, <1>2, <1>8
<1>10. \A axis \in DOMAIN shape : shape[axis] <= largest
  <2> TAKE axis \in DOMAIN shape
  <2>1. shape[axis] \in Nat /\ largest >= shape[axis]
    BY <1>1, <1>2, <1>8
  <2> QED
    BY <1>9, <2>1
<1> QED
  BY <1>9, <1>10 DEF largest

\* A place has an index below each dimension.
LEMMA PlacesAre ==
    ASSUME NEW shape \in Seq(Nat)
    PROVE  Places(shape) = {index \in [1..Len(shape) -> Nat] : \A axis \in 1..Len(shape) : index[axis] < shape[axis]}
<1>1. DOMAIN shape = 1..Len(shape) /\ \A axis \in 1..Len(shape) : shape[axis] \in Nat
  OBVIOUS
<1> DEFINE largest == Max({0} \cup ToSet(shape))
<1>2. largest \in Nat /\ \A axis \in 1..Len(shape) : shape[axis] <= largest
  BY <1>1, LargestDimension
<1>3. Places(shape) = {index \in [1..Len(shape) -> 0..largest] : \A axis \in 1..Len(shape) : index[axis] < shape[axis]}
  BY <1>1 DEF Places
<1> HIDE DEF largest
<1>4. ASSUME NEW index \in [1..Len(shape) -> Nat], \A axis \in 1..Len(shape) : index[axis] < shape[axis]
      PROVE  index \in [1..Len(shape) -> 0..largest]
  <2>1. ASSUME NEW axis \in 1..Len(shape) PROVE index[axis] \in 0..largest
    <3>1. index[axis] \in Nat /\ index[axis] < shape[axis] /\ shape[axis] <= largest /\ shape[axis] \in Nat
      BY <1>1, <1>2, <1>4
    <3> QED
      BY <1>2, <3>1
  <2> QED
    BY <2>1
<1>5. [1..Len(shape) -> 0..largest] \subseteq [1..Len(shape) -> Nat]
  BY <1>2
<1> QED
  BY <1>3, <1>4, <1>5

\* The row-major position of a place, axis by axis from the first.
Horner(h, shape, index) == h[0] = 0 /\ \A n \in 1..Len(shape) : h[n] = h[n - 1] * shape[n] + index[n]

\* The positions of a place's first axes, by Horner's rule.
LEMMA HornerExists ==
    ASSUME NEW shape \in Seq(Nat), NEW index \in [1..Len(shape) -> Nat]
    PROVE  \E h \in [0..Len(shape) -> Nat] : Horner(h, shape, index)
<1> DEFINE N == Len(shape)
           step == [p \in (1..N) \X Nat |-> p[2] * shape[p[1]] + index[p[1]]]
<1>1. N \in Nat /\ \A n \in 1..N : shape[n] \in Nat /\ index[n] \in Nat
  OBVIOUS
<1>2. step \in [(1..N) \X Nat -> Nat]
  <2>1. ASSUME NEW p \in (1..N) \X Nat PROVE p[2] * shape[p[1]] + index[p[1]] \in Nat
    <3>1. p[1] \in 1..N /\ p[2] \in Nat
      OBVIOUS
    <3>2. shape[p[1]] \in Nat /\ index[p[1]] \in Nat
      BY <1>1, <3>1
    <3>3. \A a, b, c \in Nat : a * b + c \in Nat
      OBVIOUS
    <3> QED
      BY <3>1, <3>2, <3>3
  <2> QED
    BY <2>1
<1>3. ASSUME NEW n \in 1..N, NEW m \in Nat PROVE step[<<n, m>>] = m * shape[n] + index[n]
  OBVIOUS
<1> HIDE DEF step, N
<1>4. PICK h \in [0..N -> Nat] : Recursively(h, N, 0, step)
  <2>1. 0 \in Nat
    OBVIOUS
  <2> QED
    BY <1>1, <1>2, <2>1, Recursion, Zenon
<1>5. h[0] = 0
  BY <1>1, <1>4 DEF Recursively
<1>6. ASSUME NEW n \in 1..N PROVE h[n] = h[n - 1] * shape[n] + index[n]
  <2>1. n \in 0..N /\ n # 0 /\ h[n - 1] \in Nat
    BY <1>1
  <2>2. h[n] = step[<<n, h[n - 1]>>]
    BY <1>4, <2>1 DEF Recursively
  <2> QED
    BY <1>3, <2>1, <2>2
<1> QED
  BY <1>4, <1>5, <1>6 DEF Horner, N

\* The compiled graph works the position out modulo the width of its words.
FlattenedTo(f, shape, index) ==
    f = [axis \in 0..Len(shape) |->
            IF axis = 0 THEN 0 ELSE Modulo("i64", f[axis - 1] * shape[axis] + index[axis])]

\* The index of the graph, cut to 64 bits at every axis, is the position cut once.
LEMMA FlattenedIs ==
    ASSUME NEW shape \in Seq(Nat), NEW index \in [1..Len(shape) -> Nat],
           NEW h \in [0..Len(shape) -> Nat], Horner(h, shape, index)
    PROVE  flattened_linalg_index(shape, index) = Modulo("i64", h[Len(shape)])
<1> DEFINE N == Len(shape)
           f == [n \in 0..N |-> Modulo("i64", h[n])]
<1>1. N \in Nat /\ \A n \in 1..N : shape[n] \in Nat /\ index[n] \in Nat
  OBVIOUS
<1>2. PICK m \in Nat \ {0} : m = TwoTo(Bits["i64"])
  BY WordsAre
<1>3. \A n : Modulo("i64", n) = n % m
  BY <1>2 DEF Modulo
<1>4. ASSUME NEW n \in 1..N
      PROVE  Modulo("i64", h[n]) = Modulo("i64", Modulo("i64", h[n - 1]) * shape[n] + index[n])
  <2>1. h[n] = h[n - 1] * shape[n] + index[n]
    BY DEF Horner
  <2>2. h[n - 1] \in Int /\ shape[n] \in Int /\ index[n] \in Int
    <3>1. n - 1 \in 0..Len(shape)
      BY <1>1
    <3>2. h[n - 1] \in Nat
      BY <3>1
    <3>3. shape[n] \in Nat /\ index[n] \in Nat
      BY <1>1
    <3> QED
      BY <3>2, <3>3
  <2>3. ((h[n - 1] % m) * shape[n] + index[n]) % m = (h[n - 1] * shape[n] + index[n]) % m
    <3>1. \A a, b, c \in Int : ((a % m) * b + c) % m = (a * b + c) % m
      BY ModProduct
    <3> QED
      BY <2>2, <3>1, Zenon
  <2> QED
    BY <1>3, <2>1, <2>3
<1>5. Modulo("i64", h[0]) = 0
  BY <1>2, <1>3 DEF Horner
<1> DEFINE Is(g) == FlattenedTo(g, shape, index)
           chosen == CHOOSE g : FlattenedTo(g, shape, index)
<1>6. FlattenedTo(f, shape, index)
  <2>1. ASSUME NEW n \in 0..N
        PROVE  Modulo("i64", h[n]) =
                 IF n = 0 THEN 0 ELSE Modulo("i64", f[n - 1] * shape[n] + index[n])
    <3>1. n # 0 => n \in 1..N /\ f[n - 1] = Modulo("i64", h[n - 1])
      BY <1>1
    <3> QED
      BY <1>4, <1>5, <3>1
  <2> QED
    BY <2>1 DEF FlattenedTo
<1>7. FlattenedTo(chosen, shape, index)
  BY <1>6
<1>8. flattened_linalg_index(shape, index) = chosen[N]
  BY DEF flattened_linalg_index, FlattenedTo
<1> HIDE DEF chosen, f
<1>9. chosen[0] = 0 /\ \A n \in 1..N : chosen[n] = Modulo("i64", chosen[n - 1] * shape[n] + index[n])
  <2>1. chosen = [n \in 0..N |-> IF n = 0 THEN 0 ELSE Modulo("i64", chosen[n - 1] * shape[n] + index[n])]
    BY <1>7 DEF FlattenedTo
  <2>2. 0 \in 0..N /\ \A n \in 1..N : n \in 0..N /\ n # 0
    BY <1>1
  <2> HIDE DEF N
  <2>3. chosen[0] = 0
    BY <2>1, <2>2
  <2>4. ASSUME NEW n \in 1..N PROVE chosen[n] = Modulo("i64", chosen[n - 1] * shape[n] + index[n])
    BY <2>1, <2>2
  <2> QED
    BY <2>3, <2>4
<1> DEFINE S == {n \in Nat : n <= N => chosen[n] = Modulo("i64", h[n])}
<1>10. 0 \in S
  BY <1>5, <1>9
<1>11. ASSUME NEW n \in Nat, n \in S PROVE n + 1 \in S
  <2> SUFFICES ASSUME n + 1 <= N PROVE chosen[n + 1] = Modulo("i64", h[n + 1])
    OBVIOUS
  <2>1. PICK k \in 1..N : k = n + 1 /\ k - 1 = n
    BY <1>1
  <2> QED
    BY <1>4, <1>9, <1>11, <2>1
<1> HIDE DEF S
<1>12. N \in S
  BY <1>1, <1>10, <1>11, Induction
<1> QED
  BY <1>8, <1>12 DEF S

\* The sums that InOrder(shape, index) is the last of.
SumsTo(f, shape, index) ==
    f = [axis \in 0..Len(shape) |->
            IF axis = 0 THEN 0 ELSE f[axis - 1] + index[axis] * Product(SubSeq(shape, axis + 1, Len(shape)))]

\* A position as a sum of strides is the one of Horner's rule.
LEMMA InOrderIs ==
    ASSUME NEW shape \in Seq(Nat), NEW index \in [1..Len(shape) -> Nat],
           NEW h \in [0..Len(shape) -> Nat], Horner(h, shape, index)
    PROVE  InOrder(shape, index) = h[Len(shape)]
<1> DEFINE N == Len(shape)
           f == [n \in 0..N |-> h[n] * Later(shape, n)]
<1>1. N \in Nat /\ \A n \in 1..N : shape[n] \in Nat /\ index[n] \in Nat
  OBVIOUS
<1>2. \A n \in 0..N : Later(shape, n) \in Nat
  BY LaterIs
<1>3. ASSUME NEW n \in 1..N
      PROVE  h[n] * Later(shape, n) = h[n - 1] * Later(shape, n - 1) + index[n] * Later(shape, n)
  <2>1. h[n] = h[n - 1] * shape[n] + index[n]
    BY DEF Horner
  <2>2. Later(shape, n - 1) = shape[n] * Later(shape, n)
    BY LaterIs
  <2>3. h[n - 1] \in Nat /\ shape[n] \in Nat /\ index[n] \in Nat /\ Later(shape, n) \in Nat
    <3>1. n \in 0..N /\ n - 1 \in 0..N
      BY <1>1
    <3> QED
      BY <1>1, <1>2, <3>1
  <2>4. \A a, b, c, d \in Nat : (a * b + c) * d = a * (b * d) + c * d
    OBVIOUS
  <2> QED
    BY <2>1, <2>2, <2>3, <2>4
<1>4. h[0] * Later(shape, 0) = 0
  <2>1. 0 \in 0..N
    BY <1>1
  <2>2. Later(shape, 0) \in Nat /\ h[0] = 0
    BY <1>2, <2>1 DEF Horner
  <2> QED
    BY <2>2
<1> DEFINE chosen == CHOOSE g : SumsTo(g, shape, index)
<1>5. SumsTo(f, shape, index)
  <2>1. ASSUME NEW n \in 0..N
        PROVE  h[n] * Later(shape, n) = IF n = 0 THEN 0 ELSE f[n - 1] + index[n] * Later(shape, n)
    <3>1. n # 0 => n \in 1..N /\ f[n - 1] = h[n - 1] * Later(shape, n - 1)
      BY <1>1
    <3> QED
      BY <1>3, <1>4, <3>1
  <2> QED
    BY <2>1 DEF SumsTo, Later
<1>6. SumsTo(chosen, shape, index)
  BY <1>5
<1>7. InOrder(shape, index) = chosen[N]
  BY DEF InOrder, SumsTo
<1> HIDE DEF chosen, f
<1>8. chosen[0] = 0 /\ \A n \in 1..N : chosen[n] = chosen[n - 1] + index[n] * Later(shape, n)
  <2>1. chosen = [n \in 0..N |-> IF n = 0 THEN 0 ELSE chosen[n - 1] + index[n] * Later(shape, n)]
    BY <1>6 DEF SumsTo, Later
  <2>2. 0 \in 0..N /\ \A n \in 1..N : n \in 0..N /\ n # 0
    BY <1>1
  <2> HIDE DEF N
  <2>3. chosen[0] = 0
    BY <2>1, <2>2
  <2>4. ASSUME NEW n \in 1..N PROVE chosen[n] = chosen[n - 1] + index[n] * Later(shape, n)
    BY <2>1, <2>2
  <2> QED
    BY <2>3, <2>4
<1> DEFINE S == {n \in Nat : n <= N => chosen[n] = h[n] * Later(shape, n)}
<1>9. 0 \in S
  BY <1>4, <1>8
<1>10. ASSUME NEW n \in Nat, n \in S PROVE n + 1 \in S
  <2> SUFFICES ASSUME n + 1 <= N PROVE chosen[n + 1] = h[n + 1] * Later(shape, n + 1)
    OBVIOUS
  <2>1. PICK k \in 1..N : k = n + 1 /\ k - 1 = n
    BY <1>1
  <2> QED
    BY <1>3, <1>8, <1>10, <2>1
<1> HIDE DEF S
<1>11. N \in S
  BY <1>1, <1>9, <1>10, Induction
<1>12. chosen[N] = h[N] * Later(shape, N) /\ Later(shape, N) = 1 /\ h[N] \in Nat
  BY <1>1, <1>11, LaterIs DEF S
<1> QED
  BY <1>7, <1>12

\* A place's position is below the number of elements.
LEMMA PositionIsBelow ==
    ASSUME NEW shape \in Seq(Nat), NEW index \in Places(shape)
    PROVE  InOrder(shape, index) \in 0..Product(shape) - 1
<1> DEFINE N == Len(shape)
<1>1. N \in Nat /\ \A n \in 1..N : shape[n] \in Nat
  OBVIOUS
<1>2. index \in [1..N -> Nat] /\ \A n \in 1..N : index[n] < shape[n]
  BY PlacesAre
<1>3. PICK h \in [0..N -> Nat] : Horner(h, shape, index)
  BY <1>2, HornerExists
<1>4. \A n \in 0..N : h[n] \in Nat /\ Later(shape, n) \in Nat
  BY LaterIs
<1> DEFINE S == {n \in Nat : n <= N => (h[n] + 1) * Later(shape, n) <= Product(shape)}
<1>5. Product(shape) \in Nat
  BY ProductIsNat
<1>6. 0 \in S
  <2>1. h[0] = 0 /\ Later(shape, 0) = Product(shape)
    BY LaterIs DEF Horner
  <2> QED
    BY <1>5, <2>1
<1>7. ASSUME NEW n \in Nat, n \in S PROVE n + 1 \in S
  <2> SUFFICES ASSUME n + 1 <= N PROVE (h[n + 1] + 1) * Later(shape, n + 1) <= Product(shape)
    OBVIOUS
  <2>1. PICK k \in 1..N : k = n + 1 /\ k - 1 = n
    BY <1>1
  <2>2. h[k] = h[n] * shape[k] + index[k] /\ Later(shape, n) = shape[k] * Later(shape, k)
    <3>1. h[k] = h[k - 1] * shape[k] + index[k]
      BY <1>3 DEF Horner
    <3>2. Later(shape, k - 1) = shape[k] * Later(shape, k)
      BY LaterIs
    <3> QED
      BY <2>1, <3>1, <3>2
  <2>3. k \in 0..N /\ n \in 0..N
    BY <1>1, <2>1
  <2>4. h[n] \in Nat /\ shape[k] \in Nat /\ index[k] \in Nat /\ index[k] < shape[k] /\ Later(shape, k) \in Nat
    BY <1>1, <1>2, <1>4, <2>3
  <2>5. (h[n] + 1) * Later(shape, n) <= Product(shape)
    BY <1>7, <2>3
  <2>6. \A a, b, c, d \in Nat : b < c => ((a * c + b) + 1) * d <= (a + 1) * (c * d)
    <3> TAKE a \in Nat, b \in Nat, c \in Nat, d \in Nat
    <3> HAVE b < c
    <3>1. (a + 1) * (c * d) = ((a + 1) * c) * d /\ (a + 1) * c = a * c + c
      OBVIOUS
    <3>2. \A x, y \in Nat : x <= y => x * d <= y * d
      OBVIOUS
    <3>3. (a * c + b) + 1 \in Nat /\ a * c + c \in Nat /\ (a * c + b) + 1 <= a * c + c
      OBVIOUS
    <3>4. ((a * c + b) + 1) * d <= (a * c + c) * d
      BY <3>2, <3>3
    <3> QED
      BY <3>1, <3>4
  <2>7. (h[k] + 1) * Later(shape, k) <= (h[n] + 1) * Later(shape, n)
    BY <2>2, <2>4, <2>6
  <2>8. (h[k] + 1) * Later(shape, k) \in Int /\ (h[n] + 1) * Later(shape, n) \in Int
    <3>1. h[k] + 1 \in Int /\ h[n] + 1 \in Int
      BY <2>3
    <3>2. Later(shape, k) \in Int /\ Later(shape, n) \in Int
      BY <1>4, <2>3
    <3>3. \A a, b \in Int : a * b \in Int
      OBVIOUS
    <3> QED
      BY <3>1, <3>2, <3>3, Zenon
  <2> QED
    BY <1>5, <2>1, <2>5, <2>7, <2>8
<1> HIDE DEF S
<1>8. N \in S
  BY <1>1, <1>6, <1>7, Induction
<1>9. (h[N] + 1) * Later(shape, N) <= Product(shape) /\ Later(shape, N) = 1 /\ h[N] \in Nat
  BY <1>1, <1>8, LaterIs DEF S
<1>10. InOrder(shape, index) = h[N]
  BY <1>2, <1>3, InOrderIs
<1> QED
  BY <1>5, <1>9, <1>10

\* Different places have different positions.
LEMMA PositionsDiffer ==
    ASSUME NEW shape \in Seq(Nat), NEW a \in Places(shape), NEW b \in Places(shape),
           InOrder(shape, a) = InOrder(shape, b)
    PROVE  a = b
<1> DEFINE N == Len(shape)
<1>1. N \in Nat /\ \A n \in 1..N : shape[n] \in Nat
  OBVIOUS
<1>2. /\ a \in [1..N -> Nat] /\ \A n \in 1..N : a[n] < shape[n]
      /\ b \in [1..N -> Nat] /\ \A n \in 1..N : b[n] < shape[n]
  BY PlacesAre
<1>3. PICK h \in [0..N -> Nat] : Horner(h, shape, a)
  BY <1>2, HornerExists
<1>4. PICK g \in [0..N -> Nat] : Horner(g, shape, b)
  BY <1>2, HornerExists
<1>5. h[N] = g[N]
  BY <1>2, <1>3, <1>4, InOrderIs
<1>6. ASSUME NEW n \in 1..N, h[n] = g[n] PROVE h[n - 1] = g[n - 1] /\ a[n] = b[n]
  <2>1. PICK d \in Nat \ {0} : d = shape[n] /\ a[n] \in 0..d - 1 /\ b[n] \in 0..d - 1
    <3>1. shape[n] \in Nat /\ a[n] \in Nat /\ b[n] \in Nat /\ a[n] < shape[n] /\ b[n] < shape[n]
      BY <1>1, <1>2
    <3> QED
      BY <3>1
  <2>2. PICK p \in Nat, q \in Nat : p = h[n - 1] /\ q = g[n - 1]
    <3>1. n - 1 \in 0..N
      BY <1>1
    <3> QED
      BY <3>1
  <2>3. PICK v \in Nat : v = h[n] /\ v = g[n]
    <3>1. n \in 0..N
      BY <1>1
    <3> QED
      BY <1>6, <3>1
  <2>4. v = p * d + a[n] /\ v = q * d + b[n]
    BY <1>3, <1>4, <2>1, <2>2, <2>3 DEF Horner
  <2>5. p * d = d * p /\ q * d = d * q
    OBVIOUS
  <2>6. PICK r \in 0..d - 1, s \in 0..d - 1 : r = a[n] /\ s = b[n]
    BY <2>1
  <2>7. v = d * p + r /\ v = d * q + s /\ v \in Int /\ p \in Int /\ q \in Int
    BY <2>4, <2>5, <2>6
  <2>8. v \div d = p /\ v % d = r
    BY <2>7, DivModIs, Zenon
  <2>9. v \div d = q /\ v % d = s
    BY <2>7, DivModIs, Zenon
  <2> QED
    BY <2>2, <2>6, <2>8, <2>9
<1> DEFINE S == {k \in Nat : k <= N => h[N - k] = g[N - k]}
<1>7. 0 \in S
  <2>1. N - 0 = N
    BY <1>1
  <2> QED
    BY <1>5, <2>1
<1>8. ASSUME NEW k \in Nat, k \in S PROVE k + 1 \in S
  <2> SUFFICES ASSUME k + 1 <= N PROVE h[N - (k + 1)] = g[N - (k + 1)]
    OBVIOUS
  <2>1. N - k \in 1..N /\ (N - k) - 1 = N - (k + 1) /\ h[N - k] = g[N - k]
    BY <1>1, <1>8
  <2>2. h[(N - k) - 1] = g[(N - k) - 1]
    BY <1>6, <2>1
  <2> QED
    BY <2>1, <2>2
<1> HIDE DEF S
<1>9. Nat \subseteq S
  BY <1>7, <1>8, Induction
<1>10. ASSUME NEW n \in 1..N PROVE a[n] = b[n]
  <2>1. N - n \in Nat /\ N - n <= N /\ N - (N - n) = n
    BY <1>1
  <2>2. h[n] = g[n]
    BY <1>9, <2>1 DEF S
  <2> QED
    BY <1>6, <2>2
<1> QED
  BY <1>2, <1>10

\* Every position below the number of elements is that of a place.
LEMMA PositionsAreTaken ==
    ASSUME NEW shape \in Seq(Nat), NEW position \in 0..Product(shape) - 1
    PROVE  \E index \in Places(shape) : InOrder(shape, index) = position
<1> DEFINE N == Len(shape)
<1>1. N \in Nat /\ \A n \in 1..N : shape[n] \in Nat
  OBVIOUS
<1>2. Product(shape) \in Nat
  BY ProductIsNat
<1>3. \A n \in 0..N : Later(shape, n) \in Nat \ {0}
  <2>1. ASSUME NEW n \in 1..N, Later(shape, n - 1) \in Nat \ {0} PROVE Later(shape, n) \in Nat \ {0}
    <3>1. Later(shape, n - 1) = shape[n] * Later(shape, n)
      BY LaterIs
    <3>2. Later(shape, n) \in Nat /\ shape[n] \in Nat
      <4>1. n \in 0..N
        BY <1>1
      <4> QED
        BY <1>1, <4>1, LaterIs
    <3> QED
      BY <2>1, <3>1, <3>2
  <2>2. Later(shape, 0) \in Nat \ {0}
    BY <1>2, LaterIs
  <2> DEFINE S == {n \in Nat : n <= N => Later(shape, n) \in Nat \ {0}}
  <2>3. 0 \in S
    BY <2>2
  <2>4. ASSUME NEW n \in Nat, n \in S PROVE n + 1 \in S
    <3> SUFFICES ASSUME n + 1 <= N PROVE Later(shape, n + 1) \in Nat \ {0}
      OBVIOUS
    <3>1. PICK k \in 1..N : k = n + 1 /\ k - 1 = n
      BY <1>1
    <3> QED
      BY <2>1, <2>4, <3>1
  <2> HIDE DEF S
  <2>5. Nat \subseteq S
    BY <2>3, <2>4, Induction
  <2> QED
    BY <1>1, <2>5 DEF S
<1>4. \A n \in 1..N : shape[n] \in Nat \ {0}
  <2> TAKE n \in 1..N
  <2>1. n - 1 \in 0..N /\ n \in 0..N
    BY <1>1
  <2>2. Later(shape, n - 1) = shape[n] * Later(shape, n) /\ Later(shape, n - 1) # 0 /\ Later(shape, n) \in Nat
    BY <1>3, <2>1, LaterIs
  <2>3. shape[n] \in Nat
    BY <1>1
  <2> QED
    BY <2>2, <2>3
<1> DEFINE h == [n \in 0..N |-> position \div Later(shape, n)]
           index == [n \in 1..N |-> (position \div Later(shape, n)) % shape[n]]
<1>5. ASSUME NEW n \in 0..N PROVE position \div Later(shape, n) \in Nat
  <2>1. PICK p \in Nat, d \in Nat \ {0} : p = position /\ d = Later(shape, n)
    <3>1. Later(shape, n) \in Nat \ {0}
      BY <1>3, Zenon
    <3>2. position \in Nat
      BY <1>2
    <3> QED
      BY <3>1, <3>2
  <2>2. p \div d \in Nat
    OBVIOUS
  <2> QED
    BY <2>1, <2>2
<1>6. ASSUME NEW n \in 1..N
      PROVE  /\ (position \div Later(shape, n)) % shape[n] \in Nat
             /\ (position \div Later(shape, n)) % shape[n] < shape[n]
             /\ position \div Later(shape, n) =
                  (position \div Later(shape, n - 1)) * shape[n] + ((position \div Later(shape, n)) % shape[n])
  <2>1. PICK d \in Nat \ {0}, e \in Nat \ {0} : d = shape[n] /\ e = Later(shape, n)
    <3>1. n \in 0..N
      BY <1>1
    <3> QED
      BY <1>3, <1>4, <3>1
  <2>2. Later(shape, n - 1) = e * d
    <3>1. Later(shape, n - 1) = d * e
      BY <2>1, LaterIs
    <3>2. d * e = e * d
      OBVIOUS
    <3> QED
      BY <3>1, <3>2
  <2>3. position \in Nat
    BY <1>2
  <2>4. (position \div e) \div d = position \div (e * d)
    BY <2>3, DivDiv
  <2>5. PICK q \in Nat : q = position \div e
    <3>1. PICK p \in Nat : p = position
      BY <2>3
    <3>2. p \div e \in Nat
      OBVIOUS
    <3> QED
      BY <3>1, <3>2
  <2>6. q = (q \div d) * d + (q % d) /\ q % d \in Nat /\ q % d < d
    OBVIOUS
  <2> QED
    BY <2>1, <2>2, <2>4, <2>5, <2>6
<1>7. index \in Places(shape)
  BY <1>6, PlacesAre
<1>8. h \in [0..N -> Nat] /\ index \in [1..N -> Nat]
  BY <1>5, <1>6
<1>9. h[0] = 0
  <2>1. Later(shape, 0) = Product(shape) /\ 0 \in 0..N
    BY <1>1, LaterIs
  <2>2. Product(shape) \in Nat \ {0}
    BY <1>2
  <2>3. position \div Product(shape) = 0
    BY <2>2, ModSmall
  <2> QED
    BY <2>1, <2>3
<1>10. h[N] = position
  <2>1. Later(shape, N) = 1 /\ N \in 0..N
    BY <1>1, LaterIs
  <2>2. position \div 1 = position
    BY <1>2
  <2> QED
    BY <2>1, <2>2
<1>11. ASSUME NEW n \in 1..N PROVE h[n] = h[n - 1] * shape[n] + index[n]
  <2>1. n \in 0..N /\ n - 1 \in 0..N
    BY <1>1
  <2> QED
    BY <1>6, <2>1
<1> HIDE DEF h, index
<1>12. Horner(h, shape, index)
  BY <1>9, <1>11 DEF Horner
<1>13. InOrder(shape, index) = position
  BY <1>8, <1>10, <1>12, InOrderIs
<1> QED
  BY <1>7, <1>13

\* A shape has as many places as its elements are counted.
LEMMA PlacesCounted ==
    ASSUME NEW shape \in Seq(Nat)
    PROVE  IsFiniteSet(Places(shape)) /\ Cardinality(Places(shape)) = Product(shape)
<1> DEFINE f == [index \in Places(shape) |-> InOrder(shape, index)]
           T == 0..Product(shape) - 1
<1>1. Product(shape) \in Nat
  BY ProductIsNat
<1>2. f \in [Places(shape) -> T]
  BY PositionIsBelow
<1>3. f \in Injection(Places(shape), T)
  <2>1. \A a, b \in Places(shape) : f[a] = f[b] => a = b
    BY PositionsDiffer
  <2> QED
    BY <1>2, <2>1 DEF Injection, IsInjective
<1>4. f \in Surjection(Places(shape), T)
  <2>1. \A position \in T : \E index \in Places(shape) : f[index] = position
    BY PositionsAreTaken
  <2> QED
    BY <1>2, <2>1 DEF Surjection
<1>5. f \in Bijection(Places(shape), T)
  BY <1>3, <1>4 DEF Bijection
<1>6. IsFiniteSet(T) /\ Cardinality(T) = Product(shape)
  <2>1. 0 \in Int /\ Product(shape) - 1 \in Int
    BY <1>1
  <2>2. IsFiniteSet(0..(Product(shape) - 1)) /\ Cardinality(0..(Product(shape) - 1)) =
            IF 0 > Product(shape) - 1 THEN 0 ELSE (Product(shape) - 1) - 0 + 1
    BY <2>1, FS_Interval
  <2> QED
    BY <1>1, <2>2
<1> QED
  <2>1. ExistsBijection(T, Places(shape))
    <3>1. ExistsBijection(Places(shape), T)
      BY <1>5 DEF ExistsBijection
    <3> QED
      BY <3>1, Fun_ExistsBijSymmetric
  <2> QED
    BY <1>6, <2>1, FS_Bijection

------------------------------------------------------------------------------
(* The inductive invariant: what each draw has made *)

\* What a draw of the graph returns, from the key it was given: its elements
\* and the key that follows.
MadeByGraph(r, ks) ==
    LET d == r.draw
        target == d.target
    IN /\ d.elem = target.elem /\ counts_in_i64(target)
       /\ r.returned \in DOMAIN ks /\ ks[r.returned] = random_next_key(ks[r.from], target)
       /\ \/ /\ d.op = "RandomUniform" /\ target.elem \in RandomFloats
             /\ ogt(target.elem, d.high, d.low)
             /\ r.elements = random_uniform_tensor(target, ks[r.from], d.low, d.high)
          \/ /\ d.op = "RandomInt" /\ target.elem \in RandomIntegers
             /\ d.low < d.high
             /\ r.elements = random_int_tensor(target, ks[r.from], Modulo(d.elem, d.low), Modulo(d.elem, d.high))

\* What the build makes of a seed.
MadeByBuild(r, ks) ==
    LET d == r.draw
        target == d.target
    IN /\ r.returned = 0
       /\ \/ /\ d.op = "StaticRandomUniform" /\ target.elem \in RandomFloats
             /\ r.elements \in static_random_uniform_literals(target, ks[r.from], d.low, d.high)
             /\ \A n \in DOMAIN r.elements : ~IsNaN(target.elem, r.elements[n])
          \/ /\ d.op = "StaticRandomInt" /\ target.elem \in RandomIntegers
             /\ r.elements \in static_random_int_literals(target, ks[r.from], d.low, d.high)

Made(r, ks) ==
    /\ IsDraw(r.draw)
    /\ r.from \in DOMAIN ks
    /\ MadeByGraph(r, ks) \/ MadeByBuild(r, ks)

StreamInv ==
    /\ program \in DOMAIN Programs
    /\ keys \in Seq(Words("i64")) /\ keys # << >>
    /\ drawn \in Seq(ToSet(drawn))
    /\ \A n \in DOMAIN drawn : Made(drawn[n], keys)

\* A sequence with one more element.
LEMMA AppendIs ==
    ASSUME NEW s, s \in Seq(ToSet(s)), NEW e
    PROVE  /\ Append(s, e) \in Seq(ToSet(Append(s, e)))
           /\ DOMAIN s = 1..Len(s) /\ DOMAIN Append(s, e) = 1..Len(s) + 1 /\ Len(s) \in Nat
           /\ \A n \in DOMAIN s : Append(s, e)[n] = s[n]
           /\ Append(s, e)[Len(s) + 1] = e
<1>1. s \in Seq(ToSet(s) \cup {e})
  OBVIOUS
<1>2. DOMAIN s = 1..Len(s) /\ Len(s) \in Nat
  OBVIOUS
<1>3. /\ DOMAIN Append(s, e) = 1..Len(s) + 1 /\ Len(Append(s, e)) = Len(s) + 1
      /\ \A n \in 1..Len(s) : Append(s, e)[n] = s[n]
      /\ Append(s, e)[Len(s) + 1] = e
      /\ Append(s, e) \in Seq(ToSet(s) \cup {e})
  BY <1>1, <1>2, AppendProperties
<1> DEFINE t == Append(s, e)
<1> HIDE DEF t
<1>4. \A n \in 1..Len(s) + 1 : t[n] \in ToSet(t)
  BY <1>3 DEF ToSet, t
<1>5. t \in Seq(ToSet(t))
  <2>1. t \in Seq(ToSet(s) \cup {e}) /\ Len(t) = Len(s) + 1 /\ Len(s) + 1 \in Nat
    BY <1>2, <1>3 DEF t
  <2>2. t \in [1..Len(s) + 1 -> ToSet(s) \cup {e}]
    BY <2>1
  <2>3. t \in [1..Len(s) + 1 -> ToSet(t)]
    BY <1>4, <2>2
  <2> QED
    BY <2>1, <2>3
<1> QED
  BY <1>2, <1>3, <1>5 DEF t

\* What was made of a key stays so when there are more keys.
LEMMA MadeIsKept ==
    ASSUME NEW r, NEW ks, NEW more, Made(r, ks), DOMAIN ks \subseteq DOMAIN more,
           \A n \in DOMAIN ks : more[n] = ks[n]
    PROVE  Made(r, more)
<1>1. r.from \in DOMAIN ks /\ more[r.from] = ks[r.from] /\ r.from \in DOMAIN more /\ IsDraw(r.draw)
  BY DEF Made
<1>2. CASE MadeByGraph(r, ks)
  <2>1. r.returned \in DOMAIN more /\ more[r.returned] = ks[r.returned]
    BY <1>2 DEF MadeByGraph
  <2>2. MadeByGraph(r, more)
    BY <1>1, <1>2, <2>1 DEF MadeByGraph
  <2> QED
    BY <1>1, <2>2 DEF Made
<1>3. CASE MadeByBuild(r, ks)
  <2>1. MadeByBuild(r, more)
    BY <1>1, <1>3 DEF MadeByBuild
  <2> QED
    BY <1>1, <2>1 DEF Made
<1> QED
  BY <1>2, <1>3 DEF Made

\* Keys are words, and so is the key a draw returns.
LEMMA NextKeyIsWord ==
    ASSUME NEW key \in Words("i64"), NEW target, target.shape \in Seq(Nat)
    PROVE  random_next_key(key, target) \in Words("i64")
<1>1. key + element_count(target) \in Int
  BY WordsAre, ProductIsNat DEF element_count
<1> QED
  BY <1>1, WordsAre DEF random_next_key

\* The draws to choose from are the program's.
LEMMA DrawsAre ==
    ASSUME program \in DOMAIN Programs, NEW op \in Operations, NEW d \in Draws(op)
    PROVE  d \in Programs[program].draws /\ d.op = op /\ IsDraw(d)
<1>1. d \in Catalogue[program].draws[op]
  BY DEF Draws
<1>2. Catalogue[program].draws[op] = {e \in Programs[program].draws : e.op = op}
  BY DEF Catalogue
<1> QED
  BY <1>1, <1>2, ProgramsAssumption

\* A draw of the graph keeps the invariant.
LEMMA DrawKeepsInv ==
    ASSUME StreamInv, NEW d, IsDraw(d), NEW place \in DOMAIN keys, NEW elements, Draw(d, place, elements),
           d.elem = d.target.elem,
           \/ /\ d.op = "RandomUniform" /\ d.target.elem \in RandomFloats
              /\ ogt(d.target.elem, d.high, d.low)
              /\ elements = random_uniform_tensor(d.target, keys[place], d.low, d.high)
           \/ /\ d.op = "RandomInt" /\ d.target.elem \in RandomIntegers
              /\ d.low < d.high
              /\ elements = random_int_tensor(d.target, keys[place], Modulo(d.elem, d.low), Modulo(d.elem, d.high))
    PROVE  StreamInv'
<1> DEFINE r == [draw |-> d, from |-> place, elements |-> elements, returned |-> Len(keys) + 1]
           key == random_next_key(keys[place], d.target)
<1>1. keys' = Append(keys, key) /\ drawn' = Append(drawn, r) /\ program' = program /\ counts_in_i64(d.target)
  BY DEF Draw
<1>2. key \in Words("i64")
  <2>1. keys[place] \in Words("i64")
    BY DEF StreamInv
  <2>2. d.target.shape \in Seq(Nat)
    BY DEF IsDraw
  <2> QED
    BY <2>1, <2>2, NextKeyIsWord
<1>3. /\ keys' \in Seq(Words("i64")) /\ keys' # << >>
      /\ DOMAIN keys = 1..Len(keys) /\ DOMAIN keys' = 1..Len(keys) + 1 /\ Len(keys) \in Nat
      /\ \A n \in DOMAIN keys : keys'[n] = keys[n]
      /\ keys'[Len(keys) + 1] = key
  <2> HIDE DEF key
  <2>1. keys \in Seq(Words("i64"))
    BY DEF StreamInv
  <2>2. DOMAIN keys = 1..Len(keys) /\ Len(keys) \in Nat
    BY <2>1
  <2>3. /\ Append(keys, key) \in Seq(Words("i64"))
        /\ Append(keys, key) # << >>
        /\ Len(Append(keys, key)) = Len(keys) + 1
        /\ \A n \in 1..Len(keys) : Append(keys, key)[n] = keys[n]
        /\ Append(keys, key)[Len(keys) + 1] = key
    BY <1>2, <2>1, AppendProperties
  <2>4. DOMAIN Append(keys, key) = 1..Len(keys) + 1
    BY <2>3
  <2> QED
    BY <1>1, <2>2, <2>3, <2>4
<1>4. /\ drawn' \in Seq(ToSet(drawn'))
      /\ DOMAIN drawn' = DOMAIN drawn \cup {Len(drawn) + 1}
      /\ \A n \in DOMAIN drawn : drawn'[n] = drawn[n]
      /\ drawn'[Len(drawn) + 1] = r
  <2>1. drawn \in Seq(ToSet(drawn))
    BY DEF StreamInv
  <2> HIDE DEF r
  <2>2. /\ drawn' \in Seq(ToSet(drawn'))
        /\ DOMAIN drawn = 1..Len(drawn) /\ DOMAIN drawn' = 1..Len(drawn) + 1 /\ Len(drawn) \in Nat
        /\ \A n \in DOMAIN drawn : drawn'[n] = drawn[n]
        /\ drawn'[Len(drawn) + 1] = r
    BY <1>1, <2>1, AppendIs
  <2> QED
    BY <2>2
<1>5. Made(r, keys')
  <2>1. r.draw = d /\ r.from = place /\ r.elements = elements /\ r.returned = Len(keys) + 1
    OBVIOUS
  <2>2. place \in DOMAIN keys' /\ keys'[place] = keys[place] /\ Len(keys) + 1 \in DOMAIN keys'
    BY <1>3
  <2> HIDE DEF r
  <2>3. MadeByGraph(r, keys')
    BY <1>1, <1>3, <2>1, <2>2 DEF MadeByGraph
  <2> QED
    BY <2>1, <2>2, <2>3 DEF Made
<1>6. ASSUME NEW n \in DOMAIN drawn' PROVE Made(drawn'[n], keys')
  <2>1. CASE n \in DOMAIN drawn
    <3>1. Made(drawn[n], keys) /\ DOMAIN keys \subseteq DOMAIN keys'
      BY <1>3, <2>1 DEF StreamInv
    <3>2. Made(drawn[n], keys')
      BY <1>3, <3>1, MadeIsKept
    <3> QED
      BY <1>4, <2>1, <3>2
  <2>2. CASE n = Len(drawn) + 1
    BY <1>4, <1>5, <2>2
  <2> QED
    BY <1>4, <2>1, <2>2
<1> QED
  BY <1>1, <1>3, <1>4, <1>6 DEF StreamInv

\* So does the expansion of a static tensor.
LEMMA ExpandKeepsInv ==
    ASSUME StreamInv, NEW d, IsDraw(d), NEW literals, Expand(d, literals),
           \/ /\ d.op = "StaticRandomUniform" /\ d.target.elem \in RandomFloats
              /\ literals \in static_random_uniform_literals(d.target, keys[1], d.low, d.high)
           \/ /\ d.op = "StaticRandomInt" /\ d.target.elem \in RandomIntegers
              /\ literals \in static_random_int_literals(d.target, keys[1], d.low, d.high)
    PROVE  StreamInv'
<1> DEFINE r == [draw |-> d, from |-> 1, elements |-> literals, returned |-> 0]
<1>1. keys' = keys /\ drawn' = Append(drawn, r) /\ program' = program
  BY DEF Expand
<1>2. /\ drawn' \in Seq(ToSet(drawn'))
      /\ DOMAIN drawn' = DOMAIN drawn \cup {Len(drawn) + 1}
      /\ \A n \in DOMAIN drawn : drawn'[n] = drawn[n]
      /\ drawn'[Len(drawn) + 1] = r
  <2>1. drawn \in Seq(ToSet(drawn))
    BY DEF StreamInv
  <2> HIDE DEF r
  <2>2. /\ drawn' \in Seq(ToSet(drawn'))
        /\ DOMAIN drawn = 1..Len(drawn) /\ DOMAIN drawn' = 1..Len(drawn) + 1 /\ Len(drawn) \in Nat
        /\ \A n \in DOMAIN drawn : drawn'[n] = drawn[n]
        /\ drawn'[Len(drawn) + 1] = r
    BY <1>1, <2>1, AppendIs
  <2> QED
    BY <2>2
<1>3. Made(r, keys)
  <2>1. r.draw = d /\ r.from = 1 /\ r.elements = literals /\ r.returned = 0
    OBVIOUS
  <2>2. 1 \in DOMAIN keys
    BY DEF StreamInv
  <2> HIDE DEF r
  <2>3. MadeByBuild(r, keys)
    BY <2>1 DEF MadeByBuild, Expand
  <2> QED
    BY <2>1, <2>2, <2>3 DEF Made
<1> QED
  BY <1>1, <1>2, <1>3 DEF StreamInv

\* Every draw and static tensor is what random.rs or static_creation.rs makes of
\* the key it was given, in every state of a program.
THEOREM StreamInvariant == Spec => []StreamInv
<1>1. Init => StreamInv
  <2> SUFFICES ASSUME Init PROVE StreamInv
    OBVIOUS
  <2>1. PICK key \in Programs[program].keys : keys = <<key>>
    BY DEF Init
  <2>2. program \in DOMAIN Programs /\ key \in Words("i64")
    BY ProgramsAssumption DEF Init
  <2>3. keys \in Seq(Words("i64")) /\ keys # << >>
    BY <2>1, <2>2
  <2>4. drawn = << >>
    BY DEF Init
  <2>5. drawn \in Seq(ToSet(drawn)) /\ DOMAIN drawn = {}
    BY <2>4
  <2> QED
    BY <2>2, <2>3, <2>5 DEF StreamInv
<1>2. StreamInv /\ [Next]_vars => StreamInv'
  <2> SUFFICES ASSUME StreamInv, [Next]_vars PROVE StreamInv'
    OBVIOUS
  <2>0. program \in DOMAIN Programs
    BY DEF StreamInv
  <2>1. CASE RandomUniform
    <3>1. PICK d \in Draws("RandomUniform"), place \in DOMAIN keys :
            \E target \in random_result_types(RandomFloats, d.target, d.elem) :
              /\ ogt(target.elem, d.high, d.low)
              /\ Draw(d, place, random_uniform_tensor(target, keys[place], d.low, d.high))
      BY <2>1 DEF RandomUniform
    <3>2. /\ d.target.elem \in RandomFloats /\ d.elem = d.target.elem
          /\ ogt(d.target.elem, d.high, d.low)
          /\ Draw(d, place, random_uniform_tensor(d.target, keys[place], d.low, d.high))
      BY <3>1 DEF random_result_types, Ok
    <3>3. IsDraw(d) /\ d.op = "RandomUniform"
      BY <2>0, DrawsAre DEF Operations
    <3> QED
      BY <3>2, <3>3, DrawKeepsInv
  <2>2. CASE RandomInt
    <3>1. PICK d \in Draws("RandomInt"), place \in DOMAIN keys :
            \E target \in random_result_types(RandomIntegers, d.target, d.elem) :
              /\ d.low < d.high
              /\ Draw(d, place, random_int_tensor(target, keys[place], Modulo(d.elem, d.low), Modulo(d.elem, d.high)))
      BY <2>2 DEF RandomInt
    <3>2. /\ d.target.elem \in RandomIntegers /\ d.elem = d.target.elem
          /\ d.low < d.high
          /\ Draw(d, place, random_int_tensor(d.target, keys[place], Modulo(d.elem, d.low), Modulo(d.elem, d.high)))
      BY <3>1 DEF random_result_types, Ok
    <3>3. IsDraw(d) /\ d.op = "RandomInt"
      BY <2>0, DrawsAre DEF Operations
    <3> QED
      BY <3>2, <3>3, DrawKeepsInv
  <2>3. CASE StaticRandomUniform
    <3>1. PICK d \in Draws("StaticRandomUniform") :
            \E target \in random_result_types(RandomFloats, d.target, d.elem) :
            \E literals \in static_random_uniform_literals(target, keys[1], d.low, d.high) : Expand(d, literals)
      BY <2>3 DEF StaticRandomUniform
    <3>2. PICK literals \in static_random_uniform_literals(d.target, keys[1], d.low, d.high) :
            Expand(d, literals) /\ d.target.elem \in RandomFloats
      BY <3>1 DEF random_result_types, Ok
    <3>3. IsDraw(d) /\ d.op = "StaticRandomUniform"
      BY <2>0, DrawsAre DEF Operations
    <3> QED
      BY <3>2, <3>3, ExpandKeepsInv
  <2>4. CASE StaticRandomInt
    <3>1. PICK d \in Draws("StaticRandomInt") :
            \E target \in random_result_types(RandomIntegers, d.target, d.elem) :
            \E literals \in static_random_int_literals(target, keys[1], d.low, d.high) : Expand(d, literals)
      BY <2>4 DEF StaticRandomInt
    <3>2. PICK literals \in static_random_int_literals(d.target, keys[1], d.low, d.high) :
            Expand(d, literals) /\ d.target.elem \in RandomIntegers
      BY <3>1 DEF random_result_types, Ok
    <3>3. IsDraw(d) /\ d.op = "StaticRandomInt"
      BY <2>0, DrawsAre DEF Operations
    <3> QED
      BY <3>2, <3>3, ExpandKeepsInv
  <2>5. CASE UNCHANGED vars
    BY <2>5 DEF vars, StreamInv
  <2> QED
    BY <2>1, <2>2, <2>3, <2>4, <2>5 DEF Next
<1> QED
  BY <1>1, <1>2, PTL DEF Spec

------------------------------------------------------------------------------
(* One stream of numbers *)

\* The hash of an element is that of the key plus its position.
LEMMA HashAtIs ==
    ASSUME NEW shape \in Seq(Nat), NEW key \in Words("i64"), NEW index \in Places(shape)
    PROVE  /\ HashAt(shape, key, index) = HashesInBlock[Modulo("i64", key + InOrder(shape, index))]
           /\ HashAt(shape, key, index) \in Words("i64")
<1>1. index \in [1..Len(shape) -> Nat]
  BY PlacesAre
<1>2. PICK h \in [0..Len(shape) -> Nat] : Horner(h, shape, index)
  BY <1>1, HornerExists
<1>3. Len(shape) \in 0..Len(shape)
  OBVIOUS
<1>4. PICK n \in Nat : n = h[Len(shape)]
  BY <1>3
<1>5. flattened_linalg_index(shape, index) = Modulo("i64", n) /\ InOrder(shape, index) = n
  BY <1>1, <1>2, <1>4, FlattenedIs, InOrderIs
<1>6. PICK m \in Nat \ {0} : m = TwoTo(Bits["i64"])
  BY WordsAre
<1>7. key \in Int /\ n \in Int /\ key + n \in Int
  BY WordsAre
<1>8. (key + (n % m)) % m = (key + n) % m
  <2>1. ((n % m) + key) % m = (n + key) % m
    BY <1>7, ModSum
  <2>2. (n % m) + key = key + (n % m) /\ n + key = key + n
    BY <1>7
  <2> QED
    BY <2>1, <2>2
<1>9. Modulo("i64", key + Modulo("i64", n)) = Modulo("i64", key + n)
  BY <1>6, <1>8 DEF Modulo
<1>10. Modulo("i64", key + n) \in Words("i64")
  BY <1>7, WordsAre
<1> QED
  BY <1>5, <1>9, <1>10, HashesAre DEF HashAt

\* The shape of a scalar, its one place and its one element.
LEMMA ScalarIs ==
    /\ \A elem : Type(elem, << >>) = [elem |-> elem, shape |-> << >>]
    /\ << >> \in Seq(Nat) /\ Len(<< >>) = 0
    /\ << >> \in Places(<< >>)
    /\ InOrder(<< >>, << >>) = 0
<1>1. << >> \in Seq(Nat) /\ Len(<< >>) = 0 /\ 1..0 = {}
  OBVIOUS
<1>2. SubSeq(<< >>, 1, Len(<< >>)) = << >>
  OBVIOUS
<1>3. << >> \in [1..Len(<< >>) -> Nat]
  BY <1>1
<1>4. << >> \in Places(<< >>)
  BY <1>1, <1>3, PlacesAre
<1>5. InOrder(<< >>, << >>) \in 0..1 - 1
  BY <1>1, <1>4, PositionIsBelow, ProductOfNone
<1> QED
  BY <1>1, <1>2, <1>4, <1>5 DEF Type

\* The keys that KeysOf(key, n) gives.
KeysTo(f, key, n) == f = [k \in 0..n |-> IF k = 0 THEN key ELSE random_next_key(f[k - 1], Type("f32", << >>))]

\* The keys of draws of one element count up.
LEMMA KeysOfIs ==
    ASSUME NEW key \in Words("i64"), NEW n \in Nat
    PROVE  \A k \in 0..n : KeysOf(key, n)[k] = Modulo("i64", key + k)
<1>1. PICK m \in Nat \ {0} : m = TwoTo(Bits["i64"])
  BY WordsAre
<1>2. key \in Nat /\ Modulo("i64", key) = key /\ key + 0 = key
  BY WordsAre
<1>3. \A word : random_next_key(word, Type("f32", << >>)) = Modulo("i64", word + 1)
  BY ScalarIs, ProductOfNone DEF random_next_key, element_count
<1>4. ASSUME NEW k \in 1..n PROVE Modulo("i64", key + k) = Modulo("i64", Modulo("i64", key + (k - 1)) + 1)
  <2>1. key + (k - 1) \in Int /\ (key + (k - 1)) + 1 = key + k
    BY <1>2
  <2>2. (((key + (k - 1)) % m) + 1) % m = ((key + (k - 1)) + 1) % m
    BY <2>1, ModSum
  <2> QED
    BY <1>1, <2>1, <2>2 DEF Modulo
<1> DEFINE f == [k \in 0..n |-> Modulo("i64", key + k)]
           chosen == CHOOSE g : KeysTo(g, key, n)
<1>5. KeysTo(f, key, n)
  <2>1. ASSUME NEW k \in 0..n
        PROVE  Modulo("i64", key + k) = IF k = 0 THEN key ELSE random_next_key(f[k - 1], Type("f32", << >>))
    <3>1. k # 0 => k \in 1..n /\ f[k - 1] = Modulo("i64", key + (k - 1))
      OBVIOUS
    <3> QED
      BY <1>2, <1>3, <1>4, <3>1
  <2> QED
    BY <2>1 DEF KeysTo
<1>6. KeysTo(chosen, key, n)
  BY <1>5
<1>7. KeysOf(key, n) = chosen
  BY DEF KeysOf, KeysTo
<1> HIDE DEF chosen, f
<1>8. chosen[0] = key /\ \A k \in 1..n : chosen[k] = random_next_key(chosen[k - 1], Type("f32", << >>))
  BY <1>6 DEF KeysTo
<1> DEFINE S == {k \in Nat : k <= n => chosen[k] = Modulo("i64", key + k)}
<1>9. 0 \in S
  BY <1>2, <1>8
<1>10. ASSUME NEW k \in Nat, k \in S PROVE k + 1 \in S
  <2> SUFFICES ASSUME k + 1 <= n PROVE chosen[k + 1] = Modulo("i64", key + (k + 1))
    OBVIOUS
  <2>1. PICK j \in 1..n : j = k + 1 /\ j - 1 = k
    OBVIOUS
  <2> QED
    BY <1>3, <1>4, <1>8, <1>10, <2>1
<1> HIDE DEF S
<1>11. Nat \subseteq S
  BY <1>9, <1>10, Induction
<1> QED
  BY <1>7, <1>11 DEF S

\* One number drawn with a key is the sample of that key's hash.
LEMMA SingleIs ==
    ASSUME NEW r, NEW key \in Words("i64")
    PROVE  Single(r, key) =
             LET d == r.draw
             IN IF IsFloat(r) THEN uniform_sample(d.target.elem, d.low, d.high, HashesInBlock[key])
                ELSE integer_sample(d.target.elem, Modulo(d.elem, d.low), Modulo(d.elem, d.high), HashesInBlock[key])
<1> DEFINE d == r.draw
           one == Type(d.target.elem, << >>)
<1>1. one.shape = << >> /\ one.elem = d.target.elem
  BY ScalarIs
<1>2. HashAt(<< >>, key, << >>) = HashesInBlock[key]
  <2>1. key + 0 = key /\ Modulo("i64", key) = key
    BY WordsAre
  <2>2. HashAt(<< >>, key, << >>) = HashesInBlock[Modulo("i64", key + InOrder(<< >>, << >>))]
    BY ScalarIs, HashAtIs, Zenon
  <2> QED
    BY <2>1, <2>2, ScalarIs
<1>3. << >> \in Places(<< >>)
  BY ScalarIs
<1> HIDE DEF d, one
<1>4. random_uniform_tensor(one, key, d.low, d.high)[<< >>] =
        uniform_sample(d.target.elem, d.low, d.high, HashesInBlock[key])
  BY <1>1, <1>2, <1>3 DEF random_uniform_tensor
<1>5. random_int_tensor(one, key, Modulo(d.elem, d.low), Modulo(d.elem, d.high))[<< >>] =
        integer_sample(d.target.elem, Modulo(d.elem, d.low), Modulo(d.elem, d.high), HashesInBlock[key])
  BY <1>1, <1>2, <1>3 DEF random_int_tensor
<1> QED
  BY <1>4, <1>5 DEF Single, one, d

\* The elements of a draw of the graph, by their positions.
LEMMA ElementsAre ==
    ASSUME NEW r, NEW ks \in Seq(Words("i64")), Made(r, ks), r.returned # 0
    PROVE  LET d == r.draw
               shape == d.target.shape
           IN /\ MadeByGraph(r, ks) /\ shape \in Seq(Nat) /\ Product(shape) \in Nat /\ r.from \in DOMAIN ks
              /\ ks[r.from] \in Words("i64") /\ ks[r.returned] = Modulo("i64", ks[r.from] + Product(shape))
              /\ IsFloat(r) <=> d.op = "RandomUniform"
              /\ DOMAIN r.elements = Places(shape)
              /\ \A index \in Places(shape) :
                   r.elements[index] =
                     LET hash == HashesInBlock[Modulo("i64", ks[r.from] + InOrder(shape, index))]
                     IN IF IsFloat(r) THEN uniform_sample(d.target.elem, d.low, d.high, hash)
                        ELSE integer_sample(d.target.elem, Modulo(d.elem, d.low), Modulo(d.elem, d.high), hash)
<1> DEFINE d == r.draw
           shape == d.target.shape
           key == ks[r.from]
<1>1. MadeByGraph(r, ks) /\ r.from \in DOMAIN ks /\ shape \in Seq(Nat)
  BY DEF Made, MadeByBuild, IsDraw
<1>2. key \in Words("i64") /\ Product(shape) \in Nat
  BY <1>1, ProductIsNat
<1>3. ks[r.returned] = Modulo("i64", key + Product(shape))
  BY <1>1 DEF MadeByGraph, random_next_key, element_count
<1>4. \A index \in Places(shape) :
        HashAt(shape, key, index) = HashesInBlock[Modulo("i64", key + InOrder(shape, index))]
  BY <1>1, <1>2, HashAtIs
<1>5. CASE d.op = "RandomUniform"
  <2>1. d.target.elem \in RandomFloats /\ r.elements = random_uniform_tensor(d.target, key, d.low, d.high)
    BY <1>1, <1>5 DEF MadeByGraph
  <2> HIDE DEF d, shape, key
  <2>2. /\ DOMAIN r.elements = Places(d.target.shape)
        /\ \A index \in Places(d.target.shape) :
             r.elements[index] = uniform_sample(d.target.elem, d.low, d.high, HashAt(d.target.shape, key, index))
    BY <2>1 DEF random_uniform_tensor
  <2> QED
    BY <1>1, <1>2, <1>3, <1>4, <1>5, <2>1, <2>2 DEF IsFloat, d, shape, key
<1>6. CASE d.op = "RandomInt"
  <2>1. /\ d.target.elem \in RandomIntegers
        /\ r.elements = random_int_tensor(d.target, key, Modulo(d.elem, d.low), Modulo(d.elem, d.high))
    BY <1>1, <1>6 DEF MadeByGraph
  <2>2. ~IsFloat(r)
    BY <2>1 DEF IsFloat, RandomIntegers, RandomFloats
  <2> HIDE DEF d, shape, key
  <2>3. /\ DOMAIN r.elements = Places(d.target.shape)
        /\ \A index \in Places(d.target.shape) :
             r.elements[index] = integer_sample(d.target.elem, Modulo(d.elem, d.low), Modulo(d.elem, d.high),
                                                HashAt(d.target.shape, key, index))
    BY <2>1 DEF random_int_tensor
  <2> QED
    BY <1>1, <1>2, <1>3, <1>4, <1>6, <2>2, <2>3 DEF d, shape, key
<1> QED
  BY <1>1, <1>5, <1>6 DEF MadeByGraph

\* A key is a position in one stream of numbers: whatever its shape, a tensor
\* that random.rs draws takes the numbers that drawing them one at a time would,
\* in row-major order, and returns the key that would be left.
THEOREM StreamsContinueHolds == Spec => []StreamsContinue
<1>1. StreamInv => StreamsContinue
  <2> SUFFICES ASSUME StreamInv, NEW n \in DOMAIN drawn, Dynamic(drawn[n])
               PROVE  LET r == drawn[n]
                          shape == r.draw.target.shape
                      IN \E ks \in {KeysOf(keys[r.from], Product(shape))} :
                           /\ keys[r.returned] = ks[Product(shape)]
                           /\ \A index \in DOMAIN r.elements :
                                r.elements[index] = Single(r, ks[InOrder(shape, index)])
    BY DEF StreamsContinue
  <2> DEFINE r == drawn[n]
             shape == r.draw.target.shape
             key == keys[r.from]
             ks == KeysOf(key, Product(shape))
  <2>1. keys \in Seq(Words("i64")) /\ Made(r, keys) /\ r.returned # 0
    BY DEF StreamInv, Dynamic
  <2> HIDE DEF r
  <2>2. /\ shape \in Seq(Nat) /\ Product(shape) \in Nat /\ key \in Words("i64")
        /\ keys[r.returned] = Modulo("i64", key + Product(shape))
        /\ DOMAIN r.elements = Places(shape)
    BY <2>1, ElementsAre
  <2>3. \A k \in 0..Product(shape) : ks[k] = Modulo("i64", key + k)
    BY <2>2, KeysOfIs
  <2>4. keys[r.returned] = ks[Product(shape)]
    <3>1. Product(shape) \in 0..Product(shape)
      BY <2>2
    <3> QED
      BY <2>2, <2>3, <3>1
  <2>5. ASSUME NEW index \in Places(shape) PROVE r.elements[index] = Single(r, ks[InOrder(shape, index)])
    <3>1. InOrder(shape, index) \in 0..Product(shape)
      <4>1. InOrder(shape, index) \in 0..Product(shape) - 1
        BY <2>2, PositionIsBelow
      <4> QED
        BY <2>2, <4>1
    <3>2. ks[InOrder(shape, index)] = Modulo("i64", key + InOrder(shape, index))
      BY <2>3, <3>1
    <3>3. Modulo("i64", key + InOrder(shape, index)) \in Words("i64")
      <4>1. key + InOrder(shape, index) \in Int
        BY <2>2, <3>1, WordsAre
      <4> QED
        BY <4>1, WordsAre
    <3> DEFINE word == Modulo("i64", key + InOrder(shape, index))
               d == r.draw
    <3>4. r.elements[index] =
            IF IsFloat(r) THEN uniform_sample(d.target.elem, d.low, d.high, HashesInBlock[word])
            ELSE integer_sample(d.target.elem, Modulo(d.elem, d.low), Modulo(d.elem, d.high), HashesInBlock[word])
      BY <2>1, ElementsAre
    <3>5. Single(r, word) =
            IF IsFloat(r) THEN uniform_sample(d.target.elem, d.low, d.high, HashesInBlock[word])
            ELSE integer_sample(d.target.elem, Modulo(d.elem, d.low), Modulo(d.elem, d.high), HashesInBlock[word])
      BY <3>3, SingleIs
    <3> QED
      BY <3>2, <3>4, <3>5
  <2> QED
    BY <2>2, <2>4, <2>5 DEF r
<1> QED
  BY <1>1, StreamInvariant, PTL

\* The sums that Total is the last of.
TotalTo(f, draws) ==
    f = [n \in 0..Len(draws) |-> IF n = 0 THEN 0 ELSE f[n - 1] + element_count(draws[n].draw.target)]

\* The numbers of elements that Total adds up.
LEMMA TotalIs ==
    ASSUME StreamInv
    PROVE  \E f : /\ Total = f[Len(drawn)] /\ f[0] = 0
                  /\ \A n \in 1..Len(drawn) : /\ f[n] = f[n - 1] + element_count(drawn[n].draw.target)
                                              /\ element_count(drawn[n].draw.target) \in Nat
                  /\ \A n \in 0..Len(drawn) : f[n] \in Nat
<1> DEFINE N == Len(drawn)
           Count(n) == element_count(drawn[n].draw.target)
           step == [p \in (1..N) \X Nat |-> p[2] + Count(p[1])]
<1>1. N \in Nat /\ DOMAIN drawn = 1..N
  BY DEF StreamInv
<1>2. ASSUME NEW n \in 1..N PROVE Count(n) \in Nat
  BY <1>1, ProductIsNat DEF StreamInv, Made, IsDraw, element_count
<1> HIDE DEF N, Count
<1>3. step \in [(1..N) \X Nat -> Nat]
  BY <1>2
<1>4. ASSUME NEW n \in 1..N, NEW m \in Nat PROVE step[<<n, m>>] = m + Count(n)
  OBVIOUS
<1> HIDE DEF step
<1>5. PICK f \in [0..N -> Nat] : Recursively(f, N, 0, step)
  <2>1. 0 \in Nat
    OBVIOUS
  <2> QED
    BY <1>1, <1>3, <2>1, Recursion, Zenon
<1>6. ASSUME NEW n \in 0..N
      PROVE  (IF n = 0 THEN 0 ELSE step[<<n, f[n - 1]>>]) = IF n = 0 THEN 0 ELSE f[n - 1] + Count(n)
  <2>1. n # 0 => n \in 1..N /\ f[n - 1] \in Nat
    BY <1>1
  <2> QED
    BY <1>4, <2>1
<1>7. TotalTo(f, drawn)
  BY <1>5, <1>6 DEF TotalTo, Recursively, N, Count
<1> DEFINE g == CHOOSE h : TotalTo(h, drawn)
<1>8. TotalTo(g, drawn)
  BY <1>7
<1>9. Total = g[N]
  BY DEF Total, TotalTo, N
<1> HIDE DEF g
<1>10. g[0] = 0 /\ \A n \in 1..N : g[n] = g[n - 1] + Count(n)
  BY <1>1, <1>8 DEF TotalTo, N, Count
<1>11. \A n \in 0..N : g[n] \in Nat
  <2>1. ASSUME NEW n \in 1..N, g[n - 1] \in Nat PROVE g[n] \in Nat
    BY <1>2, <1>10, <2>1
  <2>2. g[0] \in Nat
    BY <1>10
  <2> QED
    BY <1>1, <2>1, <2>2, PassedOn, Zenon
<1> QED
  BY <1>2, <1>9, <1>10, <1>11, Zenon DEF N, Count

\* Numbers of the stream before the counter comes round have different counters.
LEMMA CountersDiffer ==
    ASSUME NEW key \in Words("i64"), NEW a \in 0..TwoTo(Bits["i64"]) - 1, NEW b \in 0..TwoTo(Bits["i64"]) - 1,
           Modulo("i64", key + a) = Modulo("i64", key + b)
    PROVE  a = b
<1>1. PICK m \in Nat \ {0} : m = TwoTo(Bits["i64"])
  BY WordsAre
<1>2. a \in 0..m - 1 /\ b \in 0..m - 1 /\ key \in Nat
  BY <1>1, WordsAre
<1>3. PICK u \in Nat, v \in Nat : u = key + a /\ v = key + b
  BY <1>2
<1>4. u % m = v % m
  BY <1>1, <1>3 DEF Modulo
<1>5. u = m * (u \div m) + (u % m) /\ u \div m \in Int /\ u % m \in Int
  BY DivMod
<1>6. v = m * (v \div m) + (v % m) /\ v \div m \in Int
  BY DivMod
<1>7. PICK q \in Int, p \in Int, r \in Int : u = m * q + r /\ v = m * p + r
  BY <1>4, <1>5, <1>6
<1>8. a - b = m * (q - p)
  BY <1>2, <1>3, <1>7
<1>9. \A k \in Int : (k >= 1 => m * k >= m) /\ (k <= -1 => m * k <= -m)
  OBVIOUS
<1>10. q - p = 0
  BY <1>2, <1>8, <1>9
<1> QED
  BY <1>2, <1>8, <1>10

\* The hashes of a draw of the graph are those of as many counters in a row.
LEMMA HashesOfIs ==
    ASSUME NEW r, NEW key \in Words("i64"), r.draw.target.shape \in Seq(Nat), keys[r.from] = key,
           DOMAIN r.elements = Places(r.draw.target.shape)
    PROVE  HashesOf(r) = {HashesInBlock[Modulo("i64", key + p)] : p \in 0..Product(r.draw.target.shape) - 1}
<1> DEFINE shape == r.draw.target.shape
<1>1. HashesOf(r) = {HashAt(shape, key, index) : index \in Places(shape)}
  BY DEF HashesOf
<1> HIDE DEF shape
<1>2. ASSUME NEW index \in Places(shape)
      PROVE  /\ HashAt(shape, key, index) = HashesInBlock[Modulo("i64", key + InOrder(shape, index))]
             /\ InOrder(shape, index) \in 0..Product(shape) - 1
  BY HashAtIs, PositionIsBelow DEF shape
<1>3. \A p \in 0..Product(shape) - 1 : \E index \in Places(shape) : InOrder(shape, index) = p
  BY PositionsAreTaken DEF shape
<1>4. {HashAt(shape, key, index) : index \in Places(shape)} =
        {HashesInBlock[Modulo("i64", key + p)] : p \in 0..Product(shape) - 1}
  BY <1>2, <1>3
<1> QED
  BY <1>1, <1>4 DEF shape

\* Until all keys have gone by, draws that pass the key of random.rs on never
\* see a number of the stream twice.
THEOREM NoNumberTwiceHolds == Spec => []NoNumberTwice
<1>1. StreamInv => NoNumberTwice
  <2> SUFFICES ASSUME StreamInv, \A n \in DOMAIN drawn : Dynamic(drawn[n]) /\ Follows(n),
                      Total <= TwoTo(Bits["i64"])
               PROVE  Cardinality(UNION {HashesOf(drawn[n]) : n \in DOMAIN drawn}) = Total
    BY DEF NoNumberTwice
  <2> DEFINE N == Len(drawn)
             Count(n) == element_count(drawn[n].draw.target)
             key == IF N = 0 THEN keys[1] ELSE keys[drawn[1].from]
             Hash(m) == HashesInBlock[Modulo("i64", key + m)]
             Seen == UNION {HashesOf(drawn[n]) : n \in DOMAIN drawn}
  <2>1. N \in Nat /\ DOMAIN drawn = 1..N
    BY DEF StreamInv
  <2>2. PICK f : /\ Total = f[N] /\ f[0] = 0
                 /\ \A n \in 1..N : f[n] = f[n - 1] + Count(n) /\ Count(n) \in Nat
                 /\ \A n \in 0..N : f[n] \in Nat
    BY TotalIs
  <2>3. ASSUME NEW n \in 1..N
        PROVE  LET r == drawn[n]
               IN /\ r.draw.target.shape \in Seq(Nat) /\ keys[r.from] \in Words("i64")
                  /\ DOMAIN r.elements = Places(r.draw.target.shape)
                  /\ keys[r.returned] = Modulo("i64", keys[r.from] + Count(n))
    <3>1. keys \in Seq(Words("i64")) /\ Made(drawn[n], keys) /\ drawn[n].returned # 0
      BY <2>1 DEF StreamInv, Dynamic
    <3> QED
      BY <3>1, ElementsAre DEF element_count
  <2>4. key \in Words("i64")
    <3>1. keys \in Seq(Words("i64")) /\ keys # << >>
      BY DEF StreamInv
    <3>2. CASE N = 0
      BY <3>1, <3>2
    <3>3. CASE N # 0
      <4>1. 1 \in 1..N
        BY <2>1, <3>3
      <4> QED
        BY <2>3, <3>3, <4>1
    <3> QED
      BY <3>2, <3>3
  <2>5. PICK size \in Nat \ {0} : size = TwoTo(Bits["i64"])
    BY WordsAre
  <2> HIDE DEF N, Count
  <2>6. \A n \in 1..N : keys[drawn[n].from] = Modulo("i64", key + f[n - 1])
    <3> DEFINE S == {k \in Nat : k + 1 <= N => keys[drawn[k + 1].from] = Modulo("i64", key + f[k])}
    <3>1. 0 \in S
      <4> SUFFICES ASSUME 0 + 1 <= N PROVE keys[drawn[0 + 1].from] = Modulo("i64", key + f[0])
        OBVIOUS
      <4>1. key = keys[drawn[1].from] /\ 0 + 1 = 1
        BY <2>1
      <4>2. key + f[0] = key /\ Modulo("i64", key) = key
        BY <2>2, <2>4, WordsAre
      <4> QED
        BY <4>1, <4>2
    <3>2. ASSUME NEW k \in Nat, k \in S PROVE k + 1 \in S
      <4> HIDE DEF key
      <4> SUFFICES ASSUME (k + 1) + 1 <= N
                   PROVE  keys[drawn[(k + 1) + 1].from] = Modulo("i64", key + f[k + 1])
        OBVIOUS
      <4>1. PICK n \in 1..N : n = k + 1 /\ n - 1 = k /\ n + 1 \in 1..N /\ n + 1 # 1 /\ (n + 1) - 1 = n
        BY <2>1
      <4>2. keys[drawn[n].from] = Modulo("i64", key + f[k])
        BY <3>2, <4>1
      <4>3. drawn[n + 1].from = drawn[n].returned
        <5>1. Follows(n + 1)
          BY <2>1, <4>1
        <5> QED
          BY <4>1, <5>1 DEF Follows
      <4>4. keys[drawn[n].returned] = Modulo("i64", keys[drawn[n].from] + Count(n))
        BY <2>3
      <4>5. f[n] = f[k] + Count(n) /\ f[k] \in Nat /\ Count(n) \in Nat
        BY <2>1, <2>2, <4>1
      <4>6. (((key + f[k]) % size) + Count(n)) % size = (key + f[n]) % size
        <5>1. key + f[k] \in Int /\ (key + f[k]) + Count(n) = key + f[n]
          BY <2>4, <4>5, WordsAre
        <5>2. (((key + f[k]) % size) + Count(n)) % size = ((key + f[k]) + Count(n)) % size
          BY <4>5, <5>1, ModSum
        <5> QED
          BY <5>1, <5>2
      <4> QED
        BY <2>5, <4>1, <4>2, <4>3, <4>4, <4>6 DEF Modulo
    <3> HIDE DEF S, key
    <3>3. Nat \subseteq S
      BY <3>1, <3>2, Induction
    <3> TAKE n \in 1..N
    <3>4. n - 1 \in S /\ (n - 1) + 1 = n /\ n <= N
      BY <2>1, <3>3
    <3> QED
      BY <3>4 DEF S
  <2> HIDE DEF key
  <2>7. ASSUME NEW n \in 1..N PROVE HashesOf(drawn[n]) = {Hash(m) : m \in f[n - 1]..f[n] - 1}
    <3>1. PICK base \in Nat, count \in Nat : base = f[n - 1] /\ count = Count(n) /\ f[n] = base + count
      <4>1. n - 1 \in 0..N
        BY <2>1
      <4> QED
        BY <2>2, <4>1
    <3>2. PICK word \in Words("i64") : word = keys[drawn[n].from] /\ word = Modulo("i64", key + base)
      BY <2>3, <2>6, <3>1
    <3>3. HashesOf(drawn[n]) = {HashesInBlock[Modulo("i64", word + p)] : p \in 0..count - 1}
      <4>1. HashesOf(drawn[n]) = {HashesInBlock[Modulo("i64", word + p)] : p \in 0..Product(drawn[n].draw.target.shape) - 1}
        BY <2>3, <3>2, HashesOfIs
      <4> QED
        BY <3>1, <4>1 DEF Count, element_count
    <3>4. ASSUME NEW p \in Nat PROVE Modulo("i64", word + p) = Modulo("i64", key + (base + p))
      <4>1. key + base \in Int /\ (key + base) + p = key + (base + p)
        BY <2>4, WordsAre
      <4>2. (((key + base) % size) + p) % size = ((key + base) + p) % size
        BY <4>1, ModSum
      <4> QED
        BY <2>5, <3>2, <4>1, <4>2 DEF Modulo
    <3>5. \A p \in 0..count - 1 : p \in Nat /\ base + p \in base..(base + count) - 1
      OBVIOUS
    <3>6. \A m \in base..(base + count) - 1 : m - base \in 0..count - 1 /\ base + (m - base) = m /\ m - base \in Nat
      OBVIOUS
    <3>7. {HashesInBlock[Modulo("i64", word + p)] : p \in 0..count - 1} = {Hash(m) : m \in base..(base + count) - 1}
      <4>1. \A p \in 0..count - 1 : HashesInBlock[Modulo("i64", word + p)] = Hash(base + p)
        BY <3>4, <3>5
      <4>2. \A m \in base..(base + count) - 1 : Hash(m) = HashesInBlock[Modulo("i64", word + (m - base))]
        BY <3>4, <3>6
      <4> HIDE DEF Hash
      <4> QED
        BY <3>5, <3>6, <4>1, <4>2
    <3> QED
      BY <3>1, <3>3, <3>7
  <2> HIDE DEF Hash
  <2>8. \A n \in 0..N : f[n] <= f[N]
    <3> DEFINE S == {k \in Nat : k <= N => f[N - k] <= f[N]}
    <3>1. 0 \in S
      <4>1. N - 0 = N /\ f[N] \in Nat
        BY <2>1, <2>2
      <4> QED
        BY <4>1
    <3>2. ASSUME NEW k \in Nat, k \in S PROVE k + 1 \in S
      <4> SUFFICES ASSUME k + 1 <= N PROVE f[N - (k + 1)] <= f[N]
        OBVIOUS
      <4>1. PICK n \in 1..N : n = N - k /\ n - 1 = N - (k + 1) /\ n \in 0..N /\ n - 1 \in 0..N
        BY <2>1
      <4>2. f[n] = f[n - 1] + Count(n) /\ Count(n) \in Nat /\ f[n] \in Nat /\ f[n - 1] \in Nat
        BY <2>2, <4>1
      <4>3. f[n] <= f[N] /\ f[N] \in Nat
        BY <2>1, <2>2, <3>2, <4>1
      <4> QED
        BY <4>1, <4>2, <4>3
    <3> HIDE DEF S
    <3>3. Nat \subseteq S
      BY <3>1, <3>2, Induction
    <3> TAKE n \in 0..N
    <3>4. N - n \in S /\ N - n <= N /\ N - (N - n) = n
      BY <2>1, <3>3
    <3> QED
      BY <3>4 DEF S
  <2>9. \A m \in 0..f[N] - 1 : \E n \in 1..N : m \in f[n - 1]..f[n] - 1
    <3> DEFINE S == {k \in Nat : k <= N => \A m \in 0..f[k] - 1 : \E n \in 1..N : m \in f[n - 1]..f[n] - 1}
    <3>1. 0 \in S
      BY <2>2
    <3>2. ASSUME NEW k \in Nat, k \in S PROVE k + 1 \in S
      <4> SUFFICES ASSUME k + 1 <= N, NEW m \in 0..f[k + 1] - 1 PROVE \E n \in 1..N : m \in f[n - 1]..f[n] - 1
        OBVIOUS
      <4>1. PICK n \in 1..N : n = k + 1 /\ n - 1 = k
        BY <2>1
      <4>2. f[k] \in Nat /\ f[k + 1] \in Nat
        BY <2>1, <2>2
      <4>3. CASE m < f[k]
        <5>1. m \in 0..f[k] - 1
          BY <4>2, <4>3
        <5>2. k <= N
          BY <2>1
        <5> QED
          BY <3>2, <5>1, <5>2, Zenon
      <4>4. CASE m >= f[k]
        BY <4>1, <4>2, <4>4
      <4> QED
        BY <4>2, <4>3, <4>4
    <3> HIDE DEF S
    <3>3. N \in S
      BY <2>1, <3>1, <3>2, Induction
    <3> QED
      BY <2>1, <3>3 DEF S
  <2>10. Seen = {Hash(m) : m \in 0..f[N] - 1}
    <3>1. ASSUME NEW n \in 1..N, NEW m \in f[n - 1]..f[n] - 1 PROVE m \in 0..f[N] - 1
      <4>1. n - 1 \in 0..N /\ n \in 0..N /\ N \in 0..N
        BY <2>1
      <4>2. f[n - 1] \in Nat /\ f[n] \in Nat /\ f[N] \in Nat /\ f[n] <= f[N]
        BY <2>2, <2>8, <4>1
      <4> QED
        BY <4>2
    <3> QED
      BY <2>1, <2>7, <2>9, <3>1
  <2>11. ASSUME NEW a \in 0..f[N] - 1, NEW b \in 0..f[N] - 1, Hash(a) = Hash(b) PROVE a = b
    <3>1. f[N] \in Nat /\ f[N] <= TwoTo(Bits["i64"])
      BY <2>1, <2>2
    <3>2. a \in 0..TwoTo(Bits["i64"]) - 1 /\ b \in 0..TwoTo(Bits["i64"]) - 1 /\ a \in Nat /\ b \in Nat
      BY <2>5, <3>1
    <3>3. key + a \in Int /\ key + b \in Int
      BY <2>4, <3>2, WordsAre
    <3>4. Modulo("i64", key + a) = Modulo("i64", key + b)
      BY <2>11, <3>3, HashesAre, WordsAre DEF Hash
    <3> QED
      BY <2>4, <3>2, <3>4, CountersDiffer
  <2> DEFINE g == [m \in 0..f[N] - 1 |-> Hash(m)]
  <2>12. g \in Bijection(0..f[N] - 1, Seen)
    <3>1. g \in [0..f[N] - 1 -> Seen]
      BY <2>10
    <3>2. \A a, b \in 0..f[N] - 1 : g[a] = g[b] => a = b
      BY <2>11
    <3>3. \A x \in Seen : \E m \in 0..f[N] - 1 : g[m] = x
      BY <2>10
    <3> QED
      BY <3>1, <3>2, <3>3 DEF Bijection, Injection, IsInjective, Surjection
  <2>13. IsFiniteSet(0..(f[N] - 1)) /\ Cardinality(0..(f[N] - 1)) = IF 0 > f[N] - 1 THEN 0 ELSE (f[N] - 1) - 0 + 1
    <3>1. 0 \in Int /\ f[N] - 1 \in Int
      BY <2>1, <2>2
    <3> QED
      BY <3>1, FS_Interval
  <2>14. Cardinality(Seen) = Cardinality(0..f[N] - 1)
    <3>1. ExistsBijection(0..f[N] - 1, Seen)
      BY <2>12 DEF ExistsBijection
    <3> QED
      BY <2>13, <3>1, FS_Bijection
  <2> QED
    BY <2>1, <2>2, <2>13, <2>14
<1> QED
  BY <1>1, StreamInvariant, PTL

------------------------------------------------------------------------------
(* Floats *)

\* The widths of words, the sign bit among them.
LEMMA WidthsAre ==
    ASSUME NEW elem \in {"f32", "f64", "i32", "i64"}
    PROVE  /\ SignBit(elem) \in Nat \ {0} /\ TwoTo(Bits[elem]) = 2 * SignBit(elem)
           /\ Words(elem) = 0..2 * SignBit(elem) - 1
           /\ \A n : Modulo(elem, n) = n % (2 * SignBit(elem))
           /\ \A n \in Int : Modulo(elem, n) \in Words(elem)
           /\ \A word \in Words(elem) : word \in Nat /\ Modulo(elem, word) = word
<1>1. Bits[elem] \in Nat \ {0}
  BY FormatsAssumption
<1>2. PICK n \in Nat : n = Bits[elem] - 1 /\ n + 1 = Bits[elem]
  BY <1>1
<1>3. PICK s \in Nat \ {0} : s = SignBit(elem) /\ TwoTo(Bits[elem]) = 2 * s
  BY <1>2, TwoToIs DEF SignBit
<1>4. Words(elem) = 0..2 * s - 1 /\ \A m : Modulo(elem, m) = m % (2 * s)
  BY <1>3 DEF Words, Modulo
<1>5. \A m \in Int : m % (2 * s) \in 0..2 * s - 1
  OBVIOUS
<1>6. \A word \in 0..2 * s - 1 : word % (2 * s) = word
  OBVIOUS
<1>7. \A m \in Int : Modulo(elem, m) \in Words(elem)
  BY <1>4, <1>5
<1>8. \A word \in Words(elem) : word \in Nat /\ Modulo(elem, word) = word
  BY <1>4, <1>6
<1> QED
  BY <1>3, <1>4, <1>7, <1>8

\* The parts of a format: infinity and NaN are below the sign bit, and Scale is
\* a whole number of the smallest floats.
LEMMA FormatIs ==
    ASSUME NEW elem \in RandomFloats
    PROVE  \E T \in Nat, bias \in Nat, least \in Nat \ {0} :
             /\ T = TwoTo(Mantissa[elem]) /\ T >= 2 /\ bias = Bias(elem)
             /\ Mantissa[elem] \in Nat \ {0} /\ Mantissa[elem] < bias
             /\ least = Scale \div TwoTo(bias + Mantissa[elem] - 1)
             /\ Scale = TwoTo(bias + Mantissa[elem] - 1) * least
             /\ Infinity(elem) = (2 * bias + 1) * T /\ Infinity(elem) \in Nat
             /\ SignBit(elem) = Infinity(elem) + T
             /\ elem \in {"f32", "f64"} /\ elem \in DOMAIN Mantissa
<1> DEFINE M == Mantissa[elem]
           E == ExponentBits(elem)
<1>1. elem \in DOMAIN Mantissa /\ elem \in DOMAIN Bits /\ elem \in {"f32", "f64"}
  BY FormatsAssumption DEF RandomFloats
<1>2. Bits[elem] \in Nat /\ M \in 1..Bits[elem] - 3 /\ M < Bias(elem) /\ Scale \in Nat \ {0}
      /\ Scale % TwoTo(Bias(elem) + M - 1) = 0
  BY <1>1, FormatsAssumption
<1>3. E \in Nat /\ E >= 2 /\ E = Bits[elem] - 1 - M /\ M \in Nat \ {0}
  BY <1>2 DEF ExponentBits
<1> HIDE DEF M, E
<1>4. PICK T \in Nat \ {0} : T = TwoTo(M) /\ T >= 2
  <2>1. M - 1 \in Nat /\ (M - 1) + 1 = M
    BY <1>3
  <2>2. PICK u \in Nat \ {0} : u = TwoTo(M - 1) /\ TwoTo(M) = 2 * u
    BY <2>1, TwoToIs
  <2> QED
    BY <2>2
<1>5. PICK half \in Nat \ {0} : half = TwoTo(E - 1) /\ TwoTo(E) = 2 * half
  <2>1. E - 1 \in Nat /\ (E - 1) + 1 = E
    BY <1>3
  <2> QED
    BY <2>1, TwoToIs
<1>6. PICK bias \in Nat : bias = Bias(elem) /\ TwoTo(E) = 2 * bias + 2
  BY <1>5 DEF Bias, E
<1>7. bias + M - 1 \in Nat
  BY <1>3
<1>8. PICK unit \in Nat \ {0} : unit = TwoTo(bias + M - 1)
  BY <1>7, TwoToIs
<1>9. PICK least \in Nat \ {0} : least = Scale \div unit /\ Scale = unit * least
  <2>1. Scale % unit = 0 /\ Scale \in Nat \ {0}
    BY <1>2, <1>6, <1>8 DEF M
  <2>2. Scale = unit * (Scale \div unit) + (Scale % unit) /\ Scale \div unit \in Nat
    BY <2>1
  <2> QED
    BY <2>1, <2>2
<1>10. Infinity(elem) = (2 * bias + 1) * T /\ (2 * bias + 1) * T \in Nat
  <2>1. TwoTo(E) - 1 = 2 * bias + 1
    BY <1>6
  <2> QED
    BY <1>4, <2>1 DEF Infinity, E, M
<1>11. SignBit(elem) = (2 * bias + 1) * T + T
  <2>1. Bits[elem] - 1 = E + M
    BY <1>2, <1>3
  <2>2. SignBit(elem) = (2 * bias + 2) * T
    <3>1. TwoTo(E + M) = TwoTo(E) * TwoTo(M)
      BY <1>3, TwoToSum
    <3> QED
      BY <1>4, <1>6, <2>1, <3>1 DEF SignBit
  <2>3. (2 * bias + 2) * T = (2 * bias + 1) * T + T
    OBVIOUS
  <2> QED
    BY <2>2, <2>3
<1> QED
  BY <1>1, <1>2, <1>3, <1>4, <1>6, <1>8, <1>9, <1>10, <1>11 DEF M

\* What the patterns up to "last" stand for, by exponent and fraction.
Laid(at, last, T, least) ==
    \A e \in Nat, fraction \in 0..T - 1 : e * T + fraction \in 0..last =>
        at[e * T + fraction] = IF e = 0 THEN fraction * least ELSE (T + fraction) * TwoTo(e - 1) * least

\* The magnitudes of a format are laid out in that way.
LEMMA MagnitudeIs ==
    ASSUME NEW elem \in RandomFloats, NEW T \in Nat, T = TwoTo(Mantissa[elem]), T >= 2,
           NEW least \in Nat, least = Scale \div TwoTo(Bias(elem) + Mantissa[elem] - 1)
    PROVE  Laid(Magnitudes[elem], Infinity(elem), T, least)
<1> SUFFICES ASSUME NEW e \in Nat, NEW fraction \in 0..T - 1, e * T + fraction \in 0..Infinity(elem)
             PROVE  Magnitudes[elem][e * T + fraction] =
                      IF e = 0 THEN fraction * least ELSE (T + fraction) * TwoTo(e - 1) * least
  BY Zenon DEF Laid
<1> DEFINE bits == e * T + fraction
<1>1. elem \in DOMAIN Mantissa
  BY FormatsAssumption DEF RandomFloats
<1>2. e * T = T * e /\ T \in Nat \ {0} /\ e * T \in Nat
  OBVIOUS
<1>3. bits = T * e + fraction /\ bits \in Int /\ e \in Int
  BY <1>2
<1>4. bits \div T = e /\ bits % T = fraction
  BY <1>2, <1>3, DivModIs
<1>5. bits \in 0..Infinity(elem)
  OBVIOUS
<1> HIDE DEF bits
<1>6. Magnitudes[elem][bits] =
        IF bits \div T = 0 THEN (bits % T) * least ELSE (T + (bits % T)) * TwoTo((bits \div T) - 1) * least
  BY <1>1, <1>5 DEF Magnitudes
<1> QED
  BY <1>4, <1>6 DEF bits

\* They are in the order of the patterns.
LEMMA MagnitudesGrow ==
    ASSUME NEW elem \in RandomFloats
    PROVE  /\ Magnitudes[elem][0] = 0
           /\ \A bits \in 0..Infinity(elem) : Magnitudes[elem][bits] \in Nat
           /\ \A bits \in 1..Infinity(elem) : Magnitudes[elem][bits - 1] < Magnitudes[elem][bits]
<1> DEFINE at == Magnitudes[elem]
<1>1. PICK T \in Nat, bias \in Nat, least \in Nat \ {0} :
        /\ T = TwoTo(Mantissa[elem]) /\ T >= 2 /\ bias = Bias(elem)
        /\ least = Scale \div TwoTo(bias + Mantissa[elem] - 1)
        /\ Infinity(elem) = (2 * bias + 1) * T /\ Infinity(elem) \in Nat
  BY FormatIs
<1>2. \A e \in Nat, fraction \in 0..T - 1 : e * T + fraction \in 0..Infinity(elem) =>
        at[e * T + fraction] = IF e = 0 THEN fraction * least ELSE (T + fraction) * TwoTo(e - 1) * least
  <2>1. least = Scale \div TwoTo(Bias(elem) + Mantissa[elem] - 1) /\ T = TwoTo(Mantissa[elem]) /\ T >= 2 /\ least \in Nat
    BY <1>1
  <2>2. Laid(Magnitudes[elem], Infinity(elem), T, least)
    BY <2>1, MagnitudeIs
  <2> QED
    BY <2>2, Zenon DEF Laid
<1>0. T \in Nat \ {0} /\ Infinity(elem) \in Nat
  BY <1>1
<1> HIDE DEF at
<1>3. at[0] = 0
  <2>1. 0 * T + 0 = 0 /\ 0 \in 0..T - 1 /\ 0 * least = 0 /\ 0 * T + 0 \in 0..Infinity(elem)
    BY <1>0
  <2> QED
    BY <1>2, <2>1
<1>4. ASSUME NEW bits \in 0..Infinity(elem)
      PROVE  \E e \in Nat, fraction \in 0..T - 1 : bits = e * T + fraction
  <2>1. PICK b \in Nat : b = bits
    BY <1>0
  <2>2. b = (b \div T) * T + (b % T) /\ b \div T \in Nat /\ b % T \in 0..T - 1
    BY <1>0
  <2> QED
    BY <2>1, <2>2
<1>5. \A e \in Nat : e # 0 => TwoTo(e - 1) \in Nat \ {0}
  BY TwoToIs
<1>6. ASSUME NEW bits \in 0..Infinity(elem) PROVE at[bits] \in Nat
  <2>1. PICK e \in Nat, fraction \in 0..T - 1 : bits = e * T + fraction
    BY <1>4
  <2>2. at[bits] = IF e = 0 THEN fraction * least ELSE (T + fraction) * TwoTo(e - 1) * least
    BY <1>2, <2>1
  <2>3. \A a, b, c \in Nat : a * b * c \in Nat
    OBVIOUS
  <2>4. fraction * least \in Nat /\ T + fraction \in Nat
    OBVIOUS
  <2> QED
    BY <1>5, <2>2, <2>3, <2>4
<1>7. ASSUME NEW bits \in 1..Infinity(elem) PROVE at[bits - 1] < at[bits]
  <2>1. bits - 1 \in 0..Infinity(elem) /\ bits \in 0..Infinity(elem)
    BY <1>1
  <2>2. PICK e \in Nat, fraction \in 0..T - 1 : bits - 1 = e * T + fraction
    BY <1>4, <2>1
  <2>3. at[bits - 1] = IF e = 0 THEN fraction * least ELSE (T + fraction) * TwoTo(e - 1) * least
    BY <1>2, <2>1, <2>2
  <2>4. CASE fraction < T - 1
    <3>1. bits = e * T + (fraction + 1) /\ fraction + 1 \in 0..T - 1
      BY <2>2, <2>4
    <3>2. at[bits] = IF e = 0 THEN (fraction + 1) * least ELSE (T + (fraction + 1)) * TwoTo(e - 1) * least
      BY <1>2, <2>1, <3>1
    <3>3. CASE e = 0
      <4>1. (fraction + 1) * least = fraction * least + least /\ fraction * least \in Nat
        OBVIOUS
      <4> QED
        BY <2>3, <3>2, <3>3, <4>1
    <3>4. CASE e # 0
      <4>1. PICK u \in Nat \ {0} : u = TwoTo(e - 1)
        BY <1>5, <3>4
      <4>2. (T + (fraction + 1)) * u * least = (T + fraction) * u * least + u * least
        OBVIOUS
      <4>3. (T + fraction) * u * least \in Nat /\ u * least \in Nat \ {0}
        OBVIOUS
      <4> QED
        BY <2>3, <3>2, <3>4, <4>1, <4>2, <4>3
    <3> QED
      BY <3>3, <3>4
  <2>5. CASE fraction = T - 1
    <3>1. bits = (e + 1) * T + 0 /\ 0 \in 0..T - 1 /\ e + 1 \in Nat /\ e + 1 # 0 /\ (e + 1) - 1 = e
      <4>1. (e + 1) * T = e * T + T /\ e * T \in Nat
        OBVIOUS
      <4> QED
        BY <1>0, <2>2, <2>5, <4>1
    <3>2. at[bits] = (T + 0) * TwoTo(e) * least
      BY <1>2, <2>1, <3>1
    <3>3. CASE e = 0
      <4>1. (T - 1) * least = T * least - least /\ (T + 0) * 1 * least = T * least /\ T * least \in Nat
        OBVIOUS
      <4> QED
        BY <2>3, <2>5, <3>2, <3>3, <4>1, TwoToIs
    <3>4. CASE e # 0
      <4>1. PICK u \in Nat \ {0} : u = TwoTo(e - 1) /\ TwoTo(e) = 2 * u
        <5>1. e - 1 \in Nat /\ (e - 1) + 1 = e
          BY <3>4
        <5> QED
          BY <5>1, TwoToIs
      <4>2. (T + (T - 1)) * u * least = 2 * (T * u * least) - u * least
        OBVIOUS
      <4>3. (T + 0) * (2 * u) * least = 2 * (T * u * least) /\ T * u * least \in Nat /\ u * least \in Nat \ {0}
        OBVIOUS
      <4> QED
        BY <2>3, <2>5, <3>2, <3>4, <4>1, <4>2, <4>3
    <3> QED
      BY <3>3, <3>4
  <2> QED
    BY <1>1, <2>4, <2>5
<1> QED
  BY <1>3, <1>6, <1>7 DEF at

\* Patterns are in the order of what they stand for.
LEMMA MagnitudesOrdered ==
    ASSUME NEW elem \in RandomFloats, NEW a \in 0..Infinity(elem), NEW b \in 0..Infinity(elem)
    PROVE  /\ Magnitudes[elem][a] \in Nat /\ Magnitudes[elem][b] \in Nat
           /\ a < b <=> Magnitudes[elem][a] < Magnitudes[elem][b]
           /\ a = b <=> Magnitudes[elem][a] = Magnitudes[elem][b]
<1> DEFINE at == Magnitudes[elem]
           I == Infinity(elem)
<1>1. I \in Nat
  BY FormatIs
<1>2. /\ \A bits \in 0..I : at[bits] \in Nat
      /\ \A bits \in 1..I : at[bits - 1] < at[bits]
  BY MagnitudesGrow
<1> HIDE DEF at, I
<1>3. ASSUME NEW x \in 0..I, NEW y \in 0..I, x < y PROVE at[x] < at[y]
  <2> DEFINE S == {k \in Nat : x + k + 1 <= I => at[x] < at[x + k + 1]}
  <2>1. 0 \in S
    <3> SUFFICES ASSUME x + 0 + 1 <= I PROVE at[x] < at[x + 0 + 1]
      OBVIOUS
    <3>1. x + 0 + 1 \in 1..I /\ (x + 0 + 1) - 1 = x
      BY <1>1
    <3>2. at[(x + 0 + 1) - 1] < at[x + 0 + 1]
      BY <1>2, <3>1
    <3> QED
      BY <3>1, <3>2
  <2>2. ASSUME NEW k \in Nat, k \in S PROVE k + 1 \in S
    <3> SUFFICES ASSUME x + (k + 1) + 1 <= I PROVE at[x] < at[x + (k + 1) + 1]
      OBVIOUS
    <3>1. PICK n \in 1..I : n = x + (k + 1) + 1 /\ n - 1 = x + k + 1 /\ n - 1 \in 0..I /\ n \in 0..I
      BY <1>1
    <3>2. at[x] < at[n - 1]
      BY <1>1, <2>2, <3>1
    <3>3. at[n - 1] < at[n]
      BY <1>2, <3>1
    <3>4. at[x] \in Nat /\ at[n - 1] \in Nat /\ at[n] \in Nat
      BY <1>2, <3>1
    <3> QED
      BY <3>1, <3>2, <3>3, <3>4
  <2> HIDE DEF S
  <2>3. Nat \subseteq S
    BY <2>1, <2>2, Induction
  <2>4. y - x - 1 \in S /\ x + (y - x - 1) + 1 = y /\ y <= I
    BY <1>1, <1>3, <2>3
  <2> QED
    BY <2>4 DEF S
<1>4. a \in 0..I /\ b \in 0..I /\ a \in Nat /\ b \in Nat
  BY <1>1 DEF I
<1>5. at[a] \in Nat /\ at[b] \in Nat
  BY <1>2, <1>4
<1>6. CASE a < b
  <2>1. at[a] < at[b]
    BY <1>3, <1>4, <1>6
  <2> QED
    BY <1>4, <1>5, <1>6, <2>1 DEF at
<1>7. CASE b < a
  <2>1. at[b] < at[a]
    BY <1>3, <1>4, <1>7
  <2> QED
    BY <1>4, <1>5, <1>7, <2>1 DEF at
<1>8. CASE a = b
  BY <1>4, <1>5, <1>8 DEF at
<1> QED
  BY <1>4, <1>6, <1>7, <1>8

\* The floats that the generator scales by: one, the least whole number with as
\* many bits as its fractions have, and the inverse of that.
LEMMA PowersAreFloats ==
    ASSUME NEW elem \in RandomFloats
    PROVE  LET at == Magnitudes[elem]
               power == TwoTo(Mantissa[elem] + 1)
           IN /\ power \in Nat \ {0}
              /\ \E one \in 0..Infinity(elem) - 1 : at[one] = Scale
              /\ \E whole \in 0..Infinity(elem) - 1 : at[whole] = power * Scale
              /\ \E part \in 0..Infinity(elem) - 1 : at[part] * power = Scale
<1> DEFINE at == Magnitudes[elem]
           M == Mantissa[elem]
           power == TwoTo(Mantissa[elem] + 1)
<1>1. PICK T \in Nat, bias \in Nat, least \in Nat \ {0} :
        /\ T = TwoTo(M) /\ T >= 2 /\ bias = Bias(elem)
        /\ M \in Nat \ {0} /\ M < bias
        /\ least = Scale \div TwoTo(bias + M - 1)
        /\ Scale = TwoTo(bias + M - 1) * least
        /\ Infinity(elem) = (2 * bias + 1) * T /\ Infinity(elem) \in Nat
  BY FormatIs
<1>2. \A e \in Nat, fraction \in 0..T - 1 : e * T + fraction \in 0..Infinity(elem) =>
        at[e * T + fraction] = IF e = 0 THEN fraction * least ELSE (T + fraction) * TwoTo(e - 1) * least
  <2>1. least = Scale \div TwoTo(Bias(elem) + Mantissa[elem] - 1) /\ T = TwoTo(Mantissa[elem]) /\ T >= 2 /\ least \in Nat
    BY <1>1
  <2>2. Laid(Magnitudes[elem], Infinity(elem), T, least)
    BY <2>1, MagnitudeIs
  <2> QED
    BY <2>2, Zenon DEF Laid
<1> HIDE DEF at, M
<1>3. M \in Nat \ {0} /\ M < bias /\ T \in Nat \ {0} /\ T = TwoTo(M) /\ T >= 2
  BY <1>1
<1>4. power \in Nat \ {0} /\ power = TwoTo(M + 1)
  BY <1>3, TwoToIs DEF M
<1> HIDE DEF power
<1>5. ASSUME NEW e \in Nat \ {0}, e <= 2 * bias
      PROVE  /\ e * T \in 0..Infinity(elem) - 1
             /\ at[e * T] = TwoTo(M + e - 1) * least
  <2>1. e * T \in Nat /\ e * T + 0 = e * T /\ (T + 0) = T /\ 0 \in 0..T - 1
    BY <1>3
  <2>2. e * T <= 2 * bias * T /\ (2 * bias + 1) * T = 2 * bias * T + T
    <3>1. \A a, b, c \in Nat : a <= b => a * c <= b * c
      OBVIOUS
    <3> QED
      BY <1>3, <1>5, <3>1
  <2>3. e * T \in 0..Infinity(elem) - 1 /\ e * T + 0 \in 0..Infinity(elem)
    BY <1>1, <1>3, <2>1, <2>2
  <2>4. at[e * T + 0] = (T + 0) * TwoTo(e - 1) * least
    BY <1>2, <2>1, <2>3
  <2>5. TwoTo(M + (e - 1)) = T * TwoTo(e - 1) /\ M + (e - 1) = M + e - 1
    <3>1. e - 1 \in Nat
      OBVIOUS
    <3> QED
      BY <1>3, <3>1, TwoToSum
  <2> QED
    BY <2>1, <2>3, <2>4, <2>5
<1>6. \E one \in 0..Infinity(elem) - 1 : at[one] = Scale
  <2>1. bias \in Nat \ {0} /\ bias <= 2 * bias /\ M + bias - 1 = bias + M - 1
    BY <1>3
  <2> QED
    BY <1>1, <1>5, <2>1
<1>7. \E whole \in 0..Infinity(elem) - 1 : at[whole] = power * Scale
  <2>1. PICK e \in Nat \ {0} : e = bias + M + 1 /\ e <= 2 * bias
    BY <1>3
  <2>2. at[e * T] = TwoTo(M + e - 1) * least /\ e * T \in 0..Infinity(elem) - 1
    BY <1>5, <2>1
  <2>3. M + e - 1 = (M + 1) + (bias + M - 1) /\ M + 1 \in Nat /\ bias + M - 1 \in Nat
    BY <1>3, <2>1
  <2>4. PICK u \in Nat : u = TwoTo(bias + M - 1)
    BY <2>3, TwoToIs
  <2>5. TwoTo(M + e - 1) = power * u
    BY <1>4, <2>3, <2>4, TwoToSum
  <2>6. (power * u) * least = power * (u * least) /\ Scale = u * least
    BY <1>1, <1>4, <2>4
  <2> QED
    BY <2>2, <2>5, <2>6
<1>8. \E part \in 0..Infinity(elem) - 1 : at[part] * power = Scale
  <2>1. CASE M + 1 < bias
    <3>1. PICK e \in Nat \ {0} : e = bias - (M + 1) /\ e <= 2 * bias
      BY <1>3, <2>1
    <3>2. at[e * T] = TwoTo(M + e - 1) * least /\ e * T \in 0..Infinity(elem) - 1
      BY <1>5, <3>1
    <3>3. PICK n \in Nat : n = M + e - 1 /\ n + (M + 1) = bias + M - 1 /\ M + 1 \in Nat
      BY <1>3, <3>1
    <3>4. PICK u \in Nat : u = TwoTo(n) /\ TwoTo(bias + M - 1) = u * power
      <4>1. TwoTo(n + (M + 1)) = TwoTo(n) * TwoTo(M + 1)
        BY <3>3, TwoToSum
      <4> QED
        BY <1>4, <3>3, <4>1, TwoToIs
    <3>5. (u * least) * power = (u * power) * least
      BY <1>4
    <3> QED
      BY <1>1, <3>2, <3>3, <3>4, <3>5
  <2>2. CASE M + 1 = bias
    <3>1. PICK n \in Nat : n = M - 1 /\ n + 1 = M /\ n + (M + 1) = bias + M - 1 /\ M + 1 \in Nat
      BY <1>3, <2>2
    <3>2. PICK u \in Nat : u = TwoTo(n) /\ T = 2 * u /\ TwoTo(bias + M - 1) = u * power
      <4>1. TwoTo(n + (M + 1)) = TwoTo(n) * TwoTo(M + 1)
        BY <3>1, TwoToSum
      <4> QED
        BY <1>3, <1>4, <3>1, <4>1, TwoToIs
    <3>3. 0 * T + u = u /\ u \in 0..T - 1 /\ 0 \in Nat
      BY <1>3, <3>2
    <3>4. u \in 0..Infinity(elem) - 1 /\ u \in 0..Infinity(elem)
      <4>1. (2 * bias + 1) * T = 2 * bias * T + T /\ 2 * bias * T \in Nat
        OBVIOUS
      <4> QED
        BY <1>1, <3>3, <4>1
    <3>5. at[0 * T + u] = u * least
      BY <1>2, <3>3, <3>4
    <3>6. (u * least) * power = (u * power) * least
      BY <1>4
    <3> QED
      BY <1>1, <3>2, <3>3, <3>4, <3>5, <3>6
  <2> QED
    BY <1>3, <2>1, <2>2
<1> QED
  BY <1>4, <1>6, <1>7, <1>8 DEF at, power

\* The float just below a quotient, and the next one above it.
LEMMA BelowIs ==
    ASSUME NEW elem \in RandomFloats, NEW n \in Nat, NEW d \in Nat \ {0}
    PROVE  \E below \in 0..Infinity(elem) :
             /\ Cardinality({bits \in 1..Infinity(elem) : Magnitudes[elem][bits] * d <= n}) = below
             /\ Magnitudes[elem][below] * d <= n
             /\ below < Infinity(elem) => Magnitudes[elem][below + 1] * d > n
<1> DEFINE at == Magnitudes[elem]
           I == Infinity(elem)
           Above == {k \in Nat : k >= I \/ at[k + 1] * d > n}
<1>1. I \in Nat
  BY FormatIs
<1>2. at[0] = 0 /\ \A bits \in 0..I : at[bits] \in Nat
  BY MagnitudesGrow
<1>3. \A a, b \in 0..I : a <= b => at[a] <= at[b]
  <2> TAKE a \in 0..I, b \in 0..I
  <2> HAVE a <= b
  <2>1. at[a] \in Nat /\ at[b] \in Nat /\ (a < b => at[a] < at[b])
    BY MagnitudesOrdered
  <2>2. a \in Nat /\ b \in Nat
    BY <1>1
  <2>3. a < b \/ a = b
    BY <2>2
  <2> QED
    BY <2>1, <2>3
<1> HIDE DEF at, I
<1>4. PICK below \in Above : \A k \in Above : below <= k
  <2>1. I \in Above /\ Above \subseteq Nat
    BY <1>1
  <2> HIDE DEF Above
  <2> QED
    BY <2>1, LeastNatural
<1>5. below \in Nat /\ below <= I /\ (below < I => at[below + 1] * d > n)
  <2>1. I \in Above
    BY <1>1
  <2>2. below <= I
    BY <1>4, <2>1
  <2> QED
    BY <1>1, <1>4, <2>2
<1>6. at[below] * d <= n
  <2>1. CASE below = 0
    BY <1>2, <2>1
  <2>2. CASE below # 0
    <3>1. PICK k \in Nat : k + 1 = below
      <4>1. below - 1 \in Nat /\ (below - 1) + 1 = below
        BY <1>5, <2>2
      <4> QED
        BY <4>1
    <3>2. k \notin Above
      BY <1>4, <1>5, <3>1
    <3>3. ~(at[k + 1] * d > n)
      BY <3>2
    <3>4. at[below] \in Nat /\ at[below] * d \in Nat
      <4>1. below \in 0..I
        BY <1>1, <1>5
      <4>2. at[below] \in Nat
        BY <1>2, <4>1
      <4> QED
        BY <4>2
    <3> QED
      BY <3>1, <3>3, <3>4
  <2> QED
    BY <2>1, <2>2
<1>7. {bits \in 1..I : at[bits] * d <= n} = 1..below
  <2> SUFFICES ASSUME NEW bits \in 1..I PROVE at[bits] * d <= n <=> bits <= below
    BY <1>1, <1>5
  <2>1. bits \in 0..I /\ below \in 0..I /\ bits \in Nat
    BY <1>1, <1>5
  <2>2. PICK x \in Nat, y \in Nat : x = at[bits] /\ y = at[below]
    BY <1>2, <2>1
  <2>3. CASE bits <= below
    <3>1. x <= y
      BY <1>3, <2>1, <2>2, <2>3
    <3>2. x * d <= y * d
      BY <3>1
    <3> QED
      BY <1>6, <2>2, <2>3, <3>2
  <2>4. CASE bits > below
    <3>1. below + 1 \in 0..I /\ below + 1 <= bits /\ below < I
      BY <1>1, <1>5, <2>1, <2>4
    <3>2. PICK z \in Nat : z = at[below + 1]
      BY <1>2, <3>1
    <3>3. z <= x
      BY <1>3, <2>1, <2>2, <3>1, <3>2
    <3>4. z * d <= x * d /\ z * d > n
      BY <1>5, <3>1, <3>2, <3>3
    <3> QED
      BY <1>5, <2>1, <2>2, <2>4, <3>4
  <2> QED
    BY <1>5, <2>1, <2>3, <2>4
<1>8. Cardinality(1..below) = below
  <2>1. 1 \in Int /\ below \in Int
    BY <1>5
  <2>2. Cardinality(1..below) = IF 1 > below THEN 0 ELSE below - 1 + 1
    BY <2>1, FS_Interval
  <2> QED
    BY <1>5, <2>2
<1>9. below \in 0..I
  BY <1>1, <1>5
<1>10. Cardinality({bits \in 1..I : at[bits] * d <= n}) = below
  BY <1>7, <1>8
<1> QED
  BY <1>5, <1>6, <1>9, <1>10 DEF at, I

\* Rounding is monotonic, and leaves a float as it is.
LEMMA NearestIs ==
    ASSUME NEW elem \in RandomFloats, NEW n \in Nat, NEW d \in Nat \ {0}
    PROVE  /\ Nearest(elem, n, d) \in 0..Infinity(elem)
           /\ \A b \in 0..Infinity(elem) : Magnitudes[elem][b] * d <= n => b <= Nearest(elem, n, d)
           /\ \A b \in 0..Infinity(elem) : n <= Magnitudes[elem][b] * d => Nearest(elem, n, d) <= b
<1> DEFINE at == Magnitudes[elem]
           I == Infinity(elem)
<1>1. I \in Nat
  BY FormatIs
<1>2. PICK below \in 0..I : /\ Cardinality({bits \in 1..I : at[bits] * d <= n}) = below
                            /\ at[below] * d <= n
                            /\ below < I => at[below + 1] * d > n
  BY BelowIs
<1>3. Nearest(elem, n, d) =
        IF below = I THEN below
        ELSE LET down == n - at[below] * d
                 up == at[below + 1] * d - n
             IN IF down < up \/ (down = up /\ below % 2 = 0) THEN below ELSE below + 1
  BY <1>2 DEF Nearest, Nearer
<1>4. ASSUME NEW a \in 0..I, NEW b \in 0..I
      PROVE  at[a] \in Nat /\ at[b] \in Nat /\ (a < b <=> at[a] < at[b])
  BY MagnitudesOrdered
<1> DEFINE nearest == Nearest(elem, n, d)
<1> HIDE DEF at, I, nearest
<1>5. nearest = below \/ (nearest = below + 1 /\ below < I)
  BY <1>1, <1>2, <1>3 DEF nearest
<1>6. nearest \in 0..I
  BY <1>1, <1>5
<1>7. ASSUME NEW b \in 0..I, at[b] * d <= n PROVE b <= nearest
  <2>1. SUFFICES ASSUME b > below PROVE FALSE
    BY <1>1, <1>5
  <2>2. below < I /\ below + 1 \in 0..I
    BY <1>1, <2>1
  <2>3. PICK x \in Nat, y \in Nat : x = at[b] /\ y = at[below + 1]
    BY <1>4, <2>2
  <2>4. ~(x < y)
    <3>1. ~(b < below + 1)
      BY <1>1, <2>1
    <3> QED
      BY <1>4, <2>2, <2>3, <3>1
  <2>5. y * d <= x * d
    BY <2>3, <2>4
  <2> QED
    BY <1>2, <1>7, <2>2, <2>3, <2>5
<1>8. ASSUME NEW b \in 0..I, n <= at[b] * d PROVE nearest <= b
  <2>1. PICK x \in Nat, y \in Nat : x = at[b] /\ y = at[below]
    BY <1>4
  <2>2. b >= below
    <3> SUFFICES ASSUME b < below PROVE FALSE
      BY <1>1
    <3>1. x < y
      BY <1>4, <2>1
    <3>2. x * d < y * d
      BY <3>1
    <3> QED
      BY <1>2, <1>8, <2>1, <3>2
  <2>3. CASE b > below
    BY <1>1, <1>5, <2>3
  <2>4. CASE b = below
    <3>1. CASE below = I
      BY <1>1, <1>3, <2>4, <3>1 DEF nearest
    <3>2. CASE below < I
      <4>1. below + 1 \in 0..I
        BY <1>1, <3>2
      <4>2. PICK z \in Nat : z = at[below + 1]
        BY <1>4, <4>1
      <4>3. y * d \in Nat /\ z * d \in Nat /\ z * d > n /\ n = y * d
        BY <1>2, <1>8, <2>1, <2>4, <3>2, <4>2
      <4>4. n - y * d < z * d - n
        BY <4>3
      <4>5. nearest = below
        BY <1>1, <1>3, <2>1, <3>2, <4>2, <4>4 DEF nearest
      <4> QED
        BY <1>1, <2>4, <4>5
    <3> QED
      BY <1>1, <3>1, <3>2
  <2> QED
    BY <1>1, <2>2, <2>3, <2>4
<1> QED
  BY <1>6, <1>7, <1>8 DEF at, I, nearest

\* Of a number that is a float, that float is the nearest.
LEMMA NearestExact ==
    ASSUME NEW elem \in RandomFloats, NEW b \in 0..Infinity(elem), NEW d \in Nat \ {0}
    PROVE  Nearest(elem, Magnitudes[elem][b] * d, d) = b
<1>1. PICK n \in Nat : n = Magnitudes[elem][b] * d
  <2>1. Magnitudes[elem][b] \in Nat
    BY MagnitudesGrow
  <2> QED
    BY <2>1
<1>2. n <= n /\ Infinity(elem) \in Nat
  BY FormatIs
<1>3. Nearest(elem, n, d) \in 0..Infinity(elem) /\ b <= Nearest(elem, n, d) /\ Nearest(elem, n, d) <= b
  BY <1>1, <1>2, NearestIs
<1> QED
  BY <1>1, <1>2, <1>3

\* It is of the quotient, however that is written.
LEMMA NearestOfQuotient ==
    ASSUME NEW elem \in RandomFloats, NEW n \in Nat, NEW d \in Nat \ {0}, NEW k \in Nat \ {0}
    PROVE  Nearest(elem, k * n, k * d) = Nearest(elem, n, d)
<1> DEFINE at == Magnitudes[elem]
           I == Infinity(elem)
<1>1. I \in Nat
  BY FormatIs
<1>2. \A bits \in 0..I : at[bits] \in Nat
  BY MagnitudesGrow
<1>3. k * n \in Nat /\ k * d \in Nat \ {0}
  OBVIOUS
<1>4. PICK below \in 0..I : Cardinality({bits \in 1..I : at[bits] * d <= n}) = below
  <2>1. \E b \in 0..I : /\ Cardinality({bits \in 1..I : at[bits] * d <= n}) = b
                        /\ at[b] * d <= n
                        /\ b < I => at[b + 1] * d > n
    BY BelowIs
  <2> HIDE DEF at, I
  <2> QED
    BY <2>1
<1> HIDE DEF at, I
<1>5. ASSUME NEW bits \in 0..I
      PROVE  /\ at[bits] * (k * d) <= k * n <=> at[bits] * d <= n
             /\ k * n - at[bits] * (k * d) = k * (n - at[bits] * d)
             /\ at[bits] * (k * d) - k * n = k * (at[bits] * d - n)
             /\ at[bits] * d \in Nat
  <2>1. PICK x \in Nat : x = at[bits]
    BY <1>2
  <2>2. x * (k * d) = k * (x * d) /\ x * d \in Nat
    OBVIOUS
  <2>3. PICK y \in Nat : y = x * d
    BY <2>2
  <2>4. k * y <= k * n <=> y <= n
    OBVIOUS
  <2>5. k * n - k * y = k * (n - y) /\ k * y - k * n = k * (y - n)
    OBVIOUS
  <2> QED
    BY <2>1, <2>2, <2>3, <2>4, <2>5
<1>6. {bits \in 1..I : at[bits] * (k * d) <= k * n} = {bits \in 1..I : at[bits] * d <= n}
  <2>1. \A bits \in 1..I : bits \in 0..I
    BY <1>1
  <2> QED
    BY <1>5, <2>1
<1>7. \A a, b \in Int : (k * a < k * b <=> a < b) /\ (k * a = k * b <=> a = b)
  OBVIOUS
<1>8. CASE below = I
  BY <1>4, <1>6, <1>8 DEF Nearest, Nearer, at, I
<1>9. CASE below # I
  <2>1. below + 1 \in 0..I
    BY <1>1, <1>9
  <2> DEFINE down == n - at[below] * d
             up == at[below + 1] * d - n
  <2>2. down \in Int /\ up \in Int
    BY <1>5, <2>1
  <2>3. k * n - at[below] * (k * d) = k * down /\ at[below + 1] * (k * d) - k * n = k * up
    BY <1>5, <2>1
  <2>4. Nearest(elem, n, d) = IF down < up \/ (down = up /\ below % 2 = 0) THEN below ELSE below + 1
    BY <1>4, <1>9 DEF Nearest, Nearer, at, I
  <2>5. Nearest(elem, k * n, k * d) =
          IF k * n - at[below] * (k * d) < at[below + 1] * (k * d) - k * n
             \/ (k * n - at[below] * (k * d) = at[below + 1] * (k * d) - k * n /\ below % 2 = 0)
          THEN below ELSE below + 1
    BY <1>4, <1>6, <1>9 DEF Nearest, Nearer, at, I
  <2> HIDE DEF down, up
  <2>6. Nearest(elem, k * n, k * d) = IF k * down < k * up \/ (k * down = k * up /\ below % 2 = 0) THEN below ELSE below + 1
    BY <2>3, <2>5
  <2> QED
    BY <1>7, <2>2, <2>4, <2>6
<1> QED
  BY <1>8, <1>9

\* A word is a sign and a pattern below the sign bit; NaN is above infinity.
LEMMA SignsAre ==
    ASSUME NEW elem \in RandomFloats
    PROVE  /\ SignBit(elem) \in Nat /\ Infinity(elem) \in Nat /\ Infinity(elem) >= 2
           /\ Infinity(elem) + 1 < SignBit(elem)
           /\ Words(elem) = 0..2 * SignBit(elem) - 1
           /\ \A bits \in Words(elem) :
                /\ bits \in Nat /\ Unsigned(elem, bits) \in 0..SignBit(elem) - 1
                /\ Negative(elem, bits) => bits = SignBit(elem) + Unsigned(elem, bits)
                /\ ~Negative(elem, bits) => bits = Unsigned(elem, bits)
           /\ \A u \in 0..SignBit(elem) - 1 :
                /\ Unsigned(elem, u) = u /\ ~Negative(elem, u) /\ u \in Words(elem)
                /\ Unsigned(elem, SignBit(elem) + u) = u /\ Negative(elem, SignBit(elem) + u)
                /\ SignBit(elem) + u \in Words(elem)
           /\ NaN(elem) \in Words(elem) /\ IsNaN(elem, NaN(elem))
<1>1. PICK T \in Nat, bias \in Nat : /\ T >= 2 /\ Infinity(elem) = (2 * bias + 1) * T /\ Infinity(elem) \in Nat
                                     /\ SignBit(elem) = Infinity(elem) + T
                                     /\ elem \in {"f32", "f64", "i32", "i64"}
  BY FormatIs
<1>2. (2 * bias + 1) * T = 2 * (bias * T) + T /\ bias * T \in Nat
  OBVIOUS
<1>3. PICK s \in Nat \ {0}, i \in Nat : s = SignBit(elem) /\ i = Infinity(elem) /\ i >= 2 /\ i + 1 < s
  BY <1>1, <1>2
<1>4. Words(elem) = 0..2 * s - 1
  BY <1>1, <1>3, WidthsAre
<1>5. ASSUME NEW bits \in 0..2 * s - 1
      PROVE  /\ bits \in Nat /\ bits % s \in 0..s - 1
             /\ bits >= s => bits = s + (bits % s)
             /\ ~(bits >= s) => bits = bits % s
  <2>1. bits = s * (bits \div s) + (bits % s) /\ bits \div s \in Nat /\ bits % s \in 0..s - 1
    OBVIOUS
  <2>2. CASE bits < s
    BY <2>2, ModSmall
  <2>3. CASE bits >= s
    <3>1. bits - s \in 0..s - 1 /\ bits = (bits - s) + s * 1 /\ bits - s \in Int
      BY <2>3
    <3>2. ((bits - s) + s * 1) % s = (bits - s) % s
      BY <3>1, ModPlus
    <3>3. (bits - s) % s = bits - s
      BY <3>1, ModSmall
    <3> QED
      BY <2>1, <2>3, <3>1, <3>2, <3>3
  <2> QED
    BY <2>1, <2>2, <2>3
<1>6. ASSUME NEW u \in 0..s - 1
      PROVE  u % s = u /\ ~(u >= s) /\ u \in 0..2 * s - 1 /\ (s + u) % s = u /\ s + u >= s /\ s + u \in 0..2 * s - 1
  <2>1. u % s = u
    BY ModSmall
  <2>2. u + s * 1 = s + u /\ u \in Int
    OBVIOUS
  <2>3. (u + s * 1) % s = u % s
    BY <2>2, ModPlus
  <2> QED
    BY <2>1, <2>2, <2>3
<1>7. \A bits \in Words(elem) :
        /\ bits \in Nat /\ Unsigned(elem, bits) \in 0..SignBit(elem) - 1
        /\ Negative(elem, bits) => bits = SignBit(elem) + Unsigned(elem, bits)
        /\ ~Negative(elem, bits) => bits = Unsigned(elem, bits)
  BY <1>3, <1>4, <1>5 DEF Unsigned, Negative
<1>8. \A u \in 0..SignBit(elem) - 1 :
        /\ Unsigned(elem, u) = u /\ ~Negative(elem, u) /\ u \in Words(elem)
        /\ Unsigned(elem, SignBit(elem) + u) = u /\ Negative(elem, SignBit(elem) + u)
        /\ SignBit(elem) + u \in Words(elem)
  BY <1>3, <1>4, <1>6 DEF Unsigned, Negative
<1>9. NaN(elem) \in 0..SignBit(elem) - 1 /\ NaN(elem) > Infinity(elem)
  BY <1>3 DEF NaN
<1>10. NaN(elem) \in Words(elem) /\ IsNaN(elem, NaN(elem))
  BY <1>8, <1>9 DEF IsNaN
<1> QED
  BY <1>3, <1>4, <1>7, <1>8, <1>10

\* A signed pattern.
LEMMA SignedIs ==
    ASSUME NEW elem \in RandomFloats, NEW negative \in BOOLEAN, NEW u \in 0..Infinity(elem)
    PROVE  /\ Signed(elem, negative, u) \in Words(elem)
           /\ Unsigned(elem, Signed(elem, negative, u)) = u
           /\ Negative(elem, Signed(elem, negative, u)) <=> negative
           /\ ~IsNaN(elem, Signed(elem, negative, u))
<1>1. u \in 0..SignBit(elem) - 1 /\ ~(u > Infinity(elem))
  BY SignsAre
<1>2. CASE negative
  BY <1>1, <1>2, SignsAre DEF Signed, IsNaN
<1>3. CASE ~negative
  BY <1>1, <1>3, SignsAre DEF Signed, IsNaN
<1> QED
  BY <1>2, <1>3

\* What a float that is not NaN stands for.
LEMMA NumberIs ==
    ASSUME NEW elem \in RandomFloats, NEW bits \in Words(elem), ~IsNaN(elem, bits)
    PROVE  /\ Unsigned(elem, bits) \in 0..Infinity(elem)
           /\ Magnitudes[elem][Unsigned(elem, bits)] \in Nat
           /\ Number(elem, bits) = IF Negative(elem, bits) THEN -Magnitudes[elem][Unsigned(elem, bits)]
                                   ELSE Magnitudes[elem][Unsigned(elem, bits)]
           /\ Number(elem, bits) \in Int
<1>1. Unsigned(elem, bits) \in 0..Infinity(elem)
  <2>1. Unsigned(elem, bits) \in 0..SignBit(elem) - 1 /\ SignBit(elem) \in Nat /\ Infinity(elem) \in Nat
    BY SignsAre
  <2> QED
    BY <2>1 DEF IsNaN
<1>2. Magnitudes[elem][Unsigned(elem, bits)] \in Nat
  BY <1>1, MagnitudesGrow
<1>3. Number(elem, bits) = IF Negative(elem, bits) THEN -Magnitudes[elem][Unsigned(elem, bits)]
                           ELSE Magnitudes[elem][Unsigned(elem, bits)]
  BY DEF Number
<1> QED
  BY <1>1, <1>2, <1>3

\* A rounded number lies between the floats that the number lies between.
LEMMA RoundedIs ==
    ASSUME NEW elem \in RandomFloats, NEW n \in Int
    PROVE  /\ Rounded(elem, n, 1) \in Words(elem) /\ ~IsNaN(elem, Rounded(elem, n, 1))
           /\ \A bits \in Words(elem) : ~IsNaN(elem, bits) /\ Number(elem, bits) <= n =>
                Number(elem, bits) <= Number(elem, Rounded(elem, n, 1))
<1> DEFINE at == Magnitudes[elem]
           I == Infinity(elem)
<1>1. ASSUME NEW m \in Nat
      PROVE  /\ Nearest(elem, m, 1) \in 0..I
             /\ \A b \in 0..I : at[b] * 1 <= m => b <= Nearest(elem, m, 1)
             /\ \A b \in 0..I : m <= at[b] * 1 => Nearest(elem, m, 1) <= b
  BY NearestIs
<1>2. \A b \in 0..I : at[b] \in Nat
  BY MagnitudesGrow
<1>3. \A a, b \in 0..I : a <= b => at[a] <= at[b]
  <2> TAKE a \in 0..I, b \in 0..I
  <2> HAVE a <= b
  <2>1. at[a] \in Nat /\ at[b] \in Nat /\ (b < a <=> at[b] < at[a])
    BY MagnitudesOrdered
  <2>2. a \in Nat /\ b \in Nat
    BY FormatIs
  <2> QED
    BY <2>1, <2>2
<1> HIDE DEF at, I
<1>4. ASSUME NEW bits \in Words(elem), ~IsNaN(elem, bits)
      PROVE  /\ Unsigned(elem, bits) \in 0..I /\ at[Unsigned(elem, bits)] \in Nat
             /\ Number(elem, bits) = IF Negative(elem, bits) THEN -at[Unsigned(elem, bits)] ELSE at[Unsigned(elem, bits)]
  BY <1>4, NumberIs DEF at, I
<1>5. CASE n >= 0
  <2>1. PICK m \in Nat : m = n
    BY <1>5
  <2>2. PICK v \in 0..I : v = Nearest(elem, m, 1) /\ \A b \in 0..I : at[b] * 1 <= m => b <= v
    BY <1>1
  <2>3. Rounded(elem, n, 1) = Signed(elem, FALSE, v)
    BY <1>5, <2>1, <2>2 DEF Rounded, Signed
  <2>4. /\ Signed(elem, FALSE, v) \in Words(elem) /\ ~IsNaN(elem, Signed(elem, FALSE, v))
        /\ Unsigned(elem, Signed(elem, FALSE, v)) = v /\ ~Negative(elem, Signed(elem, FALSE, v))
    BY SignedIs DEF I
  <2>5. Number(elem, Signed(elem, FALSE, v)) = at[v] /\ at[v] \in Nat
    BY <1>4, <2>4
  <2>6. ASSUME NEW bits \in Words(elem), ~IsNaN(elem, bits), Number(elem, bits) <= n PROVE Number(elem, bits) <= at[v]
    <3>1. PICK u \in 0..I : u = Unsigned(elem, bits) /\ at[u] \in Nat
      BY <1>4, <2>6
    <3>2. CASE Negative(elem, bits)
      <4>1. Number(elem, bits) = -at[u]
        BY <1>4, <2>6, <3>1, <3>2
      <4> QED
        BY <2>5, <3>1, <4>1
    <3>3. CASE ~Negative(elem, bits)
      <4>1. Number(elem, bits) = at[u]
        BY <1>4, <2>6, <3>1, <3>3
      <4>2. at[u] * 1 <= m
        BY <2>1, <2>6, <3>1, <4>1
      <4>3. u <= v
        BY <2>2, <4>2
      <4> QED
        BY <1>3, <4>1, <4>3
    <3> QED
      BY <3>2, <3>3
  <2> QED
    BY <2>3, <2>4, <2>5, <2>6
<1>6. CASE n < 0
  <2>1. PICK m \in Nat : m = -n
    BY <1>6
  <2>2. PICK v \in 0..I : v = Nearest(elem, m, 1) /\ \A b \in 0..I : m <= at[b] * 1 => v <= b
    BY <1>1
  <2>3. Rounded(elem, n, 1) = Signed(elem, TRUE, v)
    BY <1>6, <2>1, <2>2 DEF Rounded
  <2>4. /\ Signed(elem, TRUE, v) \in Words(elem) /\ ~IsNaN(elem, Signed(elem, TRUE, v))
        /\ Unsigned(elem, Signed(elem, TRUE, v)) = v /\ Negative(elem, Signed(elem, TRUE, v))
    BY SignedIs DEF I
  <2>5. Number(elem, Signed(elem, TRUE, v)) = -at[v] /\ at[v] \in Nat
    BY <1>4, <2>4
  <2>6. ASSUME NEW bits \in Words(elem), ~IsNaN(elem, bits), Number(elem, bits) <= n PROVE Number(elem, bits) <= -at[v]
    <3>1. PICK u \in 0..I : u = Unsigned(elem, bits) /\ at[u] \in Nat
      BY <1>4, <2>6
    <3>2. Number(elem, bits) = -at[u]
      BY <1>4, <1>6, <2>6, <3>1
    <3>3. m <= at[u] * 1
      BY <2>1, <2>6, <3>1, <3>2
    <3>4. v <= u
      BY <2>2, <3>3
    <3>5. at[v] <= at[u]
      BY <1>3, <3>4
    <3> QED
      BY <2>5, <3>1, <3>2, <3>5
  <2> QED
    BY <2>3, <2>4, <2>5, <2>6
<1> QED
  BY <1>5, <1>6

\* Zeros, finite and infinite floats.
LEMMA KindsAre ==
    ASSUME NEW elem \in RandomFloats, NEW bits \in Words(elem)
    PROVE  /\ IsNaN(elem, bits) \/ IsInfinite(elem, bits) \/ IsFinite(elem, bits)
           /\ IsNaN(elem, bits) => ~IsInfinite(elem, bits) /\ ~IsFinite(elem, bits)
           /\ IsInfinite(elem, bits) => ~IsFinite(elem, bits) /\ Unsigned(elem, bits) = Infinity(elem)
           /\ IsFinite(elem, bits) => Unsigned(elem, bits) \in 0..Infinity(elem) - 1
           /\ IsZero(elem, bits) => IsFinite(elem, bits) /\ Number(elem, bits) = 0
           /\ IsFinite(elem, bits) /\ ~IsZero(elem, bits) => Magnitudes[elem][Unsigned(elem, bits)] > 0
<1>1. PICK u \in Nat, i \in Nat : u = Unsigned(elem, bits) /\ i = Infinity(elem) /\ i >= 2
  BY SignsAre
<1>2. IsZero(elem, bits) => IsFinite(elem, bits) /\ Number(elem, bits) = 0
  <2>1. Magnitudes[elem][0] = 0
    BY MagnitudesGrow
  <2> QED
    BY <1>1, <2>1 DEF IsZero, IsFinite, Number
<1>3. IsFinite(elem, bits) /\ ~IsZero(elem, bits) => Magnitudes[elem][Unsigned(elem, bits)] > 0
  <2> SUFFICES ASSUME u < i, u # 0 PROVE Magnitudes[elem][u] > 0
    BY <1>1 DEF IsZero, IsFinite
  <2>1. 0 \in 0..Infinity(elem) /\ u \in 0..Infinity(elem) /\ 0 < u
    BY <1>1
  <2>2. Magnitudes[elem][0] < Magnitudes[elem][u] /\ Magnitudes[elem][u] \in Nat /\ Magnitudes[elem][0] = 0
    BY <2>1, MagnitudesOrdered, MagnitudesGrow
  <2> QED
    BY <2>2
<1> QED
  BY <1>1, <1>2, <1>3 DEF IsNaN, IsInfinite, IsFinite

\* The floats that stand for no negative number, and their patterns.
LEMMA PositiveIs ==
    ASSUME NEW elem \in RandomFloats, NEW u \in 0..Infinity(elem)
    PROVE  /\ u \in Words(elem) /\ Unsigned(elem, u) = u /\ ~Negative(elem, u) /\ ~IsNaN(elem, u)
           /\ Number(elem, u) = Magnitudes[elem][u] /\ Number(elem, u) \in Nat
           /\ Signed(elem, FALSE, u) = u
           /\ IsInfinite(elem, u) <=> u = Infinity(elem)
           /\ IsFinite(elem, u) <=> u < Infinity(elem)
<1>1. u \in 0..SignBit(elem) - 1 /\ ~(u > Infinity(elem))
  BY SignsAre
<1>2. u \in Words(elem) /\ Unsigned(elem, u) = u /\ ~Negative(elem, u)
  BY <1>1, SignsAre
<1>3. ~IsNaN(elem, u)
  BY <1>1, <1>2 DEF IsNaN
<1>4. Number(elem, u) = Magnitudes[elem][u] /\ Number(elem, u) \in Nat
  BY <1>2, <1>3, NumberIs
<1> QED
  BY <1>2, <1>3, <1>4 DEF Signed, IsInfinite, IsFinite

\* The negative of a float.
LEMMA NegatedIs ==
    ASSUME NEW elem \in RandomFloats, NEW bits \in Words(elem)
    PROVE  /\ Negated(elem, bits) \in Words(elem)
           /\ Unsigned(elem, Negated(elem, bits)) = Unsigned(elem, bits)
           /\ Negative(elem, Negated(elem, bits)) <=> ~Negative(elem, bits)
<1>1. Unsigned(elem, bits) \in 0..SignBit(elem) - 1
  BY SignsAre
<1>2. CASE Negative(elem, bits)
  BY <1>1, <1>2, SignsAre DEF Negated, Signed
<1>3. CASE ~Negative(elem, bits)
  BY <1>1, <1>3, SignsAre DEF Negated, Signed
<1> QED
  BY <1>2, <1>3

\* Sums, differences and products are floats.
LEMMA SumsAreWords ==
    ASSUME NEW elem \in RandomFloats, NEW a \in Words(elem), NEW b \in Words(elem)
    PROVE  addf(elem, a, b) \in Words(elem)
<1>1. CASE IsNaN(elem, a) \/ IsNaN(elem, b)
  BY <1>1, SignsAre DEF addf
<1>2. CASE ~(IsNaN(elem, a) \/ IsNaN(elem, b))
  <2>1. Number(elem, a) + Number(elem, b) \in Int
    BY <1>2, NumberIs
  <2>2. Rounded(elem, Number(elem, a) + Number(elem, b), 1) \in Words(elem)
    BY <2>1, RoundedIs
  <2>3. NaN(elem) \in Words(elem)
    BY SignsAre
  <2> QED
    BY <1>2, <2>2, <2>3, KindsAre DEF addf
<1> QED
  BY <1>1, <1>2

\* A difference of floats is one.
LEMMA DifferencesAreWords ==
    ASSUME NEW elem \in RandomFloats, NEW a \in Words(elem), NEW b \in Words(elem)
    PROVE  subf(elem, a, b) \in Words(elem)
BY NegatedIs, SumsAreWords DEF subf

\* A product of floats is one.
LEMMA ProductsAreWords ==
    ASSUME NEW elem \in RandomFloats, NEW a \in Words(elem), NEW b \in Words(elem)
    PROVE  mulf(elem, a, b) \in Words(elem)
<1> DEFINE negative == Negative(elem, a) # Negative(elem, b)
           product == Magnitudes[elem][Unsigned(elem, a)] * Magnitudes[elem][Unsigned(elem, b)]
<1>1. NaN(elem) \in Words(elem)
  BY SignsAre
<1>2. Infinity(elem) \in 0..Infinity(elem)
  BY FormatIs
<1>3. negative \in BOOLEAN
  OBVIOUS
<1>4. Signed(elem, negative, Infinity(elem)) \in Words(elem)
  BY <1>2, <1>3, SignedIs
<1>5. CASE IsNaN(elem, a) \/ IsNaN(elem, b)
  <2>1. mulf(elem, a, b) = NaN(elem)
    BY <1>5 DEF mulf
  <2> QED
    BY <1>1, <2>1
<1>6. CASE ~(IsNaN(elem, a) \/ IsNaN(elem, b))
  <2>1. product \in Nat
    BY <1>6, NumberIs
  <2>2. Scale \in Nat \ {0}
    BY FormatsAssumption
  <2>3. Nearest(elem, product, Scale) \in 0..Infinity(elem)
    BY <2>1, <2>2, NearestIs
  <2>4. Signed(elem, negative, Nearest(elem, product, Scale)) \in Words(elem)
    BY <1>3, <2>3, SignedIs
  <2>5. mulf(elem, a, b) \in {NaN(elem), Signed(elem, negative, Infinity(elem)),
                              Signed(elem, negative, Nearest(elem, product, Scale))}
    BY <1>6 DEF mulf
  <2> QED
    BY <1>1, <1>4, <2>4, <2>5
<1> QED
  BY <1>5, <1>6

\* A sum with a float that is not negative is not below the other summand,
\* unless there is a NaN among them.
LEMMA SumGrows ==
    ASSUME NEW elem \in RandomFloats, NEW low \in Words(elem), IsFinite(elem, low), NEW p \in 0..Infinity(elem)
    PROVE  ~IsNaN(elem, addf(elem, low, p)) /\ Number(elem, low) <= Number(elem, addf(elem, low, p))
<1>1. /\ p \in Words(elem) /\ ~IsNaN(elem, p) /\ Number(elem, p) \in Nat
      /\ IsInfinite(elem, p) <=> p = Infinity(elem)
      /\ Number(elem, p) = Magnitudes[elem][p]
  BY PositiveIs
<1>2. ~IsNaN(elem, low) /\ ~IsInfinite(elem, low) /\ Number(elem, low) \in Int
  BY KindsAre, NumberIs
<1>3. CASE IsInfinite(elem, p)
  <2>1. addf(elem, low, p) = p
    BY <1>1, <1>2, <1>3 DEF addf
  <2>2. Number(elem, low) <= Magnitudes[elem][Infinity(elem)]
    <3>1. PICK u \in 0..Infinity(elem) : /\ u = Unsigned(elem, low) /\ Magnitudes[elem][u] \in Nat
                                         /\ Number(elem, low) = IF Negative(elem, low) THEN -Magnitudes[elem][u] ELSE Magnitudes[elem][u]
      BY <1>2, NumberIs
    <3>2. Infinity(elem) \in 0..Infinity(elem) /\ Infinity(elem) \in Nat /\ ~(Infinity(elem) < u)
      BY FormatIs
    <3>3. Magnitudes[elem][Infinity(elem)] \in Nat /\ ~(Magnitudes[elem][Infinity(elem)] < Magnitudes[elem][u])
      BY <3>2, MagnitudesOrdered
    <3> QED
      BY <3>1, <3>3
  <2> QED
    BY <1>1, <1>3, <2>1, <2>2
<1>4. CASE ~IsInfinite(elem, p)
  <2>1. IsFinite(elem, p)
    BY <1>1, <1>4, KindsAre
  <2>2. CASE IsZero(elem, low) /\ low = p
    <3>1. addf(elem, low, p) = low
      BY <1>1, <1>2, <1>4, <2>2 DEF addf
    <3> QED
      BY <1>2, <3>1
  <2>3. CASE ~(IsZero(elem, low) /\ low = p)
    <3>1. PICK n \in Int : n = Number(elem, low) + Number(elem, p)
      BY <1>1, <1>2
    <3>2. addf(elem, low, p) = Rounded(elem, n, 1)
      BY <1>1, <1>2, <1>4, <2>3, <3>1 DEF addf
    <3>3. Number(elem, low) <= n
      BY <1>1, <1>2, <3>1
    <3> QED
      BY <1>2, <3>2, <3>3, RoundedIs
  <2> QED
    BY <2>2, <2>3
<1> QED
  BY <1>3, <1>4

\* The difference of two bounds in order is not negative.
LEMMA DistanceIs ==
    ASSUME NEW elem \in RandomFloats, NEW low \in Words(elem), NEW high \in Words(elem), ogt(elem, high, low)
    PROVE  /\ subf(elem, high, low) \in 0..Infinity(elem)
           /\ IsFinite(elem, subf(elem, high, low)) => IsFinite(elem, low) /\ IsFinite(elem, high)
<1> DEFINE other == Negated(elem, low)
<1>1. ~IsNaN(elem, low) /\ ~IsNaN(elem, high) /\ Number(elem, high) > Number(elem, low)
  BY DEF ogt, Comparable
<1>2. /\ other \in Words(elem) /\ Unsigned(elem, other) = Unsigned(elem, low)
      /\ Negative(elem, other) <=> ~Negative(elem, low)
  BY NegatedIs
<1>3. subf(elem, high, low) = addf(elem, high, other)
  BY DEF subf
<1> HIDE DEF other
<1>4. /\ IsNaN(elem, other) <=> IsNaN(elem, low)
      /\ IsInfinite(elem, other) <=> IsInfinite(elem, low)
      /\ IsFinite(elem, other) <=> IsFinite(elem, low)
      /\ IsZero(elem, other) <=> IsZero(elem, low)
  BY <1>2 DEF IsNaN, IsInfinite, IsFinite, IsZero
<1>5. PICK x \in 0..Infinity(elem), y \in 0..Infinity(elem) : x = Unsigned(elem, low) /\ y = Unsigned(elem, high)
  BY <1>1, NumberIs
<1> DEFINE at == Magnitudes[elem]
<1>6. /\ at[x] \in Nat /\ at[y] \in Nat
      /\ Number(elem, low) = IF Negative(elem, low) THEN -at[x] ELSE at[x]
      /\ Number(elem, high) = IF Negative(elem, high) THEN -at[y] ELSE at[y]
  BY <1>1, <1>5, NumberIs
<1>7. Number(elem, other) = -Number(elem, low)
  <2>1. Number(elem, other) = IF Negative(elem, other) THEN -at[x] ELSE at[x]
    BY <1>2, <1>5 DEF Number
  <2> QED
    BY <1>2, <1>6, <2>1
<1>8. Infinity(elem) \in Nat /\ Infinity(elem) \in 0..Infinity(elem)
  BY FormatIs
<1>9. ASSUME NEW u \in 0..Infinity(elem) PROVE at[u] <= at[Infinity(elem)] /\ at[u] \in Nat /\ at[Infinity(elem)] \in Nat
  <2>1. ~(Infinity(elem) < u)
    BY <1>8
  <2>2. ~(at[Infinity(elem)] < at[u]) /\ at[u] \in Nat /\ at[Infinity(elem)] \in Nat
    BY <1>8, <2>1, MagnitudesOrdered
  <2> QED
    BY <2>2
<1> HIDE DEF at
<1>10. CASE IsInfinite(elem, low) \/ IsInfinite(elem, high)
  <2>1. IsInfinite(elem, low) => Negative(elem, low)
    <3> SUFFICES ASSUME IsInfinite(elem, low), ~Negative(elem, low) PROVE FALSE
      OBVIOUS
    <3>1. Number(elem, low) = at[Infinity(elem)]
      BY <1>5, <1>6 DEF IsInfinite
    <3>2. Number(elem, high) <= at[Infinity(elem)]
      BY <1>6, <1>9
    <3> QED
      BY <1>1, <1>6, <1>9, <3>1, <3>2
  <2>2. IsInfinite(elem, high) => ~Negative(elem, high)
    <3> SUFFICES ASSUME IsInfinite(elem, high), Negative(elem, high) PROVE FALSE
      OBVIOUS
    <3>1. Number(elem, high) = -at[Infinity(elem)]
      BY <1>5, <1>6 DEF IsInfinite
    <3>2. Number(elem, low) >= -at[Infinity(elem)]
      BY <1>6, <1>9
    <3> QED
      BY <1>1, <1>6, <1>9, <3>1, <3>2
  <2>3. IsInfinite(elem, low) => other = Infinity(elem)
    <3> SUFFICES ASSUME IsInfinite(elem, low) PROVE other = Infinity(elem)
      OBVIOUS
    <3>1. ~Negative(elem, other) /\ Unsigned(elem, other) = Infinity(elem)
      BY <1>2, <2>1 DEF IsInfinite
    <3> QED
      BY <1>2, <3>1, SignsAre
  <2>4. IsInfinite(elem, high) => high = Infinity(elem)
    <3> SUFFICES ASSUME IsInfinite(elem, high) PROVE high = Infinity(elem)
      OBVIOUS
    <3>1. ~Negative(elem, high) /\ Unsigned(elem, high) = Infinity(elem)
      BY <2>2 DEF IsInfinite
    <3> QED
      BY <3>1, SignsAre
  <2>5. addf(elem, high, other) = Infinity(elem)
    BY <1>1, <1>2, <1>4, <1>10, <2>3, <2>4, KindsAre DEF addf
  <2>6. ~IsFinite(elem, Infinity(elem))
    <3>1. PICK u \in 0..Infinity(elem) : u = Infinity(elem)
      BY <1>8
    <3>2. IsFinite(elem, u) <=> u < Infinity(elem)
      BY PositiveIs
    <3> QED
      BY <1>8, <3>1, <3>2
  <2> QED
    BY <1>3, <1>8, <2>5, <2>6
<1>11. CASE ~(IsInfinite(elem, low) \/ IsInfinite(elem, high))
  <2>1. IsFinite(elem, low) /\ IsFinite(elem, high)
    BY <1>1, <1>11, KindsAre
  <2>2. ~(IsZero(elem, high) /\ high = other)
    <3> SUFFICES ASSUME IsZero(elem, high), high = other PROVE FALSE
      OBVIOUS
    <3>1. IsZero(elem, low)
      BY <1>4
    <3> QED
      BY <1>1, <3>1, KindsAre
  <2>3. PICK n \in Nat : n = Number(elem, high) + Number(elem, other)
    BY <1>1, <1>6, <1>7
  <2>4. addf(elem, high, other) = Rounded(elem, n, 1)
    BY <1>1, <1>4, <1>11, <2>2, <2>3 DEF addf
  <2>5. Rounded(elem, n, 1) = Nearest(elem, n, 1)
    <3>1. ~(n < 0)
      OBVIOUS
    <3> QED
      BY <3>1, Zenon DEF Rounded
  <2>6. Nearest(elem, n, 1) \in 0..Infinity(elem)
    <3>1. 1 \in Nat \ {0}
      OBVIOUS
    <3> QED
      BY <3>1, NearestIs
  <2> QED
    BY <1>3, <2>1, <2>4, <2>5, <2>6
<1> QED
  BY <1>10, <1>11

\* A product of a fraction and a float that is not negative is none either; it
\* is NaN only where a zero meets infinity.
LEMMA ProductIs ==
    ASSUME NEW elem \in RandomFloats, NEW u \in 0..Infinity(elem) - 1, NEW range \in 0..Infinity(elem)
    PROVE  /\ mulf(elem, u, range) = NaN(elem) \/ mulf(elem, u, range) \in 0..Infinity(elem)
           /\ range < Infinity(elem) =>
                /\ mulf(elem, u, range) = Nearest(elem, Magnitudes[elem][u] * Magnitudes[elem][range], Scale)
                /\ mulf(elem, u, range) \in 0..Infinity(elem)
<1>1. Infinity(elem) \in Nat /\ u \in 0..Infinity(elem) /\ Infinity(elem) \in 0..Infinity(elem)
  BY FormatIs
<1>2. /\ Unsigned(elem, u) = u /\ ~Negative(elem, u) /\ ~IsNaN(elem, u)
      /\ Magnitudes[elem][u] \in Nat /\ ~IsInfinite(elem, u)
  <2>1. u # Infinity(elem)
    BY <1>1
  <2> QED
    BY <1>1, <2>1, PositiveIs
<1>3. /\ Unsigned(elem, range) = range /\ ~Negative(elem, range) /\ ~IsNaN(elem, range)
      /\ Magnitudes[elem][range] \in Nat /\ (IsInfinite(elem, range) <=> range = Infinity(elem))
  BY <1>1, PositiveIs
<1>4. Scale \in Nat \ {0}
  BY FormatsAssumption
<1> DEFINE nearest == Nearest(elem, Magnitudes[elem][u] * Magnitudes[elem][range], Scale)
<1>5. nearest \in 0..Infinity(elem)
  <2>1. Magnitudes[elem][u] * Magnitudes[elem][range] \in Nat
    BY <1>2, <1>3
  <2> QED
    BY <1>4, <2>1, NearestIs
<1>6. mulf(elem, u, range) =
        IF IsInfinite(elem, range) THEN IF IsZero(elem, u) THEN NaN(elem) ELSE Infinity(elem) ELSE nearest
  <2>1. (Negative(elem, u) # Negative(elem, range)) = FALSE
    BY <1>2, <1>3 DEF Negative
  <2> QED
    BY <1>2, <1>3, <2>1 DEF mulf, Signed
<1> HIDE DEF nearest
<1>7. range < Infinity(elem) => mulf(elem, u, range) = nearest
  BY <1>1, <1>3, <1>6
<1> QED
  BY <1>1, <1>5, <1>6, <1>7 DEF nearest

\* The fraction of a hash is below one, and the build's way to it, by a product
\* instead of a quotient, comes to the same.
LEMMA UnitIs ==
    ASSUME NEW elem \in RandomFloats, NEW hash \in Nat
    PROVE  /\ unit_float_from_hash(elem, hash) \in 0..Infinity(elem) - 1
           /\ unit_from_u64(elem, hash) = unit_float_from_hash(elem, hash)
<1> DEFINE p == Mantissa[elem] + 1
           at == Magnitudes[elem]
           k == and_i64(hash, p)
           s == sitofp(elem, k)
           I == Infinity(elem)
<1>1. PICK power \in Nat \ {0} : power = TwoTo(p)
  BY PowersAreFloats
<1>2. PICK one \in 0..I - 1 : at[one] = Scale
  BY PowersAreFloats
<1>3. PICK whole \in 0..I - 1 : at[whole] = power * Scale
  BY <1>1, PowersAreFloats
<1>4. PICK part \in 0..I - 1 : at[part] * power = Scale
  BY <1>1, PowersAreFloats
<1>5. I \in Nat /\ one \in 0..I /\ whole \in 0..I /\ part \in 0..I
  BY FormatIs
<1>6. Scale \in Nat \ {0} /\ 1 \in Nat \ {0}
  BY FormatsAssumption
<1>7. \A b \in 0..I : at[b] \in Nat
  BY MagnitudesGrow
<1>8. k \in 0..power - 1
  BY <1>1, DivMod DEF and_i64
<1>9. k * Scale \in Nat /\ k * Scale <= power * Scale
  <2>1. PICK more \in Nat : power = k + more
    <3>1. power - k \in Nat /\ power = k + (power - k)
      BY <1>8
    <3> QED
      BY <3>1
  <2>2. power * Scale = k * Scale + more * Scale /\ more * Scale \in Nat /\ k * Scale \in Nat
    BY <1>6, <1>8, <2>1
  <2> QED
    BY <2>2
<1>10. s \in 0..I /\ s <= whole
  <2>1. s = Nearest(elem, k * Scale, 1)
    BY DEF sitofp
  <2>2. k * Scale <= at[whole] * 1
    BY <1>3, <1>6, <1>9
  <2> HIDE DEF s, at, k, I
  <2>3. Nearest(elem, k * Scale, 1) \in 0..I /\ Nearest(elem, k * Scale, 1) <= whole
    BY <1>5, <1>6, <1>9, <2>2, NearestIs DEF at, I
  <2> QED
    BY <2>1, <2>3
<1> HIDE DEF s, k, I, at, p
<1>11. s \in 0..I - 1
  BY <1>5, <1>10
<1>12. at[s] \in Nat /\ at[s] <= power * Scale
  <2>1. at[s] \in Nat /\ at[whole] \in Nat /\ ~(whole < s)
    BY <1>5, <1>7, <1>10
  <2>2. ~(at[whole] < at[s])
    BY <1>5, <1>10, <2>1, MagnitudesOrdered DEF at, I
  <2> QED
    BY <1>3, <2>1, <2>2
<1>13. Nearest(elem, at[s], power) \in 0..I - 1
  <2>1. at[s] <= at[one] * power
    BY <1>2, <1>6, <1>12
  <2>2. Nearest(elem, at[s], power) \in 0..I /\ Nearest(elem, at[s], power) <= one
    BY <1>5, <1>12, <2>1, NearestIs DEF at, I
  <2> QED
    BY <1>5, <2>2
<1>14. unit_float_from_hash(elem, hash) = Nearest(elem, at[s], power)
  BY <1>1 DEF unit_float_from_hash, DividedByPower, s, k, at, p
<1>15. sitofp(elem, 1) = one
  <2>1. 1 * Scale = at[one] * 1
    BY <1>2, <1>6
  <2> QED
    BY <1>5, <1>6, <2>1, NearestExact DEF sitofp, at, I
<1>16. DividedByPower(elem, one, p) = part
  <2>1. at[one] = at[part] * power
    BY <1>2, <1>4
  <2> QED
    BY <1>1, <1>5, <2>1, NearestExact DEF DividedByPower, at, I
<1>17. mulf(elem, s, part) = Nearest(elem, at[s], power)
  <2>1. mulf(elem, s, part) = Nearest(elem, at[s] * at[part], Scale)
    <3>1. part < I
      BY <1>5
    <3> QED
      BY <1>5, <1>11, <3>1, ProductIs DEF at, I
  <2>2. PICK g \in Nat \ {0} : g = at[part]
    <3>1. at[part] \in Nat
      BY <1>5, <1>7
    <3>2. at[part] # 0
      BY <1>4, <1>6
    <3> QED
      BY <3>1, <3>2
  <2>3. at[s] * at[part] = g * at[s] /\ Scale = g * power
    BY <1>4, <1>12, <2>2
  <2>4. Nearest(elem, g * at[s], g * power) = Nearest(elem, at[s], power)
    BY <1>12, <2>2, NearestOfQuotient
  <2> QED
    BY <2>1, <2>3, <2>4
<1>18. unit_from_u64(elem, hash) = mulf(elem, s, DividedByPower(elem, sitofp(elem, 1), p))
  BY DEF unit_from_u64, s, k, p
<1> QED
  BY <1>13, <1>14, <1>15, <1>16, <1>17, <1>18 DEF I

\* The float below a finite one that is not the lowest: the same for the graph
\* and the build, and no float of those below lies above it.
LEMMA NextDownIs ==
    ASSUME NEW elem \in RandomFloats, NEW low \in Words(elem), NEW high \in Words(elem),
           IsFinite(elem, high), ogt(elem, high, low)
    PROVE  LET below == next_down_float(elem, high)
           IN /\ below \in Words(elem) /\ ~IsNaN(elem, below)
              /\ Number(elem, low) <= Number(elem, below) /\ Number(elem, below) < Number(elem, high)
              /\ next_down(elem, high) = below
<1> DEFINE I == Infinity(elem)
           at == Magnitudes[elem]
           below == next_down_float(elem, high)
<1>1. I \in Nat /\ I >= 2 /\ I + 1 < SignBit(elem) /\ SignBit(elem) \in Nat /\ Words(elem) = 0..2 * SignBit(elem) - 1
  BY SignsAre
<1>2. ~IsNaN(elem, low) /\ ~IsNaN(elem, high) /\ Number(elem, high) > Number(elem, low)
  BY DEF ogt, Comparable
<1>3. PICK x \in 0..I - 1 : x = Unsigned(elem, high)
  BY KindsAre
<1>4. PICK y \in 0..I : y = Unsigned(elem, low)
  BY <1>2, NumberIs
<1>5. /\ at[x] \in Nat /\ at[y] \in Nat
      /\ Number(elem, low) = IF Negative(elem, low) THEN -at[y] ELSE at[y]
      /\ Number(elem, high) = IF Negative(elem, high) THEN -at[x] ELSE at[x]
  BY <1>2, <1>3, <1>4, NumberIs
<1>6. ASSUME NEW a \in 0..I, NEW b \in 0..I
      PROVE  at[a] \in Nat /\ at[b] \in Nat /\ (a < b <=> at[a] < at[b]) /\ (a = b <=> at[a] = at[b])
  BY MagnitudesOrdered
<1>7. at[0] = 0 /\ Number(elem, 0) = 0 /\ ~IsNaN(elem, 0)
  <2>1. 0 \in 0..I
    BY <1>1
  <2> QED
    BY <2>1, MagnitudesGrow, PositiveIs
<1>8. \A n \in 0..2 * SignBit(elem) - 1 : Modulo(elem, n) = n
  <2>1. elem \in {"f32", "f64", "i32", "i64"}
    BY DEF RandomFloats
  <2> QED
    BY <1>1, <2>1, WidthsAre
<1>9. high # Signed(elem, TRUE, I)
  <2>1. Unsigned(elem, Signed(elem, TRUE, I)) = I
    <3>1. I \in 0..I /\ TRUE \in BOOLEAN
      BY <1>1
    <3> QED
      BY <3>1, SignedIs
  <2>2. Unsigned(elem, high) # I
    BY <1>1, <1>3
  <2> QED
    BY <2>1, <2>2
<1>10. high = IF Negative(elem, high) THEN SignBit(elem) + x ELSE x
  BY <1>3, SignsAre
<1> HIDE DEF I, at
<1>11. CASE x = 0
  <2>1. IsZero(elem, high) /\ Number(elem, high) = 0
    <3>1. IsZero(elem, high)
      BY <1>3, <1>11 DEF IsZero
    <3> QED
      BY <3>1, KindsAre
  <2>2. below = SignBit(elem) + 1 /\ next_down(elem, high) = SignBit(elem) + 1
    <3>1. ~ogt(elem, high, 0)
      BY <1>7, <2>1 DEF ogt
    <3>2. below = SignBit(elem) + 1
      BY <2>1, <3>1 DEF next_down_float
    <3>3. next_down(elem, high) = Signed(elem, TRUE, 1)
      BY <1>9, <2>1, <3>1 DEF next_down, I
    <3> QED
      BY <3>2, <3>3 DEF Signed
  <2>3. PICK one \in 0..I : one = 1
    BY <1>1
  <2>4. Signed(elem, TRUE, one) = SignBit(elem) + 1
    BY <2>3 DEF Signed
  <2>5. /\ below \in Words(elem) /\ ~IsNaN(elem, below)
        /\ Unsigned(elem, below) = one /\ Negative(elem, below)
    <3>1. one \in 0..Infinity(elem) /\ TRUE \in BOOLEAN
      BY DEF I
    <3>2. LET s == Signed(elem, TRUE, one)
          IN s \in Words(elem) /\ Unsigned(elem, s) = one /\ Negative(elem, s) /\ ~IsNaN(elem, s)
      BY <3>1, SignedIs
    <3>3. below = Signed(elem, TRUE, one)
      BY <2>2, <2>4
    <3> HIDE DEF below
    <3> QED
      BY <3>2, <3>3
  <2> HIDE DEF below
  <2>6. Number(elem, below) = -at[one]
    BY <2>5, NumberIs DEF at
  <2>7. at[one] \in Nat /\ at[one] > 0
    <3>1. 0 \in 0..I /\ 0 < one
      BY <1>1, <2>3
    <3>2. at[0] < at[one] /\ at[one] \in Nat
      BY <1>6, <3>1
    <3> QED
      BY <1>7, <3>2
  <2>8. Negative(elem, low) /\ at[y] > 0
    BY <1>2, <1>5, <2>1
  <2>9. ~(y < one)
    BY <1>7, <2>3, <2>8
  <2>10. ~(at[y] < at[one])
    BY <1>6, <2>9
  <2> QED
    BY <1>5, <2>1, <2>2, <2>5, <2>6, <2>7, <2>8, <2>10 DEF below
<1>12. CASE x # 0 /\ ~Negative(elem, high)
  <2>1. ~IsZero(elem, high)
    BY <1>3, <1>12 DEF IsZero
  <2>2. PICK z \in 0..I : z = x - 1
    BY <1>1, <1>12
  <2>3. at[z] < at[x] /\ at[z] \in Nat
    <3>1. x \in 0..I /\ z < x
      BY <1>1, <2>2
    <3> QED
      BY <1>6, <3>1
  <2>4. ogt(elem, high, 0)
    BY <1>2, <1>5, <1>7, <1>12, <2>3 DEF ogt, Comparable
  <2>5. Modulo(elem, high - 1) = z
    <3>1. high - 1 = z /\ z \in 0..2 * SignBit(elem) - 1
      BY <1>1, <1>10, <1>12, <2>2
    <3> QED
      BY <1>8, <3>1
  <2>6. below = z /\ next_down(elem, high) = z
    <3>1. high - 1 = z
      BY <1>10, <1>12, <2>2
    <3> QED
      BY <1>9, <2>1, <2>4, <2>5, <3>1 DEF next_down_float, next_down, I
  <2>7. z \in Words(elem) /\ ~IsNaN(elem, z) /\ Number(elem, z) = at[z]
    BY PositiveIs DEF at, I
  <2>8. Number(elem, low) <= at[z]
    <3>1. CASE Negative(elem, low)
      BY <1>5, <2>3, <3>1
    <3>2. CASE ~Negative(elem, low)
      <4>1. at[y] < at[x] /\ x \in 0..I
        BY <1>1, <1>2, <1>5, <1>12, <3>2
      <4>2. y < x
        BY <1>6, <4>1
      <4>3. ~(z < y)
        BY <2>2, <4>2
      <4>4. ~(at[z] < at[y])
        BY <1>6, <4>3
      <4> QED
        BY <1>5, <2>3, <3>2, <4>4
    <3> QED
      BY <3>1, <3>2
  <2> QED
    BY <1>5, <1>12, <2>3, <2>6, <2>7, <2>8
<1>13. CASE x # 0 /\ Negative(elem, high)
  <2>1. ~IsZero(elem, high)
    BY <1>3, <1>13 DEF IsZero
  <2>2. PICK z \in 0..I : z = x + 1
    BY <1>1
  <2>3. at[x] < at[z] /\ at[z] \in Nat
    <3>1. x \in 0..I /\ x < z
      BY <1>1, <2>2
    <3> QED
      BY <1>6, <3>1
  <2>4. ~ogt(elem, high, 0)
    BY <1>5, <1>7, <1>13 DEF ogt
  <2>5. high + 1 = Signed(elem, TRUE, z) /\ high + 1 \in 0..2 * SignBit(elem) - 1
    BY <1>1, <1>10, <1>13, <2>2 DEF Signed
  <2>6. below = Signed(elem, TRUE, z) /\ next_down(elem, high) = Signed(elem, TRUE, z)
    <3>1. Modulo(elem, high + 1) = high + 1
      BY <1>8, <2>5
    <3> QED
      BY <1>9, <2>1, <2>4, <2>5, <3>1 DEF next_down_float, next_down, I
  <2> HIDE DEF below
  <2>7. /\ below \in Words(elem) /\ ~IsNaN(elem, below)
        /\ Unsigned(elem, below) = z /\ Negative(elem, below)
    BY <2>6, SignedIs DEF I
  <2>8. Number(elem, below) = -at[z]
    BY <2>7, NumberIs DEF at
  <2>9. Negative(elem, low) /\ at[x] < at[y]
    BY <1>2, <1>5, <1>13
  <2>10. x < y
    <3>1. x \in 0..I
      BY <1>1
    <3> QED
      BY <1>6, <2>9, <3>1
  <2>11. ~(y < z)
    BY <2>2, <2>10
  <2>12. ~(at[y] < at[z])
    BY <1>6, <2>11
  <2>13. Number(elem, low) = -at[y] /\ Number(elem, high) = -at[x]
    BY <1>5, <1>13, <2>9
  <2>14. -at[y] <= -at[z] /\ -at[z] < -at[x]
    BY <1>5, <2>3, <2>12
  <2> QED
    BY <2>6, <2>7, <2>8, <2>13, <2>14 DEF below
<1> QED
  BY <1>11, <1>12, <1>13

\* A sample that is not below low, kept below high.
LEMMA ClampIs ==
    ASSUME NEW elem \in RandomFloats, NEW low \in Words(elem), NEW high \in Words(elem),
           IsFinite(elem, high), ogt(elem, high, low),
           NEW sample \in Words(elem), ~IsNaN(elem, sample), Number(elem, low) <= Number(elem, sample)
    PROVE  LET v == clamp_uniform_sample_below_high(elem, sample, high)
           IN v \in Words(elem) /\ oge(elem, v, low) /\ ogt(elem, high, v)
<1> DEFINE v == clamp_uniform_sample_below_high(elem, sample, high)
<1>1. ~IsNaN(elem, low) /\ ~IsNaN(elem, high)
  BY DEF ogt, Comparable
<1>2. Number(elem, low) \in Int /\ Number(elem, high) \in Int /\ Number(elem, sample) \in Int
  BY <1>1, NumberIs
<1>3. /\ v \in Words(elem) /\ ~IsNaN(elem, v)
      /\ Number(elem, low) <= Number(elem, v) /\ Number(elem, v) < Number(elem, high)
  <2>1. CASE oge(elem, sample, high)
    <3>1. v = next_down_float(elem, high)
      BY <2>1 DEF clamp_uniform_sample_below_high
    <3> QED
      BY <3>1, NextDownIs
  <2>2. CASE ~oge(elem, sample, high)
    <3>1. v = sample
      BY <2>2 DEF clamp_uniform_sample_below_high
    <3>2. Number(elem, sample) < Number(elem, high)
      BY <1>1, <1>2, <2>2 DEF oge, oeq, ogt, Comparable
    <3> QED
      BY <3>1, <3>2
  <2> QED
    BY <2>1, <2>2
<1> HIDE DEF v
<1>4. Number(elem, v) \in Int
  BY <1>3, NumberIs
<1>5. oge(elem, v, low) /\ ogt(elem, high, v)
  BY <1>1, <1>2, <1>3, <1>4 DEF oge, oeq, ogt, Comparable
<1> QED
  BY <1>3, <1>5 DEF v

\* A sum with a NaN is one.
LEMMA NaNSpreads ==
    ASSUME NEW elem \in RandomFloats, NEW a \in Words(elem)
    PROVE  addf(elem, a, NaN(elem)) = NaN(elem)
<1>1. IsNaN(elem, NaN(elem)) /\ NaN(elem) \in Words(elem)
  BY SignsAre
<1>2. ~IsInfinite(elem, NaN(elem)) /\ ~IsFinite(elem, NaN(elem))
  BY <1>1, KindsAre
<1>3. IsZero(elem, a) => a # NaN(elem)
  BY <1>1, KindsAre
<1> QED
  BY <1>1, <1>2, <1>3 DEF addf

\* A sample is a float, and in range when the distance of the bounds is finite.
LEMMA SampleIs ==
    ASSUME NEW elem \in RandomFloats, NEW low \in Words(elem), NEW high \in Words(elem),
           ogt(elem, high, low), NEW hash \in Nat
    PROVE  LET v == uniform_sample(elem, low, high, hash)
           IN /\ v \in Words(elem)
              /\ IsFinite(elem, subf(elem, high, low)) => oge(elem, v, low) /\ ogt(elem, high, v)
<1> DEFINE v == uniform_sample(elem, low, high, hash)
           unit == unit_float_from_hash(elem, hash)
           range == subf(elem, high, low)
           shift == mulf(elem, unit, range)
           sample == addf(elem, low, shift)
<1>1. unit \in 0..Infinity(elem) - 1
  BY UnitIs
<1>2. range \in 0..Infinity(elem) /\ range \in Words(elem)
  BY DistanceIs, DifferencesAreWords
<1>3. unit \in Words(elem)
  <2>1. unit \in 0..Infinity(elem)
    BY <1>1, FormatIs
  <2> QED
    BY <2>1, PositiveIs
<1>4. v = clamp_uniform_sample_below_high(elem, sample, high)
  BY DEF uniform_sample
<1> HIDE DEF unit, range
<1>5. shift \in Words(elem)
  BY <1>2, <1>3, ProductsAreWords
<1>6. sample \in Words(elem)
  BY <1>5, SumsAreWords
<1>7. v \in Words(elem)
  <2>1. next_down_float(elem, high) \in Words(elem)
    <3>1. high \in Int /\ SignBit(elem) + 1 \in Words(elem)
      BY SignsAre
    <3>2. high - 1 \in Int /\ high + 1 \in Int
      BY <3>1
    <3>3. elem \in {"f32", "f64", "i32", "i64"}
      BY DEF RandomFloats
    <3>4. Modulo(elem, high - 1) \in Words(elem) /\ Modulo(elem, high + 1) \in Words(elem)
      BY <3>2, <3>3, WidthsAre
    <3> QED
      BY <3>1, <3>4 DEF next_down_float
  <2> QED
    BY <1>4, <1>6, <2>1 DEF clamp_uniform_sample_below_high
<1>8. ASSUME IsFinite(elem, range) PROVE oge(elem, v, low) /\ ogt(elem, high, v)
  <2>1. IsFinite(elem, low) /\ IsFinite(elem, high)
    BY <1>8, DistanceIs DEF range
  <2>2. range < Infinity(elem)
    BY <1>2, <1>8, PositiveIs
  <2>3. shift \in 0..Infinity(elem)
    BY <1>1, <1>2, <2>2, ProductIs
  <2> HIDE DEF shift
  <2>4. ~IsNaN(elem, sample) /\ Number(elem, low) <= Number(elem, sample)
    BY <2>1, <2>3, SumGrows
  <2> HIDE DEF sample
  <2> QED
    BY <1>4, <1>6, <2>1, <2>4, ClampIs
<1> QED
  BY <1>7, <1>8 DEF range

\* A literal of the build is the graph's sample of the same hash; it is in range
\* unless it is NaN.
LEMMA LiteralIs ==
    ASSUME NEW elem \in RandomFloats, NEW low \in Words(elem), NEW high \in Words(elem),
           IsFinite(elem, low), IsFinite(elem, high), ogt(elem, high, low), NEW hash \in Nat
    PROVE  LET v == random_uniform_literal(elem, low, high, hash)
           IN /\ v = uniform_sample(elem, low, high, hash)
              /\ ~IsNaN(elem, v) => oge(elem, v, low) /\ ogt(elem, high, v)
<1> DEFINE s == uniform_sample(elem, low, high, hash)
           unit == unit_float_from_hash(elem, hash)
           range == subf(elem, high, low)
           shift == mulf(elem, unit, range)
           sample == addf(elem, low, shift)
           kept == clamp_uniform_sample_below_high(elem, sample, high)
<1>1. unit \in 0..Infinity(elem) - 1 /\ unit_from_u64(elem, hash) = unit
  BY UnitIs
<1>2. range \in 0..Infinity(elem)
  BY DistanceIs
<1>3. s = kept
  BY DEF uniform_sample
<1>4. kept = IF oge(elem, sample, high) THEN next_down(elem, high) ELSE sample
  BY NextDownIs DEF clamp_uniform_sample_below_high
<1>5. random_uniform_literal(elem, low, high, hash) = IF ogt(elem, low, kept) THEN low ELSE kept
  BY <1>1, <1>4 DEF random_uniform_literal, below_high, not_below
<1> HIDE DEF unit, range
<1>6. shift = NaN(elem) \/ shift \in 0..Infinity(elem)
  BY <1>1, <1>2, ProductIs
<1> HIDE DEF shift
<1>7. CASE shift = NaN(elem)
  <2>1. sample = NaN(elem)
    BY <1>7, NaNSpreads
  <2>2. IsNaN(elem, NaN(elem))
    BY SignsAre
  <2>3. kept = NaN(elem)
    BY <2>1, <2>2 DEF clamp_uniform_sample_below_high, oge, oeq, ogt, Comparable
  <2>4. ~ogt(elem, low, NaN(elem))
    BY <2>2 DEF ogt, Comparable
  <2> HIDE DEF kept
  <2> QED
    BY <1>3, <1>5, <2>2, <2>3, <2>4
<1>8. CASE shift \in 0..Infinity(elem)
  <2>1. ~IsNaN(elem, sample) /\ Number(elem, low) <= Number(elem, sample)
    BY <1>8, SumGrows
  <2>2. sample \in Words(elem)
    BY <1>8, PositiveIs, SumsAreWords
  <2> HIDE DEF sample
  <2>3. kept \in Words(elem) /\ oge(elem, kept, low) /\ ogt(elem, high, kept)
    BY <2>1, <2>2, ClampIs
  <2> HIDE DEF kept
  <2>4. Number(elem, kept) \in Int /\ Number(elem, low) \in Int
    BY <2>3, NumberIs DEF oge, oeq, ogt, Comparable
  <2>5. ~ogt(elem, low, kept)
    BY <2>3, <2>4 DEF oge, oeq, ogt
  <2> QED
    BY <1>3, <1>5, <2>3, <2>5
<1> QED
  BY <1>6, <1>7, <1>8

\* An integer sample of the graph: the remainder of the hash, cut to the width of
\* the elements, is added to low without leaving the range.
LEMMA IntegerSampleIs ==
    ASSUME NEW elem \in RandomIntegers, NEW low \in Whole(elem), NEW high \in Whole(elem), low < high,
           NEW hash \in Nat
    PROVE  LET v == low + (Modulo(elem, hash) % (high - low))
               word == integer_sample(elem, Modulo(elem, low), Modulo(elem, high), hash)
           IN v \in low..high - 1 /\ word \in Words(elem) /\ Integer(elem, word) = v
<1>1. PICK s \in Nat \ {0} : s = SignBit(elem)
  BY WidthsAre DEF RandomIntegers
<1>2. low \in Int /\ high \in Int /\ -s <= low /\ high < s
  BY <1>1 DEF Whole
<1>3. PICK m \in Nat \ {0} : m = 2 * s
  BY <1>1
<1>4. /\ \A n : Modulo(elem, n) = n % m
      /\ \A n \in Int : Modulo(elem, n) \in Words(elem)
  BY <1>1, <1>3, WidthsAre DEF RandomIntegers
<1>5. PICK range \in Nat \ {0} : range = high - low /\ range < m
  BY <1>2, <1>3
<1>6. ((high % m) - (low % m)) % m = range
  <2>1. PICK p \in Int, q \in Int : p = high % m /\ q = low % m
    <3>1. high % m \in Int /\ low % m \in Int
      BY <1>2, <1>3
    <3> QED
      BY <3>1
  <2>2. PICK k \in Int : high = m * k + p
    BY <1>2, <1>3, <2>1, DivMod
  <2>3. PICK l \in Int : low = m * l + q
    BY <1>2, <1>3, <2>1, DivMod
  <2>4. PICK j \in Int : p - q = range + m * j
    <3>1. l - k \in Int /\ p - q = range + m * (l - k)
      BY <1>5, <2>2, <2>3
    <3> QED
      BY <3>1
  <2>5. (range + m * j) % m = range % m
    <3>1. range \in Int
      OBVIOUS
    <3> QED
      BY <3>1, ModPlus
  <2>6. range \in 0..m - 1
    BY <1>5
  <2>7. range % m = range
    BY <2>6, ModSmall
  <2> QED
    BY <2>1, <2>4, <2>5, <2>7
<1>7. PICK h \in Nat : h = Modulo(elem, hash)
  <2>1. hash % m \in Nat
    BY DivMod
  <2> QED
    BY <1>4, <2>1
<1>8. PICK r \in 0..range - 1 : r = h % range
  BY DivMod
<1>9. PICK v \in low..high - 1 : v = low + r
  BY <1>2, <1>5
<1>10. integer_sample(elem, Modulo(elem, low), Modulo(elem, high), hash) = Modulo(elem, v)
  <2>1. integer_sample(elem, Modulo(elem, low), Modulo(elem, high), hash) = ((low % m) + (h % range)) % m
    BY <1>4, <1>6, <1>7 DEF integer_sample, integer_sample_from_hash
  <2>2. ((low % m) + r) % m = (low + r) % m
    <3>1. r \in Int
      OBVIOUS
    <3> QED
      BY <1>2, <3>1, ModSum
  <2> QED
    BY <1>4, <1>8, <1>9, <2>1, <2>2
<1>11. Integer(elem, Modulo(elem, v)) = v
  <2>1. v \in Int /\ -s <= v /\ v < s
    BY <1>2, <1>9
  <2>2. CASE v >= 0
    <3>1. v \in 0..m - 1
      BY <1>3, <2>1, <2>2
    <3>2. v % m = v
      BY <3>1, ModSmall
    <3>3. Integer(elem, v) = v
      BY <1>1, <2>1 DEF Integer
    <3> QED
      BY <1>4, <3>2, <3>3
  <2>3. CASE v < 0
    <3>1. v + m \in 0..m - 1 /\ v + m >= s /\ v + m - m = v /\ v + m * 1 = v + m
      BY <1>3, <2>1, <2>3
    <3>2. (v + m) % m = v + m
      BY <3>1, ModSmall
    <3>3. (v + m * 1) % m = v % m
      <4>1. 1 \in Int
        OBVIOUS
      <4> QED
        BY <2>1, <4>1, ModPlus
    <3>4. Integer(elem, v + m) = v
      BY <1>1, <1>3, <3>1 DEF Integer
    <3> QED
      BY <1>4, <3>1, <3>2, <3>3, <3>4
  <2> QED
    BY <2>1, <2>2, <2>3
<1>12. v \in Int
  BY <1>2
<1> QED
  BY <1>4, <1>5, <1>7, <1>8, <1>9, <1>10, <1>11, <1>12

\* The hashes of a tensor of the build.
LEMMA StaticHashesAre ==
    ASSUME NEW target, target.shape \in Seq(Nat), NEW seed \in Words("i64")
    PROVE  /\ element_count(target) \in Nat
           /\ \A n \in 1..element_count(target) :
                /\ StaticHashes(target, seed)[n] = HashesInBlock[Modulo("i64", seed + (n - 1))]
                /\ StaticHashes(target, seed)[n] \in Nat
<1>1. PICK count \in Nat : count = element_count(target)
  BY ProductIsNat DEF element_count
<1>2. ASSUME NEW n \in 1..count
      PROVE  /\ StaticHashes(target, seed)[n] = HashesInBlock[Modulo("i64", seed + (n - 1))]
             /\ StaticHashes(target, seed)[n] \in Nat
  <2>1. seed \in Int /\ seed + (n - 1) \in Int
    BY WordsAre
  <2>2. PICK counter \in Words("i64") : counter = Modulo("i64", seed + (n - 1))
    BY <2>1, WordsAre
  <2>3. Hashes[counter] = HashesInBlock[counter] /\ HashesInBlock[counter] \in Nat
    BY HashesAre, WordsAre
  <2>4. StaticHashes(target, seed)[n] = Hashes[Modulo("i64", seed + (n - 1))]
    BY <1>1 DEF StaticHashes
  <2> QED
    BY <2>2, <2>3, <2>4
<1> QED
  BY <1>1, <1>2

\* A conversion gives a float of the other format.
LEMMA ConvertedIs ==
    ASSUME NEW from \in RandomFloats, NEW to \in RandomFloats, NEW bits \in Words(from)
    PROVE  Converted(from, to, bits) \in Words(to)
<1>1. Negative(from, bits) \in BOOLEAN
  BY DEF Negative
<1>2. NaN(to) \in Words(to)
  BY SignsAre
<1>3. Signed(to, Negative(from, bits), Infinity(to)) \in Words(to)
  <2>1. Infinity(to) \in 0..Infinity(to)
    BY FormatIs
  <2> QED
    BY <1>1, <2>1, SignedIs
<1>4. CASE IsNaN(from, bits) \/ IsInfinite(from, bits)
  <2>1. Converted(from, to, bits) = NaN(to) \/ Converted(from, to, bits) = Signed(to, Negative(from, bits), Infinity(to))
    BY <1>4, KindsAre DEF Converted
  <2> QED
    BY <1>2, <1>3, <2>1
<1>5. CASE ~IsNaN(from, bits) /\ ~IsInfinite(from, bits)
  <2>1. Converted(from, to, bits) = Signed(to, Negative(from, bits), Nearest(to, Magnitudes[from][Unsigned(from, bits)], 1))
    BY <1>5 DEF Converted
  <2>2. Magnitudes[from][Unsigned(from, bits)] \in Nat /\ 1 \in Nat \ {0}
    BY <1>5, NumberIs
  <2>3. Nearest(to, Magnitudes[from][Unsigned(from, bits)], 1) \in 0..Infinity(to)
    BY <2>2, NearestIs
  <2> QED
    BY <1>1, <2>1, <2>3, SignedIs
<1> QED
  BY <1>4, <1>5

\* The elements of a static tensor.
LEMMA BuiltAre ==
    ASSUME NEW r, NEW ks \in Seq(Words("i64")), Made(r, ks), r.returned = 0
    PROVE  LET d == r.draw
               elem == d.target.elem
               count == element_count(d.target)
               from == Converted("f64", elem, d.low)
               to == Converted("f64", elem, d.high)
           IN /\ count \in Nat /\ r.from \in DOMAIN ks /\ DOMAIN r.elements = 1..count
              /\ IsFloat(r) =>
                   /\ elem \in RandomFloats /\ from \in Words(elem) /\ to \in Words(elem)
                   /\ count > 0 => IsFinite(elem, from) /\ IsFinite(elem, to) /\ ogt(elem, to, from)
                   /\ \A n \in 1..count :
                        /\ ~IsNaN(elem, r.elements[n])
                        /\ \E hash \in Nat : r.elements[n] = random_uniform_literal(elem, from, to, hash)
              /\ ~IsFloat(r) =>
                   /\ elem \in RandomIntegers /\ d.low \in Int /\ d.high \in Int /\ d.low < d.high
                   /\ \A n \in 1..count :
                        /\ r.elements[n] \in Whole(elem)
                        /\ \E hash \in Nat : r.elements[n] = d.low + (hash % (d.high - d.low))
<1> DEFINE d == r.draw
           target == d.target
           elem == target.elem
           count == element_count(target)
           from == Converted("f64", elem, d.low)
           to == Converted("f64", elem, d.high)
           seed == ks[r.from]
<1>1. IsDraw(d) /\ r.from \in DOMAIN ks /\ seed \in Words("i64")
  BY DEF Made
<1>2. MadeByBuild(r, ks)
  <2>1. ~(0 \in DOMAIN ks)
    OBVIOUS
  <2> QED
    BY <2>1 DEF Made, MadeByGraph
<1>3. target.shape \in Seq(Nat)
  BY <1>1 DEF IsDraw
<1>4. count \in Nat /\ \A n \in 1..count : StaticHashes(target, seed)[n] \in Nat
  BY <1>1, <1>3, StaticHashesAre
<1>5. CASE d.op = "StaticRandomUniform"
  <2>1. elem \in RandomFloats /\ IsFloat(r)
    BY <1>2, <1>5 DEF MadeByBuild, IsFloat
  <2>2. d.low \in Words("f64") /\ d.high \in Words("f64")
    BY <1>1, <1>5 DEF IsDraw
  <2>3. from \in Words(elem) /\ to \in Words(elem)
    BY <2>1, <2>2, ConvertedIs DEF RandomFloats
  <2>4. /\ r.elements \in static_random_uniform_literals(target, seed, d.low, d.high)
        /\ \A n \in DOMAIN r.elements : ~IsNaN(elem, r.elements[n])
    BY <1>2, <1>5 DEF MadeByBuild
  <2>5. /\ count > 0 => IsFinite(elem, from) /\ IsFinite(elem, to) /\ ogt(elem, to, from)
        /\ r.elements = [n \in 1..count |-> random_uniform_literal(elem, from, to, StaticHashes(target, seed)[n])]
    BY <2>4 DEF static_random_uniform_literals, Ok
  <2> QED
    BY <1>1, <1>4, <2>1, <2>3, <2>4, <2>5
<1>6. CASE d.op = "StaticRandomInt"
  <2>1. elem \in RandomIntegers /\ ~IsFloat(r)
    BY <1>2, <1>6 DEF MadeByBuild, IsFloat, RandomFloats, RandomIntegers
  <2>2. d.low \in Int /\ d.high \in Int
    BY <1>1, <1>6 DEF IsDraw
  <2>3. r.elements \in static_random_int_literals(target, seed, d.low, d.high)
    BY <1>2, <1>6 DEF MadeByBuild
  <2>4. /\ d.low < d.high
        /\ r.elements = [n \in 1..count |-> d.low + (StaticHashes(target, seed)[n] % (d.high - d.low))]
        /\ \A n \in 1..count : r.elements[n] \in Whole(elem)
    BY <2>3 DEF static_random_int_literals, Ok
  <2> QED
    BY <1>1, <1>4, <2>1, <2>2, <2>4
<1> QED
  BY <1>2, <1>5, <1>6 DEF MadeByBuild

\* The elements of a draw of the graph have their width.
LEMMA DrawnAre ==
    ASSUME NEW r, NEW ks \in Seq(Words("i64")), Made(r, ks), r.returned # 0
    PROVE  LET d == r.draw
               elem == d.target.elem
           IN /\ d.elem = elem
              /\ IsFloat(r) => /\ elem \in RandomFloats /\ d.low \in Words(elem) /\ d.high \in Words(elem)
                               /\ ogt(elem, d.high, d.low)
                               /\ \A x \in ElementsOf(r) : \E hash \in Nat : x = uniform_sample(elem, d.low, d.high, hash)
              /\ ~IsFloat(r) => /\ elem \in RandomIntegers /\ d.low \in Whole(elem) /\ d.high \in Whole(elem)
                                /\ d.low < d.high
                                /\ \A x \in ElementsOf(r) : \E hash \in Nat :
                                     x = integer_sample(elem, Modulo(elem, d.low), Modulo(elem, d.high), hash)
<1> DEFINE d == r.draw
           target == d.target
           elem == target.elem
           shape == target.shape
           key == ks[r.from]
<1>1. /\ MadeByGraph(r, ks) /\ shape \in Seq(Nat) /\ key \in Words("i64") /\ IsDraw(d)
      /\ IsFloat(r) <=> d.op = "RandomUniform"
      /\ DOMAIN r.elements = Places(shape)
  BY ElementsAre DEF Made
<1>2. d.elem = elem
  BY <1>1 DEF MadeByGraph
<1>3. ASSUME NEW x \in ElementsOf(r)
      PROVE  \E hash \in Nat :
               x = IF IsFloat(r) THEN uniform_sample(elem, d.low, d.high, hash)
                   ELSE integer_sample(elem, Modulo(elem, d.low), Modulo(elem, d.high), hash)
  <2>1. PICK index \in Places(shape) : x = r.elements[index]
    BY <1>1, <1>3 DEF ElementsOf
  <2>2. PICK hash : /\ hash = HashesInBlock[Modulo("i64", key + InOrder(shape, index))]
                    /\ x = IF IsFloat(r) THEN uniform_sample(elem, d.low, d.high, hash)
                           ELSE integer_sample(elem, Modulo(d.elem, d.low), Modulo(d.elem, d.high), hash)
    BY <2>1, ElementsAre
  <2>3. InOrder(shape, index) \in Int /\ key \in Int
    BY <1>1, PositionIsBelow, WordsAre
  <2>4. key + InOrder(shape, index) \in Int
    BY <2>3
  <2>5. hash \in Nat
    BY <2>2, <2>4, WordsAre, HashesAre
  <2> QED
    BY <1>2, <2>2, <2>5
<1>4. CASE d.op = "RandomUniform"
  BY <1>1, <1>2, <1>3, <1>4 DEF MadeByGraph, IsDraw, IsFloat
<1>5. CASE d.op = "RandomInt"
  BY <1>1, <1>2, <1>3, <1>5 DEF MadeByGraph, IsDraw
<1> QED
  BY <1>1, <1>4, <1>5 DEF MadeByGraph

\* The keys that random_next_key returns are words of 64 bits; a draw or a static
\* tensor has as many elements as its shape says, each as wide as their type.
THEOREM TypeOKHolds == Spec => []TypeOK
<1>1. ASSUME StreamInv PROVE TypeOK
  <2>1. \A k \in DOMAIN keys : keys[k] \in Words("i64")
    BY <1>1 DEF StreamInv
  <2>2. ASSUME NEW n \in DOMAIN drawn
        PROVE  LET r == drawn[n]
               IN /\ r.from \in DOMAIN keys
                  /\ Cardinality(DOMAIN r.elements) = element_count(r.draw.target)
                  /\ ElementsOf(r) \subseteq
                       (IF Dynamic(r) \/ IsFloat(r) THEN Words(r.draw.target.elem) ELSE Whole(r.draw.target.elem))
    <3> DEFINE r == drawn[n]
               elem == r.draw.target.elem
    <3>1. Made(r, keys) /\ keys \in Seq(Words("i64"))
      BY <1>1, <2>2 DEF StreamInv
    <3> HIDE DEF r
    <3>2. CASE r.returned # 0
      <4>1. Cardinality(DOMAIN r.elements) = element_count(r.draw.target)
        BY <3>1, <3>2, ElementsAre, PlacesCounted DEF element_count
      <4>2. ASSUME NEW x \in ElementsOf(r) PROVE x \in Words(elem)
        <5>1. CASE IsFloat(r)
          <6>1. PICK hash \in Nat : x = uniform_sample(elem, r.draw.low, r.draw.high, hash)
            BY <3>1, <3>2, <4>2, <5>1, DrawnAre
          <6> QED
            BY <3>1, <3>2, <5>1, <6>1, DrawnAre, SampleIs
        <5>2. CASE ~IsFloat(r)
          <6>1. PICK hash \in Nat : x = integer_sample(elem, Modulo(elem, r.draw.low), Modulo(elem, r.draw.high), hash)
            BY <3>1, <3>2, <4>2, <5>2, DrawnAre
          <6> QED
            BY <3>1, <3>2, <5>2, <6>1, DrawnAre, IntegerSampleIs
        <5> QED
          BY <5>1, <5>2
      <4> QED
        BY <3>1, <3>2, <4>1, <4>2 DEF Made, Dynamic, r
    <3>3. CASE r.returned = 0
      <4>1. PICK count \in Nat : count = element_count(r.draw.target) /\ DOMAIN r.elements = 1..count
        BY <3>1, <3>3, BuiltAre
      <4>2. Cardinality(1..count) = count
        <5>1. 1 \in Int /\ count \in Int
          OBVIOUS
        <5>2. Cardinality(1..count) = IF 1 > count THEN 0 ELSE count - 1 + 1
          BY <5>1, FS_Interval
        <5> QED
          BY <5>2
      <4>3. ASSUME NEW x \in ElementsOf(r)
            PROVE  x \in IF IsFloat(r) THEN Words(elem) ELSE Whole(elem)
        <5>1. PICK i \in 1..count : x = r.elements[i]
          BY <4>1, <4>3 DEF ElementsOf
        <5>2. CASE IsFloat(r)
          <6> DEFINE from == Converted("f64", elem, r.draw.low)
                     to == Converted("f64", elem, r.draw.high)
          <6>1. /\ elem \in RandomFloats /\ from \in Words(elem) /\ to \in Words(elem)
                /\ IsFinite(elem, from) /\ IsFinite(elem, to) /\ ogt(elem, to, from)
            BY <3>1, <3>3, <4>1, <5>1, <5>2, BuiltAre
          <6>2. PICK hash \in Nat : x = random_uniform_literal(elem, from, to, hash)
            BY <3>1, <3>3, <4>1, <5>1, <5>2, BuiltAre
          <6> HIDE DEF from, to
          <6> QED
            BY <5>2, <6>1, <6>2, LiteralIs, SampleIs
        <5>3. CASE ~IsFloat(r)
          BY <3>1, <3>3, <4>1, <5>1, <5>3, BuiltAre
        <5> QED
          BY <5>2, <5>3
      <4> QED
        BY <3>1, <3>3, <4>1, <4>2, <4>3 DEF Made, Dynamic, r
    <3> QED
      BY <3>2, <3>3
  <2> QED
    BY <2>1, <2>2 DEF TypeOK
<1> QED
  BY <1>1, StreamInvariant, PTL

\* Whatever the bounds, a sample of the graph (if the distance of its bounds is a
\* finite float) and every element of a static tensor is at least low and below
\* high: the checks of the bounds, clamp_uniform_sample_below_high, next_down and
\* the unsigned remainder leave no hash for which it is not.
THEOREM SamplesLieInRangeHolds == Spec => []SamplesLieInRange
<1>1. ASSUME StreamInv PROVE SamplesLieInRange
  <2> SUFFICES ASSUME NEW n \in DOMAIN drawn, NEW x \in ElementsOf(drawn[n]) PROVE InRange(drawn[n], x)
    BY DEF SamplesLieInRange
  <2> DEFINE r == drawn[n]
             d == r.draw
             elem == d.target.elem
  <2>1. Made(r, keys) /\ keys \in Seq(Words("i64")) /\ x \in ElementsOf(r)
    BY <1>1 DEF StreamInv
  <2> HIDE DEF r
  <2>2. CASE r.returned # 0 /\ IsFloat(r)
    <3>1. /\ elem \in RandomFloats /\ d.low \in Words(elem) /\ d.high \in Words(elem) /\ ogt(elem, d.high, d.low)
          /\ \E hash \in Nat : x = uniform_sample(elem, d.low, d.high, hash)
      BY <2>1, <2>2, DrawnAre
    <3>2. IsFinite(elem, subf(elem, d.high, d.low)) => oge(elem, x, d.low) /\ ogt(elem, d.high, x)
      BY <3>1, SampleIs
    <3> QED
      BY <2>2, <3>2 DEF InRange, Dynamic, r
  <2>3. CASE r.returned # 0 /\ ~IsFloat(r)
    <3>1. /\ elem \in RandomIntegers /\ d.low \in Whole(elem) /\ d.high \in Whole(elem) /\ d.low < d.high
          /\ \E hash \in Nat : x = integer_sample(elem, Modulo(elem, d.low), Modulo(elem, d.high), hash)
      BY <2>1, <2>3, DrawnAre
    <3>2. Integer(elem, x) \in d.low..d.high - 1
      BY <3>1, IntegerSampleIs
    <3>3. d.low \in Int /\ d.high \in Int
      <4>1. SignBit(elem) \in Nat
        BY <3>1, WidthsAre DEF RandomIntegers
      <4> QED
        BY <3>1, <4>1 DEF Whole
    <3>4. d.low <= Integer(elem, x) /\ Integer(elem, x) < d.high
      BY <3>2, <3>3
    <3> QED
      BY <2>3, <3>4 DEF InRange, Dynamic, r
  <2>4. CASE r.returned = 0
    <3>1. PICK count \in Nat : count = element_count(d.target) /\ DOMAIN r.elements = 1..count
      BY <2>1, <2>4, BuiltAre
    <3>2. PICK i \in 1..count : x = r.elements[i]
      BY <2>1, <3>1 DEF ElementsOf
    <3>3. CASE IsFloat(r)
      <4> DEFINE from == Converted("f64", elem, d.low)
                 to == Converted("f64", elem, d.high)
      <4>1. /\ elem \in RandomFloats /\ from \in Words(elem) /\ to \in Words(elem)
            /\ IsFinite(elem, from) /\ IsFinite(elem, to) /\ ogt(elem, to, from) /\ ~IsNaN(elem, x)
        BY <2>1, <2>4, <3>1, <3>2, <3>3, BuiltAre
      <4>2. PICK hash \in Nat : x = random_uniform_literal(elem, from, to, hash)
        BY <2>1, <2>4, <3>1, <3>2, <3>3, BuiltAre
      <4> HIDE DEF from, to
      <4>3. oge(elem, x, from) /\ ogt(elem, to, x)
        BY <4>1, <4>2, LiteralIs
      <4> QED
        BY <2>4, <3>3, <4>3 DEF InRange, Dynamic, r, from, to
    <3>4. CASE ~IsFloat(r)
      <4>1. d.low \in Int /\ d.high \in Int /\ d.low < d.high
        BY <2>1, <2>4, <3>1, <3>4, BuiltAre
      <4>2. PICK hash \in Nat : x = d.low + (hash % (d.high - d.low))
        BY <2>1, <2>4, <3>1, <3>2, <3>4, BuiltAre
      <4>3. PICK range \in Nat \ {0} : range = d.high - d.low
        BY <4>1
      <4>4. PICK rest \in 0..range - 1 : rest = hash % range
        <5>1. hash \in Int
          OBVIOUS
        <5> QED
          BY <5>1, DivMod
      <4>5. d.low <= x /\ x < d.high
        BY <4>1, <4>2, <4>3, <4>4
      <4> QED
        BY <2>4, <3>4, <4>5 DEF InRange, Dynamic, r
    <3> QED
      BY <3>3, <3>4
  <2> QED
    BY <2>2, <2>3, <2>4 DEF r
<1> QED
  BY <1>1, StreamInvariant, PTL

\* A finite float is an f64 too: there and back it comes to itself.
LEMMA RoundTrip ==
    ASSUME NEW elem \in RandomFloats, NEW bits \in Words(elem), IsFinite(elem, bits)
    PROVE  LET wide == Converted(elem, "f64", bits)
           IN /\ wide \in Words("f64") /\ ~IsNaN("f64", wide) /\ Number("f64", wide) = Number(elem, bits)
              /\ Converted("f64", elem, wide) = bits
<1>1. "f64" \in RandomFloats /\ ~IsNaN(elem, bits) /\ ~IsInfinite(elem, bits) /\ 1 \in Nat \ {0}
  BY KindsAre DEF RandomFloats
<1>2. PICK u \in 0..Infinity(elem) - 1 : u = Unsigned(elem, bits)
  BY KindsAre
<1>3. PICK w \in 0..Infinity("f64") - 1 : Magnitudes["f64"][w] = Magnitudes[elem][u]
  <2>1. CASE elem = "f64"
    BY <1>2, <2>1
  <2>2. CASE elem = "f32"
    BY <1>2, <2>2, NestAssumption
  <2> QED
    BY <2>1, <2>2 DEF RandomFloats
<1>4. u \in 0..Infinity(elem) /\ w \in 0..Infinity("f64") /\ w # Infinity("f64") /\ ~(w > Infinity("f64"))
  BY <1>1, FormatIs
<1>5. Magnitudes[elem][u] \in Nat /\ Magnitudes[elem][u] * 1 = Magnitudes[elem][u]
  <2>1. Magnitudes[elem][u] \in Nat
    BY <1>4, MagnitudesGrow
  <2> QED
    BY <2>1
<1>6. Nearest("f64", Magnitudes[elem][u], 1) = w
  BY <1>1, <1>3, <1>4, <1>5, NearestExact
<1>7. Nearest(elem, Magnitudes["f64"][w], 1) = u
  BY <1>1, <1>3, <1>4, <1>5, NearestExact
<1> DEFINE negative == Negative(elem, bits)
           wide == Signed("f64", negative, w)
<1>8. Converted(elem, "f64", bits) = wide
  BY <1>1, <1>2, <1>6 DEF Converted
<1>9. negative \in BOOLEAN
  BY DEF Negative
<1> HIDE DEF wide
<1>10. /\ wide \in Words("f64") /\ Unsigned("f64", wide) = w /\ ~IsNaN("f64", wide)
       /\ Negative("f64", wide) <=> negative
  BY <1>1, <1>4, <1>9, SignedIs DEF wide
<1>11. ~IsInfinite("f64", wide) /\ Negative("f64", wide) = negative
  BY <1>4, <1>10 DEF IsInfinite, Negative
<1>12. Converted("f64", elem, wide) = Signed(elem, negative, u)
  BY <1>7, <1>10, <1>11 DEF Converted
<1>13. Signed(elem, negative, u) = bits
  BY <1>2, SignsAre DEF Signed
<1>14. Number("f64", wide) = Number(elem, bits)
  BY <1>2, <1>3, <1>10, <1>11 DEF Number
<1> QED
  BY <1>8, <1>10, <1>12, <1>13, <1>14

\* The generator is written twice, in random.rs for the graph and in
\* static_creation.rs for the build: from one key or seed and with the same bounds
\* both make the same elements, for f32, f64 and i64.
THEOREM HostAgreesWithDeviceHolds == Spec => []HostAgreesWithDevice
<1>1. ASSUME StreamInv PROVE HostAgreesWithDevice
  <2> SUFFICES ASSUME NEW n \in DOMAIN drawn, Dynamic(drawn[n]), drawn[n].draw.target.elem # "i32",
                      IsFloat(drawn[n]) => /\ IsFinite(drawn[n].draw.target.elem, drawn[n].draw.low)
                                           /\ IsFinite(drawn[n].draw.target.elem, drawn[n].draw.high)
               PROVE  LET r == drawn[n]
                          d == r.draw
                          seed == keys[r.from]
                          target == d.target
                          literals ==
                              IF IsFloat(r)
                              THEN static_random_uniform_literals(target, seed, Converted(target.elem, "f64", d.low),
                                                                  Converted(target.elem, "f64", d.high))
                              ELSE static_random_int_literals(target, seed, d.low, d.high)
                      IN \E host \in literals : \A index \in DOMAIN r.elements :
                           host[InOrder(target.shape, index) + 1] =
                               (IF IsFloat(r) THEN r.elements[index] ELSE Integer(target.elem, r.elements[index]))
    BY Zenon DEF HostAgreesWithDevice
  <2> DEFINE r == drawn[n]
             d == r.draw
             seed == keys[r.from]
             target == d.target
             elem == target.elem
             shape == target.shape
             count == element_count(target)
             Hash(index) == HashesInBlock[Modulo("i64", seed + InOrder(shape, index))]
  <2>1. Made(r, keys) /\ keys \in Seq(Words("i64")) /\ r.returned # 0
    BY <1>1 DEF StreamInv, Dynamic
  <2> HIDE DEF r
  <2>2. /\ shape \in Seq(Nat) /\ seed \in Words("i64") /\ DOMAIN r.elements = Places(shape) /\ d.elem = elem
        /\ \A index \in Places(shape) :
             r.elements[index] = IF IsFloat(r) THEN uniform_sample(elem, d.low, d.high, Hash(index))
                                 ELSE integer_sample(elem, Modulo(elem, d.low), Modulo(elem, d.high), Hash(index))
    BY <2>1, ElementsAre, DrawnAre
  <2>3. count \in Nat /\ count = Product(shape) /\ \A k \in 1..count : StaticHashes(target, seed)[k] \in Nat
    BY <2>2, StaticHashesAre DEF element_count
  <2>4. ASSUME NEW index \in Places(shape)
        PROVE  /\ InOrder(shape, index) + 1 \in 1..count
               /\ StaticHashes(target, seed)[InOrder(shape, index) + 1] = Hash(index)
               /\ Hash(index) \in Words("i64")
    <3>1. PICK position \in 0..count - 1 : position = InOrder(shape, index)
      BY <2>2, <2>3, PositionIsBelow
    <3>2. position + 1 \in 1..count /\ (position + 1) - 1 = position /\ position \in Int
      BY <2>3
    <3>3. StaticHashes(target, seed)[position + 1] = HashesInBlock[Modulo("i64", seed + position)]
      BY <2>2, <3>2, StaticHashesAre
    <3>4. seed + position \in Int
      BY <2>2, <3>2, WordsAre
    <3>5. HashesInBlock[Modulo("i64", seed + position)] \in Words("i64")
      BY <3>4, WordsAre, HashesAre
    <3> QED
      BY <3>1, <3>2, <3>3, <3>5
  <2> HIDE DEF Hash
  <2>5. CASE IsFloat(r)
    <3> DEFINE low == Converted(elem, "f64", d.low)
               high == Converted(elem, "f64", d.high)
               host == [k \in 1..count |-> random_uniform_literal(elem, d.low, d.high, StaticHashes(target, seed)[k])]
    <3>1. /\ elem \in RandomFloats /\ d.low \in Words(elem) /\ d.high \in Words(elem) /\ ogt(elem, d.high, d.low)
          /\ IsFinite(elem, d.low) /\ IsFinite(elem, d.high)
      BY <2>1, <2>5, DrawnAre DEF r
    <3>2. /\ Converted("f64", elem, low) = d.low /\ ~IsNaN("f64", low) /\ Number("f64", low) = Number(elem, d.low)
          /\ Converted("f64", elem, high) = d.high /\ ~IsNaN("f64", high) /\ Number("f64", high) = Number(elem, d.high)
      BY <3>1, RoundTrip
    <3> HIDE DEF low, high
    <3>3. ogt("f64", high, low)
      BY <3>1, <3>2 DEF ogt, Comparable
    <3>4. host \in static_random_uniform_literals(target, seed, low, high)
      BY <3>1, <3>2, <3>3 DEF static_random_uniform_literals, Ok
    <3>5. ASSUME NEW index \in DOMAIN r.elements PROVE host[InOrder(shape, index) + 1] = r.elements[index]
      <4>1. index \in Places(shape)
        BY <2>2
      <4>2. r.elements[index] = uniform_sample(elem, d.low, d.high, Hash(index))
        BY <2>2, <2>5, <4>1
      <4>3. Hash(index) \in Nat
        BY <2>4, <4>1, WordsAre
      <4>4. host[InOrder(shape, index) + 1] = random_uniform_literal(elem, d.low, d.high, Hash(index))
        BY <2>4, <4>1
      <4> QED
        BY <3>1, <4>2, <4>3, <4>4, LiteralIs
    <3> HIDE DEF host
    <3> QED
      BY <2>5, <3>4, <3>5 DEF r, low, high
  <2>6. CASE ~IsFloat(r)
    <3> DEFINE host == [k \in 1..count |-> d.low + (StaticHashes(target, seed)[k] % (d.high - d.low))]
    <3>1. elem \in RandomIntegers /\ elem = "i64" /\ d.low \in Whole(elem) /\ d.high \in Whole(elem) /\ d.low < d.high
      BY <2>1, <2>6, DrawnAre DEF r, RandomIntegers
    <3>2. PICK s \in Nat : s = SignBit(elem)
      BY <3>1, WidthsAre DEF RandomIntegers
    <3>3. d.low \in Int /\ d.high \in Int /\ -s <= d.low /\ d.high < s
      BY <3>1, <3>2 DEF Whole
    <3>4. ASSUME NEW k \in 1..count PROVE host[k] \in Whole(elem)
      <4>1. PICK hash \in Nat : hash = StaticHashes(target, seed)[k]
        BY <2>3
      <4>2. PICK range \in Nat \ {0} : range = d.high - d.low
        BY <3>1, <3>3
      <4>3. PICK rest \in 0..range - 1 : rest = hash % range
        <5>1. hash \in Int
          OBVIOUS
        <5> QED
          BY <5>1, DivMod
      <4>4. host[k] = d.low + rest
        BY <4>1, <4>2, <4>3
      <4>5. d.low + rest \in -s..s - 1
        BY <3>3, <4>2
      <4> QED
        BY <3>2, <4>4, <4>5 DEF Whole
    <3>5. host \in static_random_int_literals(target, seed, d.low, d.high)
      BY <3>1, <3>4 DEF static_random_int_literals, Ok
    <3>6. ASSUME NEW index \in DOMAIN r.elements
          PROVE  host[InOrder(shape, index) + 1] = Integer(elem, r.elements[index])
      <4>1. index \in Places(shape)
        BY <2>2
      <4>2. r.elements[index] = integer_sample(elem, Modulo(elem, d.low), Modulo(elem, d.high), Hash(index))
        BY <2>2, <2>6, <4>1
      <4>3. Hash(index) \in Nat /\ Modulo(elem, Hash(index)) = Hash(index)
        BY <2>4, <3>1, <4>1, WordsAre
      <4>4. host[InOrder(shape, index) + 1] = d.low + (Hash(index) % (d.high - d.low))
        BY <2>4, <4>1
      <4>5. Integer(elem, r.elements[index]) = d.low + (Modulo(elem, Hash(index)) % (d.high - d.low))
        BY <3>1, <4>2, <4>3, IntegerSampleIs
      <4> QED
        BY <4>3, <4>4, <4>5
    <3> HIDE DEF host
    <3> QED
      BY <2>6, <3>5, <3>6 DEF r
  <2> QED
    BY <2>5, <2>6
<1> QED
  BY <1>1, StreamInvariant, PTL
==============================================================================
