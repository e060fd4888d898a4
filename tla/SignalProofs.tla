----------------------------- MODULE SignalProofs -----------------------------
(***************************************************************************)
(* The arithmetic of module Signal, for every prime P and every Root that   *)
(* the assumption admits: the pairs form a field, the powers of Root behave *)
(* like angles, sums can be split and exchanged, and the reference          *)
(* transform Dft has the properties the fast algorithms rest on.            *)
(***************************************************************************)
EXTENDS Signal, TLAPS, WellFoundedInduction

-------------------------------------------------------------------------------
(* Induction over the natural numbers, with the set of numbers a statement  *)
(* holds for in the place of the statement.                                 *)

\* A set of numbers that is not empty has a least one.
LEMMA LeastNumber ==
    ASSUME NEW T \in SUBSET Nat, T # {}
    PROVE  \E least \in T : \A k \in T : least <= k
<1>1. \E x \in T : \A y \in T : ~ (<<y, x>> \in OpToRel(<, Nat))
  BY NatLessThanWellFounded, WFMin
<1>2. ASSUME NEW x \in Nat, NEW y \in Nat, ~ (<<y, x>> \in OpToRel(<, Nat)) PROVE x <= y
  BY <1>2, SMT DEF OpToRel
<1> QED BY <1>1, <1>2

\* Induction, stated for a set: one that holds 0 and every successor of a member
\* holds all numbers.
LEMMA InductiveSet ==
    ASSUME NEW T, 0 \in T, \A n \in Nat : n \in T => n + 1 \in T
    PROVE  \A n \in Nat : n \in T
<1> SUFFICES ASSUME Nat \ T # {} PROVE FALSE
  OBVIOUS
<1>1. PICK m \in Nat \ T : \A k \in Nat \ T : m <= k
  BY LeastNumber
<1>2. m \in Nat /\ m # 0 /\ m \notin T
  BY <1>1
<1>3. m - 1 \in Nat /\ ~ (m <= m - 1) /\ (m - 1) + 1 = m
  BY <1>2, SMT
<1>4. m - 1 \in T
  BY <1>1, <1>3
<1> QED BY <1>2, <1>3, <1>4

\* Induction from all smaller numbers.
LEMMA CompleteInductiveSet ==
    ASSUME NEW T, \A n \in Nat : (\A k \in Nat : k < n => k \in T) => n \in T
    PROVE  \A n \in Nat : n \in T
<1> SUFFICES ASSUME Nat \ T # {} PROVE FALSE
  OBVIOUS
<1>1. PICK m \in Nat \ T : \A k \in Nat \ T : m <= k
  BY LeastNumber
<1>2. \A k \in Nat : k < m => k \in T
  BY <1>1, SMT
<1> QED BY <1>1, <1>2

-------------------------------------------------------------------------------
(* Remainders modulo an arbitrary positive number *)

\* Division with remainder.
LEMMA DivMod ==
    ASSUME NEW d \in Nat, d > 0, NEW a \in Int
    PROVE  a % d \in 0 .. d - 1 /\ a \div d \in Int /\ a = d * (a \div d) + (a % d)
<1>1. a % d \in 0 .. d - 1
  BY SMT
<1>2. a \div d \in Int
  BY SMT
<1>3. a = d * (a \div d) + (a % d)
  BY SMT
<1> QED BY <1>1, <1>2, <1>3

\* Two remainders that differ by a multiple of the divisor are one.
LEMMA RemainderUnique ==
    ASSUME NEW d \in Nat, NEW q \in Int, NEW r \in 0 .. d - 1, NEW s \in 0 .. d - 1,
           r = d * q + s
    PROVE  q = 0 /\ r = s
<1>1. CASE q >= 1
  <2>1. PICK e \in Nat : q = 1 + e
    <3>1. q - 1 \in Nat /\ q = 1 + (q - 1)
      BY <1>1, SMT
    <3> QED BY <3>1
  <2>2. d * q = d + d * e /\ d * e \in Nat
    BY <2>1, SMT
  <2> QED BY <2>2, SMT
<1>2. CASE q <= -1
  <2>1. PICK e \in Nat : q = (0 - 1) - e
    <3>1. (0 - 1) - q \in Nat /\ q = (0 - 1) - ((0 - 1) - q)
      BY <1>2, SMT
    <3> QED BY <3>1
  <2>2. d * q = 0 - d - d * e /\ d * e \in Nat
    BY <2>1, SMT
  <2> QED BY <2>2, SMT
<1>3. q = 0
  BY <1>1, <1>2, SMT
<1>4. d * q = 0
  BY <1>3, SMT
<1> QED BY <1>3, <1>4, SMT

\* Numbers that differ by a multiple of d have one remainder.
LEMMA SameRemainder ==
    ASSUME NEW d \in Nat, d > 0, NEW a \in Int, NEW b \in Int, NEW q \in Int, a = b + d * q
    PROVE  a % d = b % d
<1> DEFINE r == a % d
           s == b % d
           x == a \div d
           y == b \div d
<1>1. r \in 0 .. d - 1 /\ s \in 0 .. d - 1 /\ x \in Int /\ y \in Int
      /\ a = d * x + r /\ b = d * y + s
  BY DivMod
<1> HIDE DEF r, s, x, y
<1>2. d * (y + q - x) = d * y + d * q - d * x
  BY <1>1, SMT
<1>3. r = d * (y + q - x) + s
  BY <1>1, <1>2, SMT
<1>4. y + q - x \in Int
  BY <1>1, SMT
<1>5. r = s
  BY <1>1, <1>3, <1>4, RemainderUnique
<1> QED BY <1>5 DEF r, s

\* A number below the divisor is its own remainder.
LEMMA RemainderOfSmall ==
    ASSUME NEW d \in Nat, NEW a \in 0 .. d - 1
    PROVE  a % d = a
BY SMT

\* The remainder of a number that is known up to a multiple of d.
LEMMA RemainderIs ==
    ASSUME NEW d \in Nat, NEW a \in Int, NEW q \in Int, NEW r \in 0 .. d - 1, a = r + d * q
    PROVE  a % d = r
<1>1. d > 0
  BY SMT
<1>2. a % d = r % d
  BY <1>1, SameRemainder, SMT
<1> QED BY <1>2, RemainderOfSmall

\* Remainders may be taken early.
LEMMA RemainderEarly ==
    ASSUME NEW d \in Nat, d > 0, NEW a \in Int, NEW b \in Int
    PROVE  /\ ((a % d) + b) % d = (a + b) % d
           /\ (a + (b % d)) % d = (a + b) % d
           /\ (a - (b % d)) % d = (a - b) % d
           /\ ((a % d) * b) % d = (a * b) % d
           /\ (a * (b % d)) % d = (a * b) % d
           /\ (a % d) % d = a % d
<1> DEFINE r == a % d
           s == b % d
           x == a \div d
           y == b \div d
<1>1. r \in 0 .. d - 1 /\ s \in 0 .. d - 1 /\ x \in Int /\ y \in Int
      /\ a = d * x + r /\ b = d * y + s
  BY DivMod
<1>2. r \in Int /\ s \in Int
  BY <1>1, SMT
<1> HIDE DEF r, s, x, y
<1>3. a + b = (r + b) + d * x
  BY <1>1, <1>2, SMT
<1>4. a + b = (a + s) + d * y
  BY <1>1, <1>2, SMT
<1>5. a - s = (a - b) + d * y
  BY <1>1, <1>2, SMT
<1>6. a * b = r * b + d * (x * b)
  BY <1>1, <1>2, SMT
<1>7. a * b = a * s + d * (y * a)
  BY <1>1, <1>2, SMT
<1>8. x * b \in Int /\ y * a \in Int /\ r * b \in Int /\ a * s \in Int /\ a * b \in Int
      /\ a + b \in Int /\ r + b \in Int /\ a + s \in Int /\ a - s \in Int /\ a - b \in Int
  BY <1>1, <1>2, SMT
<1>9. (r + b) % d = (a + b) % d
  BY <1>1, <1>3, <1>8, SameRemainder
<1>10. (a + s) % d = (a + b) % d
  BY <1>1, <1>4, <1>8, SameRemainder
<1>11. (a - s) % d = (a - b) % d
  BY <1>1, <1>5, <1>8, SameRemainder
<1>12. (r * b) % d = (a * b) % d
  BY <1>6, <1>8, SameRemainder
<1>13. (a * s) % d = (a * b) % d
  BY <1>7, <1>8, SameRemainder
<1>14. r % d = r
  BY <1>1, RemainderOfSmall
<1> QED BY <1>9, <1>10, <1>11, <1>12, <1>13, <1>14 DEF r, s

-------------------------------------------------------------------------------
(* The integers modulo P *)

\* The modulus is a number above 2.
LEMMA PFacts == P \in Nat /\ P > 2 /\ P > 0
BY SignalAssumption, SMT

\* A factor P does not divide may be cancelled: P is a prime.
LEMMA Euclid ==
    ASSUME NEW a \in Nat, NEW b \in Int, a % P # 0, (a * b) % P = 0
    PROVE  b % P = 0
<1> DEFINE T == {x \in Nat : x % P # 0 /\ (x * b) % P = 0}
<1>1. PICK x \in T : \A k \in T : x <= k
  <2>1. a \in T /\ T \in SUBSET Nat
    OBVIOUS
  <2> QED BY <2>1, LeastNumber
<1>2. x \in Nat /\ x % P # 0 /\ (x * b) % P = 0 /\ x # 0
  <2>1. 0 % P = 0
    BY PFacts, RemainderOfSmall, SMT
  <2> QED BY <1>1, <2>1
<1>3. CASE x = 1
  <2>1. x * b = b
    BY <1>3, SMT
  <2> QED BY <1>2, <2>1
<1>4. CASE x > 1 /\ x < P
  <2> DEFINE q == P \div x
             r == P % x
  <2>1. r \in 0 .. x - 1 /\ q \in Int /\ P = x * q + r
    BY <1>2, <1>4, PFacts, DivMod
  <2>2. r # 0
    <3>1. x \in 2 .. P - 1
      BY <1>2, <1>4, PFacts, SMT
    <3> QED BY <3>1, SignalAssumption
  <2> HIDE DEF q, r
  <2>3. PICK y \in Int : x * b = P * y
    <3>1. x * b \in Int
      BY <1>2, SMT
    <3>2. x * b = P * ((x * b) \div P) + 0 /\ (x * b) \div P \in Int
      BY <1>2, <3>1, PFacts, DivMod
    <3> DEFINE z == (x * b) \div P
    <3>3. P * z \in Int
      BY <3>2, PFacts, SMT
    <3> HIDE DEF z
    <3>4. x * b = P * z
      BY <3>2, <3>3, SMT DEF z
    <3> QED BY <3>2, <3>4 DEF z
  <2>4. r * b = 0 + P * (b - q * y)
    <3>1. r * b = P * b - (x * q) * b
      BY <2>1, PFacts, <1>2, SMT
    <3>2. (x * q) * b = q * (x * b)
      BY <2>1, <1>2, SMT
    <3>3. q * (x * b) = P * (q * y)
      BY <2>1, <2>3, PFacts, SMT
    <3>4. P * b - P * (q * y) = 0 + P * (b - q * y)
      BY <2>1, <2>3, PFacts, SMT
    <3> QED BY <3>1, <3>2, <3>3, <3>4
  <2>5. r \in Nat /\ r < x /\ r \in 0 .. P - 1 /\ r * b \in Int /\ b - q * y \in Int /\ 0 \in 0 .. P - 1
    BY <1>2, <1>4, <2>1, <2>3, PFacts, SMT
  <2>6. (r * b) % P = 0
    BY <2>4, <2>5, PFacts, RemainderIs
  <2>7. r % P = r
    BY <2>5, PFacts, RemainderOfSmall
  <2>8. r \in T
    BY <2>2, <2>5, <2>6, <2>7
  <2> QED BY <1>1, <2>5, <2>8, SMT
<1>5. CASE x >= P
  <2>1. x % P \in Nat /\ x % P < x
    BY <1>2, <1>5, PFacts, DivMod, SMT
  <2>2. ((x % P) * b) % P = 0 /\ (x % P) % P # 0
    <3>1. x \in Int
      BY <1>2
    <3> QED BY <1>2, <3>1, PFacts, RemainderEarly
  <2>3. x % P \in T
    BY <2>1, <2>2
  <2>4. x <= x % P
    BY <1>1, <2>3
  <2> QED BY <1>2, <2>1, <2>4, SMT
<1>6. x = 1 \/ (x > 1 /\ x < P) \/ x >= P
  BY <1>2, PFacts, SMT
<1> QED BY <1>3, <1>4, <1>5, <1>6

\* Every number P does not divide has an inverse.
LEMMA InverseExists ==
    ASSUME NEW x \in Int, x % P # 0
    PROVE  \E y \in 1 .. P - 1 : (x * y) % P = 1
<1> DEFINE T == {d \in Nat : d # 0 /\ \E y \in Int : (x * y) % P = d}
<1>1. x % P \in T
  <2>1. x * 1 = x
    BY SMT
  <2>2. x % P \in Nat
    BY PFacts, DivMod, SMT
  <2> QED BY <2>1, <2>2
<1>2. PICK d \in T : \A k \in T : d <= k
  BY <1>1, LeastNumber
<1>3. PICK y \in Int : (x * y) % P = d
  BY <1>2
<1>4. d \in Nat /\ d # 0
  BY <1>2
<1>5. x * y \in Int
  BY SMT
<1>6. d \in 0 .. P - 1
  BY <1>3, <1>5, PFacts, DivMod
<1>7. d = 1
  <2> SUFFICES ASSUME d # 1 PROVE FALSE
    OBVIOUS
  <2>1. d \in 2 .. P - 1
    BY <1>4, <1>6, PFacts, SMT
  <2>2. P % d # 0
    BY <2>1, SignalAssumption
  <2> DEFINE q == P \div d
             r == P % d
             z == (x * y) \div P
  <2>3. r \in 0 .. d - 1 /\ q \in Int /\ P = d * q + r
    BY <1>4, PFacts, DivMod, SMT
  <2>4. z \in Int /\ x * y = P * z + d
    BY <1>3, <1>5, PFacts, DivMod
  <2>5. r # 0
    BY <2>2
  <2> HIDE DEF q, r, z
  <2>6. x * (0 - q * y) = r + P * (0 - 1 - q * z)
    <3>1. x * (0 - q * y) = 0 - q * (x * y)
      BY <2>3, SMT
    <3>2. q * (x * y) = P * (q * z) + d * q
      BY <1>4, <2>3, <2>4, PFacts, SMT
    <3>3. P * (0 - 1 - q * z) = 0 - P - P * (q * z)
      BY <2>3, <2>4, PFacts, SMT
    <3>4. P * (q * z) \in Int
      BY <2>3, <2>4, PFacts, SMT
    <3> QED BY <2>3, <3>1, <3>2, <3>3, <3>4, <1>4, PFacts, SMT
  <2>7. r \in 0 .. P - 1 /\ r < d /\ 0 - q * y \in Int /\ 0 - 1 - q * z \in Int
        /\ x * (0 - q * y) \in Int
    BY <1>6, <2>3, <2>4, PFacts, SMT
  <2>8. (x * (0 - q * y)) % P = r
    BY <2>6, <2>7, PFacts, RemainderIs
  <2>9. r \in T
    <3>1. \E v \in Int : (x * v) % P = r
      BY <2>7, <2>8
    <3>2. r \in Nat
      BY <2>3, <1>4, SMT
    <3> QED BY <2>5, <3>1, <3>2, Zenon
  <2>10. d <= r
    BY <1>2, <2>9
  <2> QED BY <1>4, <2>7, <2>10, SMT
<1>8. y % P \in 0 .. P - 1 /\ (x * (y % P)) % P = 1
  BY <1>3, <1>7, PFacts, DivMod, RemainderEarly
<1>9. y % P # 0
  <2>1. x * 0 = 0 /\ 0 % P = 0
    BY PFacts, RemainderOfSmall, SMT
  <2> QED BY <1>8, <2>1
<1>10. y % P \in 1 .. P - 1
  BY <1>8, <1>9, SMT
<1> QED BY <1>8, <1>10

\* What Recip chooses is the reciprocal.
LEMMA RecipIsInverse ==
    ASSUME NEW x \in Int, x % P # 0
    PROVE  Recip(x) \in 1 .. P - 1 /\ (x * Recip(x)) % P = 1
BY InverseExists DEF Recip

-------------------------------------------------------------------------------
(* The ring of pairs *)

Neg(a) == << (0 - a[1]) % P, (0 - a[2]) % P >>

\* The components of an element of the field.
LEMMA PairFacts ==
    /\ Zero \in Complex /\ One \in Complex
    /\ \A a \in Complex : /\ a[1] \in Int /\ a[2] \in Int
                          /\ a[1] \in Scalar /\ a[2] \in Scalar /\ a = <<a[1], a[2]>>
    /\ \A x \in Int, y \in Int : << x % P, y % P >> \in Complex
<1>1. \A x \in Int : x % P \in Scalar
  BY PFacts, DivMod DEF Scalar
<1>2. 0 \in Scalar /\ 1 \in Scalar /\ Scalar \subseteq Int
  BY PFacts, SMT DEF Scalar
<1>3. Zero \in Complex /\ One \in Complex
  BY <1>2 DEF Complex, Zero, One
<1>4. \A a \in Complex : /\ a[1] \in Int /\ a[2] \in Int
                         /\ a[1] \in Scalar /\ a[2] \in Scalar /\ a = <<a[1], a[2]>>
  <2> SUFFICES ASSUME NEW a \in Complex
               PROVE  /\ a[1] \in Int /\ a[2] \in Int
                      /\ a[1] \in Scalar /\ a[2] \in Scalar /\ a = <<a[1], a[2]>>
    OBVIOUS
  <2>1. a[1] \in Scalar /\ a[2] \in Scalar /\ a = <<a[1], a[2]>>
    BY DEF Complex
  <2> QED BY <1>2, <2>1
<1>5. \A x \in Int, y \in Int : << x % P, y % P >> \in Complex
  <2> SUFFICES ASSUME NEW x \in Int, NEW y \in Int PROVE << x % P, y % P >> \in Complex
    OBVIOUS
  <2>1. \A s \in Scalar, t \in Scalar : <<s, t>> \in Complex
    BY DEF Complex
  <2>2. x % P \in Scalar /\ y % P \in Scalar
    BY <1>1
  <2> QED BY <2>1, <2>2, Zenon
<1> QED BY <1>3, <1>4, <1>5

\* The arithmetic stays in the field.
LEMMA PairTypes ==
    ASSUME NEW a \in Complex, NEW b \in Complex
    PROVE  /\ Add(a, b) \in Complex /\ Mul(a, b) \in Complex /\ Neg(a) \in Complex
           /\ Conj(a) \in Complex /\ Swap(a) \in Complex /\ Norm(a) \in Scalar
           /\ \A x \in Int : Scale(a, x) \in Complex
<1>1. /\ a[1] \in Int /\ a[2] \in Int /\ b[1] \in Int /\ b[2] \in Int
      /\ a[1] \in Scalar /\ a[2] \in Scalar
  BY PairFacts
<1>2. /\ a[1] + b[1] \in Int /\ a[2] + b[2] \in Int /\ 0 - a[1] \in Int /\ 0 - a[2] \in Int
      /\ a[1] * b[1] - a[2] * b[2] \in Int /\ a[1] * b[2] + a[2] * b[1] \in Int
      /\ a[1] * a[1] + a[2] * a[2] \in Int
      /\ \A x \in Int : a[1] * x \in Int /\ a[2] * x \in Int
  BY <1>1, SMT
<1>3. \A x \in Int : x % P \in Scalar
  BY PFacts, DivMod DEF Scalar
<1>4. \A x \in Int, y \in Int : << x % P, y % P >> \in Complex
  BY PairFacts
<1>5. Add(a, b) \in Complex /\ Mul(a, b) \in Complex /\ Neg(a) \in Complex
  BY <1>2, <1>4, Zenon DEF Add, Mul, Neg
<1>6. Conj(a) \in Complex /\ Swap(a) \in Complex /\ Norm(a) \in Scalar
  BY <1>1, <1>2, <1>3, Zenon DEF Complex, Conj, Swap, Norm
<1>7. \A x \in Int : Scale(a, x) \in Complex
  BY <1>2, <1>4, Zenon DEF Scale
<1> QED BY <1>5, <1>6, <1>7

\* Sums and products stay in the field, stated for all elements at once.
LEMMA Closed ==
    /\ \A a \in Complex, b \in Complex : Add(a, b) \in Complex
    /\ \A a \in Complex, b \in Complex : Mul(a, b) \in Complex
BY PairTypes

\* Addition is commutative and associative, with Zero.
LEMMA AddLaws ==
    ASSUME NEW a \in Complex, NEW b \in Complex, NEW c \in Complex
    PROVE  /\ Add(a, b) = Add(b, a)
           /\ Add(Add(a, b), c) = Add(a, Add(b, c))
           /\ Add(a, Zero) = a /\ Add(Zero, a) = a
           /\ Add(a, Neg(a)) = Zero
<1>1. /\ a[1] \in Int /\ a[2] \in Int /\ b[1] \in Int /\ b[2] \in Int
      /\ c[1] \in Int /\ c[2] \in Int
      /\ a[1] \in 0 .. P - 1 /\ a[2] \in 0 .. P - 1 /\ a = <<a[1], a[2]>>
  BY PairFacts DEF Scalar
<1>2. Add(a, b) = Add(b, a)
  BY <1>1, SMT DEF Add
<1>3. \A x \in Int, y \in Int, z \in Int : (((x + y) % P) + z) % P = (x + ((y + z) % P)) % P
  <2> SUFFICES ASSUME NEW x \in Int, NEW y \in Int, NEW z \in Int
               PROVE  (((x + y) % P) + z) % P = (x + ((y + z) % P)) % P
    OBVIOUS
  <2>1. x + y \in Int /\ y + z \in Int /\ (x + y) + z = x + (y + z)
    BY SMT
  <2>2. (((x + y) % P) + z) % P = ((x + y) + z) % P
    BY <2>1, PFacts, RemainderEarly
  <2>3. (x + ((y + z) % P)) % P = (x + (y + z)) % P
    BY <2>1, PFacts, RemainderEarly
  <2> QED BY <2>1, <2>2, <2>3
<1>4. Add(Add(a, b), c) = Add(a, Add(b, c))
  <2>1. Add(Add(a, b), c) = << (((a[1] + b[1]) % P) + c[1]) % P, (((a[2] + b[2]) % P) + c[2]) % P >>
    BY DEF Add
  <2>2. Add(a, Add(b, c)) = << (a[1] + ((b[1] + c[1]) % P)) % P, (a[2] + ((b[2] + c[2]) % P)) % P >>
    BY DEF Add
  <2>3. (((a[1] + b[1]) % P) + c[1]) % P = (a[1] + ((b[1] + c[1]) % P)) % P
    BY <1>1, <1>3
  <2>4. (((a[2] + b[2]) % P) + c[2]) % P = (a[2] + ((b[2] + c[2]) % P)) % P
    BY <1>1, <1>3
  <2> QED BY <2>1, <2>2, <2>3, <2>4
<1>5. a[1] % P = a[1] /\ a[2] % P = a[2]
  BY <1>1, PFacts, RemainderOfSmall
<1>6. a[1] + 0 = a[1] /\ a[2] + 0 = a[2] /\ 0 + a[1] = a[1] /\ 0 + a[2] = a[2]
  BY <1>1, SMT
<1>7. Add(a, Zero) = a /\ Add(Zero, a) = a
  BY <1>1, <1>5, <1>6 DEF Add, Zero
<1>8. \A x \in Int : (x + ((0 - x) % P)) % P = 0
  <2> SUFFICES ASSUME NEW x \in Int PROVE (x + ((0 - x) % P)) % P = 0
    OBVIOUS
  <2>1. 0 - x \in Int /\ x + (0 - x) = 0
    BY SMT
  <2>2. 0 % P = 0
    BY PFacts, RemainderOfSmall, SMT
  <2>3. (x + ((0 - x) % P)) % P = (x + (0 - x)) % P
    BY <2>1, PFacts, RemainderEarly
  <2> QED BY <2>1, <2>2, <2>3
<1>9. Add(a, Neg(a)) = Zero
  <2>1. Add(a, Neg(a)) = << (a[1] + ((0 - a[1]) % P)) % P, (a[2] + ((0 - a[2]) % P)) % P >>
    BY DEF Add, Neg
  <2>2. (a[1] + ((0 - a[1]) % P)) % P = 0 /\ (a[2] + ((0 - a[2]) % P)) % P = 0
    BY <1>1, <1>8
  <2> QED BY <2>1, <2>2, Zenon DEF Zero
<1> QED BY <1>2, <1>4, <1>7, <1>9

\* Sums and differences of products, under a remainder.
ProductsApart(u, c, v, d)    == (u * c - v * d) % P
ProductsTogether(u, c, v, d) == (u * c + v * d) % P

\* Products and sums of products may take remainders early.
LEMMA RemainderOfProducts ==
    ASSUME NEW u \in Int, NEW v \in Int, NEW c1 \in Int, NEW c2 \in Int
    PROVE  /\ ProductsApart(u % P, c1, v % P, c2) = ProductsApart(u, c1, v, c2)
           /\ ProductsTogether(u % P, c1, v % P, c2) = ProductsTogether(u, c1, v, c2)
<1> DEFINE r == u % P
           s == v % P
           x == u \div P
           y == v \div P
<1>1. r \in 0 .. P - 1 /\ s \in 0 .. P - 1 /\ x \in Int /\ y \in Int
      /\ u = P * x + r /\ v = P * y + s
  BY PFacts, DivMod
<1>2. r \in Int /\ s \in Int /\ P \in Int
  BY <1>1, PFacts, SMT
<1> HIDE DEF r, s, x, y
<1> DEFINE minus == x * c1 - y * c2
           plus  == x * c1 + y * c2
           rc == r * c1
           sc == s * c2
           uc == u * c1
           vc == v * c2
           xc == P * (x * c1)
           yc == P * (y * c2)
<1>3. uc = xc + rc /\ vc = yc + sc
  BY <1>1, <1>2, SMT
<1>4. P * minus = xc - yc /\ P * plus = xc + yc
  BY <1>1, <1>2, SMT
<1>5. /\ rc \in Int /\ sc \in Int /\ uc \in Int /\ vc \in Int /\ xc \in Int /\ yc \in Int
      /\ minus \in Int /\ plus \in Int
  BY <1>1, <1>2, SMT
<1> HIDE DEF minus, plus, rc, sc, uc, vc, xc, yc
<1>6. uc - vc = (rc - sc) + P * minus /\ uc + vc = (rc + sc) + P * plus
  BY <1>3, <1>4, <1>5, SMT
<1>7. uc - vc \in Int /\ uc + vc \in Int /\ rc - sc \in Int /\ rc + sc \in Int
  BY <1>5, SMT
<1>8. (uc - vc) % P = (rc - sc) % P
  BY <1>5, <1>6, <1>7, PFacts, SameRemainder, Zenon
<1>9. (uc + vc) % P = (rc + sc) % P
  <2>1. /\ uc + vc \in Int /\ rc + sc \in Int /\ plus \in Int
        /\ uc + vc = (rc + sc) + P * plus
    BY <1>5, <1>6, <1>7
  <2> QED BY <2>1, PFacts, SameRemainder, Zenon
<1> QED BY <1>8, <1>9, Zenon DEF r, s, uc, vc, rc, sc, ProductsApart, ProductsTogether

\* A product of pairs may take the remainders of a factor early.
LEMMA MulOfRemainders ==
    ASSUME NEW u \in Int, NEW v \in Int, NEW c \in Complex
    PROVE  Mul(<< u % P, v % P >>, c)
             = << (u * c[1] - v * c[2]) % P, (u * c[2] + v * c[1]) % P >>
<1>1. c[1] \in Int /\ c[2] \in Int
  BY PairFacts
<1>2. ProductsApart(u % P, c[1], v % P, c[2]) = ProductsApart(u, c[1], v, c[2])
  BY <1>1, RemainderOfProducts
<1>3. ProductsTogether(u % P, c[2], v % P, c[1]) = ProductsTogether(u, c[2], v, c[1])
  BY <1>1, RemainderOfProducts
<1> QED BY <1>2, <1>3, Zenon DEF Mul, ProductsApart, ProductsTogether

\* Multiplication is commutative and associative, with One.
LEMMA MulLaws ==
    ASSUME NEW a \in Complex, NEW b \in Complex, NEW c \in Complex
    PROVE  /\ Mul(a, b) = Mul(b, a)
           /\ Mul(Mul(a, b), c) = Mul(a, Mul(b, c))
           /\ Mul(a, One) = a /\ Mul(One, a) = a
           /\ Mul(a, Zero) = Zero /\ Mul(Zero, a) = Zero
           /\ Mul(a, Add(b, c)) = Add(Mul(a, b), Mul(a, c))
           /\ Mul(Add(a, b), c) = Add(Mul(a, c), Mul(b, c))
           /\ Mul(a, Neg(b)) = Neg(Mul(a, b))
<1> DEFINE a1 == a[1]
           a2 == a[2]
           b1 == b[1]
           b2 == b[2]
           c1 == c[1]
           c2 == c[2]
<1>t. /\ a1 \in Int /\ a2 \in Int /\ b1 \in Int /\ b2 \in Int /\ c1 \in Int /\ c2 \in Int
      /\ a1 \in 0 .. P - 1 /\ a2 \in 0 .. P - 1 /\ a = <<a1, a2>>
  BY PairFacts DEF Scalar
<1>m. /\ Mul(a, b) = << (a1 * b1 - a2 * b2) % P, (a1 * b2 + a2 * b1) % P >>
      /\ Mul(b, a) = << (b1 * a1 - b2 * a2) % P, (b1 * a2 + b2 * a1) % P >>
      /\ Mul(b, c) = << (b1 * c1 - b2 * c2) % P, (b1 * c2 + b2 * c1) % P >>
      /\ Mul(a, c) = << (a1 * c1 - a2 * c2) % P, (a1 * c2 + a2 * c1) % P >>
      /\ Add(b, c) = << (b1 + c1) % P, (b2 + c2) % P >>
      /\ Neg(b) = << (0 - b1) % P, (0 - b2) % P >>
      /\ Mul(a, One) = << (a1 * 1 - a2 * 0) % P, (a1 * 0 + a2 * 1) % P >>
      /\ Mul(a, Zero) = << (a1 * 0 - a2 * 0) % P, (a1 * 0 + a2 * 0) % P >>
  BY DEF Mul, Add, Neg, One, Zero
<1> HIDE DEF a1, a2, b1, b2, c1, c2
<1>1. \A x \in Complex, y \in Complex : Mul(x, y) = Mul(y, x)
  <2> SUFFICES ASSUME NEW x \in Complex, NEW y \in Complex PROVE Mul(x, y) = Mul(y, x)
    OBVIOUS
  <2>1. x[1] \in Int /\ x[2] \in Int /\ y[1] \in Int /\ y[2] \in Int
    BY PairFacts
  <2>2. /\ x[1] * y[1] - x[2] * y[2] = y[1] * x[1] - y[2] * x[2]
        /\ x[1] * y[2] + x[2] * y[1] = y[1] * x[2] + y[2] * x[1]
    BY <2>1, SMT
  <2> QED BY <2>2, Zenon DEF Mul
<1>2. Mul(Mul(a, b), c) = Mul(a, Mul(b, c))
  <2> DEFINE u == a1 * b1 - a2 * b2
             v == a1 * b2 + a2 * b1
             s == b1 * c1 - b2 * c2
             t == b1 * c2 + b2 * c1
  <2>1. u \in Int /\ v \in Int /\ s \in Int /\ t \in Int
    BY <1>t, SMT
  <2>2. u * c1 - v * c2 = s * a1 - t * a2 /\ u * c2 + v * c1 = s * a2 + t * a1
    BY <1>t, SMT
  <2>3. Mul(a, b) = << u % P, v % P >> /\ Mul(b, c) = << s % P, t % P >>
    BY <1>m
  <2>4. Mul(a, Mul(b, c)) = Mul(Mul(b, c), a)
    BY <1>1, PairTypes
  <2> HIDE DEF u, v, s, t
  <2>5. Mul(Mul(a, b), c) = << (u * c1 - v * c2) % P, (u * c2 + v * c1) % P >>
    <3>1. Mul(<< u % P, v % P >>, c) = << (u * c[1] - v * c[2]) % P, (u * c[2] + v * c[1]) % P >>
      BY <2>1, MulOfRemainders
    <3> QED BY <2>3, <3>1, Zenon DEF c1, c2
  <2>6. Mul(Mul(b, c), a) = << (s * a1 - t * a2) % P, (s * a2 + t * a1) % P >>
    <3>1. Mul(<< s % P, t % P >>, a) = << (s * a[1] - t * a[2]) % P, (s * a[2] + t * a[1]) % P >>
      BY <2>1, MulOfRemainders
    <3> QED BY <2>3, <3>1, Zenon DEF a1, a2
  <2> QED BY <2>2, <2>4, <2>5, <2>6
<1>3. Mul(a, One) = a
  <2>1. a1 * 1 - a2 * 0 = a1 /\ a1 * 0 + a2 * 1 = a2
    BY <1>t, SMT
  <2>2. a1 % P = a1 /\ a2 % P = a2
    BY <1>t, PFacts, RemainderOfSmall
  <2> QED BY <1>m, <1>t, <2>1, <2>2
<1>4. Mul(a, Zero) = Zero
  <2>1. a1 * 0 - a2 * 0 = 0 /\ a1 * 0 + a2 * 0 = 0
    BY <1>t, SMT
  <2>2. 0 % P = 0
    BY PFacts, RemainderOfSmall, SMT
  <2> QED BY <1>m, <2>1, <2>2 DEF Zero
<1>5. \A x \in Complex, y \in Complex, z \in Complex :
        Mul(Add(y, z), x) = Add(Mul(y, x), Mul(z, x))
  <2> SUFFICES ASSUME NEW x \in Complex, NEW y \in Complex, NEW z \in Complex
               PROVE  Mul(Add(y, z), x) = Add(Mul(y, x), Mul(z, x))
    OBVIOUS
  <2> DEFINE x1 == x[1]
             x2 == x[2]
             u == y[1] + z[1]
             v == y[2] + z[2]
             g == y[1] * x1 - y[2] * x2
             h == z[1] * x1 - z[2] * x2
             k == y[1] * x2 + y[2] * x1
             l == z[1] * x2 + z[2] * x1
  <2>1. x1 \in Int /\ x2 \in Int /\ y[1] \in Int /\ y[2] \in Int /\ z[1] \in Int /\ z[2] \in Int
    BY PairFacts
  <2>2. u \in Int /\ v \in Int /\ g \in Int /\ h \in Int /\ k \in Int /\ l \in Int
    BY <2>1, SMT
  <2>3. u * x1 - v * x2 = g + h /\ u * x2 + v * x1 = k + l
    BY <2>1, SMT
  <2>4. Add(y, z) = << u % P, v % P >>
    BY DEF Add
  <2>5. Add(Mul(y, x), Mul(z, x)) = << ((g % P) + (h % P)) % P, ((k % P) + (l % P)) % P >>
    BY DEF Mul, Add
  <2> HIDE DEF x1, x2, u, v, g, h, k, l
  <2>6. ((g % P) + (h % P)) % P = (g + h) % P /\ ((k % P) + (l % P)) % P = (k + l) % P
    <3>1. \A i \in Int, j \in Int : ((i % P) + (j % P)) % P = (i + j) % P
      <4> SUFFICES ASSUME NEW i \in Int, NEW j \in Int
                   PROVE  ((i % P) + (j % P)) % P = (i + j) % P
        OBVIOUS
      <4>1. j % P \in Int
        BY PFacts, SMT
      <4>2. ((i % P) + (j % P)) % P = (i + (j % P)) % P
        BY <4>1, PFacts, RemainderEarly
      <4>3. (i + (j % P)) % P = (i + j) % P
        BY PFacts, RemainderEarly
      <4> QED BY <4>2, <4>3
    <3> QED BY <2>2, <3>1
  <2>7. Mul(Add(y, z), x) = << (u * x1 - v * x2) % P, (u * x2 + v * x1) % P >>
    <3>1. Mul(<< u % P, v % P >>, x) = << (u * x[1] - v * x[2]) % P, (u * x[2] + v * x[1]) % P >>
      BY <2>2, MulOfRemainders
    <3> QED BY <2>4, <3>1, Zenon DEF x1, x2
  <2> QED BY <2>3, <2>5, <2>6, <2>7
<1>6. Mul(a, Neg(b)) = Neg(Mul(a, b))
  <2> DEFINE u == 0 - b1
             v == 0 - b2
             g == a1 * b1 - a2 * b2
             h == a1 * b2 + a2 * b1
  <2>1. u \in Int /\ v \in Int /\ g \in Int /\ h \in Int /\ 0 - g \in Int /\ 0 - h \in Int
    BY <1>t, SMT
  <2>2. u * a1 - v * a2 = 0 - g /\ u * a2 + v * a1 = 0 - h
    BY <1>t, SMT
  <2>3. Neg(b) = << u % P, v % P >>
    BY <1>m
  <2>4. Neg(Mul(a, b)) = << (0 - (g % P)) % P, (0 - (h % P)) % P >>
    BY <1>m DEF Neg
  <2>5. Mul(a, Neg(b)) = Mul(Neg(b), a)
    BY <1>1, PairTypes
  <2> HIDE DEF u, v, g, h
  <2>6. (0 - (g % P)) % P = (0 - g) % P /\ (0 - (h % P)) % P = (0 - h) % P
    <3>1. \A i \in Int : (0 - (i % P)) % P = (0 - i) % P
      <4>1. 0 \in Int
        OBVIOUS
      <4> QED BY <4>1, PFacts, RemainderEarly, Zenon
    <3> QED BY <2>1, <3>1
  <2>7. Mul(Neg(b), a) = << (u * a1 - v * a2) % P, (u * a2 + v * a1) % P >>
    <3>1. Mul(<< u % P, v % P >>, a) = << (u * a[1] - v * a[2]) % P, (u * a[2] + v * a[1]) % P >>
      BY <2>1, MulOfRemainders
    <3> QED BY <2>3, <3>1, Zenon DEF a1, a2
  <2> QED BY <2>2, <2>4, <2>5, <2>6, <2>7
<1>7. Add(b, c) \in Complex /\ Add(a, b) \in Complex /\ Zero \in Complex /\ One \in Complex
  BY PairTypes, PairFacts
<1> QED BY <1>1, <1>2, <1>3, <1>4, <1>5, <1>6, <1>7

-------------------------------------------------------------------------------
(* Conjugates, norms and reciprocals *)

\* The pair that two integers stand for, and the operators in these terms.
Pair(u, v) == << u % P, v % P >>

\* An element is the pair of its components.
LEMMA PairOf ==
    ASSUME NEW a \in Complex
    PROVE  a = Pair(a[1], a[2]) /\ a[1] \in Int /\ a[2] \in Int
<1>1. /\ a[1] \in 0 .. P - 1 /\ a[2] \in 0 .. P - 1 /\ a = <<a[1], a[2]>>
      /\ a[1] \in Int /\ a[2] \in Int
  BY PairFacts DEF Scalar
<1>2. a[1] % P = a[1] /\ a[2] % P = a[2]
  BY <1>1, PFacts, RemainderOfSmall
<1> QED BY <1>1, <1>2, Zenon DEF Pair

\* Sums and products of pairs of integers may be reduced at the end.
LEMMA PairLaws ==
    ASSUME NEW u \in Int, NEW v \in Int, NEW s \in Int, NEW t \in Int
    PROVE  /\ Pair(u, v) \in Complex
           /\ Add(Pair(u, v), Pair(s, t)) = Pair(u + s, v + t)
           /\ Mul(Pair(u, v), Pair(s, t)) = Pair(u * s - v * t, u * t + v * s)
           /\ Neg(Pair(u, v)) = Pair(0 - u, 0 - v)
           /\ Conj(Pair(u, v)) = Pair(u, 0 - v)
           /\ Swap(Pair(u, v)) = Pair(v, u)
           /\ Scale(Pair(u, v), s) = Pair(u * s, v * s)
<1>1. Pair(u, v) \in Complex /\ Pair(s, t) \in Complex
  BY PairFacts DEF Pair
<1>2. \A i \in Int, j \in Int : /\ ((i % P) + (j % P)) % P = (i + j) % P
                                /\ (0 - (i % P)) % P = (0 - i) % P
                                /\ ((i % P) * j) % P = (i * j) % P
  <2> SUFFICES ASSUME NEW i \in Int, NEW j \in Int
               PROVE  /\ ((i % P) + (j % P)) % P = (i + j) % P
                      /\ (0 - (i % P)) % P = (0 - i) % P
                      /\ ((i % P) * j) % P = (i * j) % P
    OBVIOUS
  <2>1. i % P \in Int /\ j % P \in Int /\ 0 \in Int
    BY PFacts, SMT
  <2>2. ((i % P) + (j % P)) % P = (i + (j % P)) % P
    BY <2>1, PFacts, RemainderEarly
  <2>3. (i + (j % P)) % P = (i + j) % P
    BY PFacts, RemainderEarly
  <2>4. (0 - (i % P)) % P = (0 - i) % P
    BY <2>1, PFacts, RemainderEarly, Zenon
  <2>5. ((i % P) * j) % P = (i * j) % P
    BY PFacts, RemainderEarly
  <2> QED BY <2>2, <2>3, <2>4, <2>5
<1>3. Add(Pair(u, v), Pair(s, t)) = Pair(u + s, v + t)
  <2>1. Add(Pair(u, v), Pair(s, t)) = << ((u % P) + (s % P)) % P, ((v % P) + (t % P)) % P >>
    BY DEF Add, Pair
  <2>2. ((u % P) + (s % P)) % P = (u + s) % P /\ ((v % P) + (t % P)) % P = (v + t) % P
    BY <1>2
  <2> QED BY <2>1, <2>2, Zenon DEF Pair
<1>4. Mul(Pair(u, v), Pair(s, t)) = Pair(u * s - v * t, u * t + v * s)
  <2> DEFINE u1 == u % P
             v1 == v % P
             s1 == s % P
             t1 == t % P
  <2>1. u1 \in Int /\ v1 \in Int /\ s1 \in Int /\ t1 \in Int
    BY PFacts, SMT
  <2>2. Mul(Pair(u, v), Pair(s, t)) = << (u1 * s1 - v1 * t1) % P, (u1 * t1 + v1 * s1) % P >>
    BY DEF Mul, Pair
  <2>3. /\ ProductsApart(u1, s1, v1, t1) = ProductsApart(u, s1, v, t1)
        /\ ProductsTogether(u1, t1, v1, s1) = ProductsTogether(u, t1, v, s1)
    BY <2>1, RemainderOfProducts
  <2>4. /\ ProductsApart(s1, u, t1, v) = ProductsApart(s, u, t, v)
        /\ ProductsTogether(t1, u, s1, v) = ProductsTogether(t, u, s, v)
    BY RemainderOfProducts
  <2> HIDE DEF u1, v1, s1, t1
  <2>5. /\ u * s1 - v * t1 = s1 * u - t1 * v /\ u * t1 + v * s1 = t1 * u + s1 * v
        /\ u * s - v * t = s * u - t * v /\ u * t + v * s = t * u + s * v
    BY <2>1, SMT
  <2>6. /\ ProductsApart(u, s1, v, t1) = ProductsApart(s1, u, t1, v)
        /\ ProductsTogether(u, t1, v, s1) = ProductsTogether(t1, u, s1, v)
        /\ ProductsApart(s, u, t, v) = (u * s - v * t) % P
        /\ ProductsTogether(t, u, s, v) = (u * t + v * s) % P
    BY <2>5, Zenon DEF ProductsApart, ProductsTogether
  <2>7. Mul(Pair(u, v), Pair(s, t))
          = << ProductsApart(u1, s1, v1, t1), ProductsTogether(u1, t1, v1, s1) >>
    BY <2>2, Zenon DEF ProductsApart, ProductsTogether
  <2> QED BY <2>3, <2>4, <2>6, <2>7, Zenon DEF Pair
<1>5. Neg(Pair(u, v)) = Pair(0 - u, 0 - v)
  <2>1. Neg(Pair(u, v)) = << (0 - (u % P)) % P, (0 - (v % P)) % P >>
    BY DEF Neg, Pair
  <2>2. (0 - (u % P)) % P = (0 - u) % P /\ (0 - (v % P)) % P = (0 - v) % P
    BY <1>2
  <2> QED BY <2>1, <2>2, Zenon DEF Pair
<1>6. Conj(Pair(u, v)) = Pair(u, 0 - v)
  <2>1. Conj(Pair(u, v)) = << u % P, (0 - (v % P)) % P >>
    BY DEF Conj, Pair
  <2>2. (0 - (v % P)) % P = (0 - v) % P
    BY <1>2
  <2> QED BY <2>1, <2>2, Zenon DEF Pair
<1>7. Swap(Pair(u, v)) = Pair(v, u)
  BY DEF Swap, Pair
<1>8. Scale(Pair(u, v), s) = Pair(u * s, v * s)
  <2>1. Scale(Pair(u, v), s) = << ((u % P) * s) % P, ((v % P) * s) % P >>
    BY DEF Scale, Pair
  <2>2. ((u % P) * s) % P = (u * s) % P /\ ((v % P) * s) % P = (v * s) % P
    BY <1>2
  <2> QED BY <2>1, <2>2, Zenon DEF Pair
<1> QED BY <1>1, <1>3, <1>4, <1>5, <1>6, <1>7, <1>8

\* Conjugation keeps sums and products, and undoes itself.
LEMMA ConjLaws ==
    ASSUME NEW a \in Complex, NEW b \in Complex
    PROVE  /\ Conj(Mul(a, b)) = Mul(Conj(a), Conj(b))
           /\ Conj(Add(a, b)) = Add(Conj(a), Conj(b))
           /\ Conj(Conj(a)) = a
           /\ Conj(Zero) = Zero /\ Conj(One) = One
           /\ Mul(a, Conj(a)) = <<Norm(a), 0>>
           /\ Swap(a) = Mul(<<0, 1>>, Conj(a))
<1> DEFINE u == a[1]
           v == a[2]
           s == b[1]
           t == b[2]
<1>1. a = Pair(u, v) /\ b = Pair(s, t) /\ u \in Int /\ v \in Int /\ s \in Int /\ t \in Int
  BY PairOf
<1> HIDE DEF u, v, s, t
<1>2. Conj(a) = Pair(u, 0 - v) /\ Conj(b) = Pair(s, 0 - t) /\ 0 - v \in Int /\ 0 - t \in Int
  <2>1. Conj(a) = Pair(u, 0 - v)
    BY <1>1, PairLaws, Zenon
  <2>2. Conj(b) = Pair(s, 0 - t)
    BY <1>1, PairLaws, Zenon
  <2>3. 0 - v \in Int /\ 0 - t \in Int
    BY <1>1, SMT
  <2> QED BY <2>1, <2>2, <2>3
<1>3. Conj(Mul(a, b)) = Mul(Conj(a), Conj(b))
  <2>1. Mul(a, b) = Pair(u * s - v * t, u * t + v * s)
    BY <1>1, PairLaws
  <2>2. u * s - v * t \in Int /\ u * t + v * s \in Int
    BY <1>1, SMT
  <2>3. Conj(Mul(a, b)) = Pair(u * s - v * t, 0 - (u * t + v * s))
    BY <2>1, <2>2, PairLaws
  <2>4. Mul(Conj(a), Conj(b)) = Pair(u * s - (0 - v) * (0 - t), u * (0 - t) + (0 - v) * s)
    BY <1>1, <1>2, PairLaws
  <2>5. u * s - v * t = u * s - (0 - v) * (0 - t) /\ 0 - (u * t + v * s) = u * (0 - t) + (0 - v) * s
    BY <1>1, SMT
  <2> QED BY <2>3, <2>4, <2>5
<1>4. Conj(Add(a, b)) = Add(Conj(a), Conj(b))
  <2>1. Add(a, b) = Pair(u + s, v + t) /\ u + s \in Int /\ v + t \in Int
    BY <1>1, PairLaws
  <2>2. Conj(Add(a, b)) = Pair(u + s, 0 - (v + t))
    BY <2>1, PairLaws
  <2>3. Add(Conj(a), Conj(b)) = Pair(u + s, (0 - v) + (0 - t))
    BY <1>1, <1>2, PairLaws
  <2>4. 0 - (v + t) = (0 - v) + (0 - t)
    BY <1>1, SMT
  <2> QED BY <2>2, <2>3, <2>4
<1>5. Conj(Conj(a)) = a
  <2>1. Conj(Conj(a)) = Pair(u, 0 - (0 - v))
    BY <1>1, <1>2, PairLaws
  <2>2. 0 - (0 - v) = v
    BY <1>1, SMT
  <2> QED BY <1>1, <2>1, <2>2
<1>6. Conj(Zero) = Zero /\ Conj(One) = One
  <2>1. 0 - 0 = 0 /\ 0 % P = 0
    BY PFacts, RemainderOfSmall, SMT
  <2>2. Conj(Zero) = <<0, (0 - 0) % P>> /\ Conj(One) = <<1, (0 - 0) % P>>
    BY DEF Conj, Zero, One
  <2> QED BY <2>1, <2>2, Zenon DEF Zero, One
<1>7. Mul(a, Conj(a)) = <<Norm(a), 0>>
  <2>1. Mul(a, Conj(a)) = Pair(u * u - v * (0 - v), u * (0 - v) + v * u)
    BY <1>1, <1>2, PairLaws
  <2>2. u * u - v * (0 - v) = u * u + v * v /\ u * (0 - v) + v * u = 0
    BY <1>1, SMT
  <2>3. 0 % P = 0
    BY PFacts, RemainderOfSmall, SMT
  <2>4. Norm(a) = (u * u + v * v) % P
    BY Zenon DEF Norm, u, v
  <2> QED BY <2>1, <2>2, <2>3, <2>4, Zenon DEF Pair
<1>8. Swap(a) = Mul(<<0, 1>>, Conj(a))
  <2>1. <<0, 1>> = Pair(0, 1)
    <3>1. 0 % P = 0 /\ 1 % P = 1
      BY PFacts, RemainderOfSmall, SMT
    <3> QED BY <3>1, Zenon DEF Pair
  <2>2. Mul(Pair(0, 1), Conj(a)) = Pair(0 * u - 1 * (0 - v), 0 * (0 - v) + 1 * u)
    BY <1>1, <1>2, PairLaws
  <2>3. 0 * u - 1 * (0 - v) = v /\ 0 * (0 - v) + 1 * u = u
    BY <1>1, SMT
  <2>4. Swap(a) = Pair(v, u)
    BY <1>1, PairLaws
  <2> QED BY <2>1, <2>2, <2>3, <2>4
<1> QED BY <1>3, <1>4, <1>5, <1>6, <1>7, <1>8

-------------------------------------------------------------------------------
(* The pairs are a field *)

\* Scaling is a product with a real element.
LEMMA ScaleIsMul ==
    ASSUME NEW a \in Complex, NEW x \in Int
    PROVE  Scale(a, x) = Mul(a, Pair(x, 0)) /\ Pair(x, 0) \in Complex
<1> DEFINE u == a[1]
           v == a[2]
<1>1. a = Pair(u, v) /\ u \in Int /\ v \in Int
  BY PairOf
<1> HIDE DEF u, v
<1>2. 0 \in Int
  OBVIOUS
<1>3. Mul(Pair(u, v), Pair(x, 0)) = Pair(u * x - v * 0, u * 0 + v * x)
  BY <1>1, <1>2, PairLaws
<1>4. u * x - v * 0 = u * x /\ u * 0 + v * x = v * x
  BY <1>1, SMT
<1>5. Scale(Pair(u, v), x) = Pair(u * x, v * x)
  BY <1>1, PairLaws
<1>6. Pair(x, 0) \in Complex
  BY <1>2, PairLaws
<1> QED BY <1>1, <1>3, <1>4, <1>5, <1>6

\* The reals among the pairs.
LEMMA RealLaws ==
    ASSUME NEW x \in Int, NEW y \in Int
    PROVE  /\ Mul(Pair(x, 0), Pair(y, 0)) = Pair(x * y, 0)
           /\ Add(Pair(x, 0), Pair(y, 0)) = Pair(x + y, 0)
           /\ Pair(0, 0) = Zero /\ Pair(1, 0) = One
           /\ Pair(x, 0) = Pair(x % P, 0)
<1>1. 0 \in Int /\ x * y - 0 * 0 = x * y /\ x * 0 + 0 * y = 0 /\ 0 + 0 = 0
  BY SMT
<1>2. Mul(Pair(x, 0), Pair(y, 0)) = Pair(x * y - 0 * 0, x * 0 + 0 * y)
  BY <1>1, PairLaws
<1>3. Add(Pair(x, 0), Pair(y, 0)) = Pair(x + y, 0 + 0)
  BY <1>1, PairLaws
<1>4. 0 % P = 0 /\ 1 % P = 1
  BY PFacts, RemainderOfSmall, SMT
<1>5. x % P \in 0 .. P - 1
  BY PFacts, DivMod
<1>6. (x % P) % P = x % P
  BY <1>5, PFacts, RemainderOfSmall
<1>7. Pair(x, 0) = Pair(x % P, 0)
  BY <1>6, Zenon DEF Pair
<1>8. Pair(0, 0) = Zero /\ Pair(1, 0) = One
  BY <1>4, Zenon DEF Pair, Zero, One
<1> QED BY <1>1, <1>2, <1>3, <1>7, <1>8

\* Only zero has the norm zero: -1 is not a square.
LEMMA NormZero ==
    ASSUME NEW a \in Complex, Norm(a) = 0
    PROVE  a = Zero
<1> DEFINE x == a[1]
           y == a[2]
<1>1. /\ x \in 0 .. P - 1 /\ y \in 0 .. P - 1 /\ x \in Int /\ y \in Int /\ a = <<x, y>>
      /\ x \in Nat /\ y \in Nat
  <2>1. x \in 0 .. P - 1 /\ y \in 0 .. P - 1 /\ x \in Int /\ y \in Int /\ a = <<x, y>>
    BY PairFacts DEF Scalar
  <2> HIDE DEF x, y
  <2>2. x \in Nat /\ y \in Nat
    BY <2>1, PFacts, SMT
  <2> QED BY <2>1, <2>2
<1>2. (x * x + y * y) % P = 0
  BY DEF Norm
<1> HIDE DEF x, y
<1>3. x % P = x /\ y % P = y
  BY <1>1, PFacts, RemainderOfSmall
<1>4. y = 0
  <2> SUFFICES ASSUME y # 0 PROVE FALSE
    OBVIOUS
  <2>1. PICK z \in 1 .. P - 1 : (y * z) % P = 1
    BY <1>1, <1>3, InverseExists
  <2> DEFINE yz == y * z
             xz == x * z
             t  == xz % P
             zz == z * z
             s  == x * x + y * y
  <2>2. /\ z \in Int /\ yz \in Int /\ xz \in Int /\ zz \in Int /\ s \in Int
        /\ xz * xz \in Int /\ yz * yz \in Int /\ s * zz \in Int
        /\ s * zz = xz * xz + yz * yz
    BY <1>1, <2>1, SMT
  <2>3. t \in 0 .. P - 1 /\ t \in Int
    BY <2>2, PFacts, DivMod, SMT
  <2>4. yz % P = 1 /\ s % P = 0
    BY <1>2, <2>1
  <2> HIDE DEF yz, zz, s
  <2>5. (s * zz) % P = 0
    <3>1. ((s % P) * zz) % P = (s * zz) % P
      BY <2>2, PFacts, RemainderEarly
    <3>2. 0 * zz = 0
      BY <2>2, SMT
    <3>3. 0 % P = 0
      BY PFacts, RemainderOfSmall, SMT
    <3> QED BY <2>4, <3>1, <3>2, <3>3
  <2>6. (yz * yz) % P = 1
    <3>1. ((yz % P) * yz) % P = (yz * yz) % P
      BY <2>2, PFacts, RemainderEarly
    <3>2. 1 * yz = yz
      BY <2>2, SMT
    <3> QED BY <2>4, <3>1, <3>2
  <2>7. (t * t) % P = (xz * xz) % P
    <3> HIDE DEF xz
    <3>1. ((xz % P) * t) % P = (xz * t) % P /\ (xz * (xz % P)) % P = (xz * xz) % P
      BY <2>2, <2>3, PFacts, RemainderEarly
    <3> QED BY <3>1
  <2> HIDE DEF xz, t
  <2> DEFINE g == xz * xz
             h == yz * yz
             k == t * t
             e == s * zz
  <2>8. g \in Int /\ h \in Int /\ k \in Int /\ e = g + h
    BY <2>2, <2>3, SMT
  <2>9. e % P = 0 /\ h % P = 1 /\ k % P = g % P
    BY <2>5, <2>6, <2>7
  <2> HIDE DEF g, h, k, e
  <2>10. (k + 1) % P = (g + h) % P
    <3>1. 1 \in Int /\ h % P \in Int
      BY <2>8, PFacts, SMT
    <3>2. ((k % P) + 1) % P = (k + 1) % P
      BY <2>8, <3>1, PFacts, RemainderEarly
    <3>3. ((g % P) + 1) % P = (g + 1) % P
      BY <2>8, <3>1, PFacts, RemainderEarly
    <3>4. (g + (h % P)) % P = (g + h) % P
      BY <2>8, PFacts, RemainderEarly
    <3> QED BY <2>9, <3>2, <3>3, <3>4
  <2>11. (t * t + 1) % P = 0
    BY <2>8, <2>9, <2>10 DEF k
  <2> QED BY <2>3, <2>11, SignalAssumption DEF Scalar
<1>5. x = 0
  <2>1. (x * x) % P = 0
    <3>1. x * x + y * y = x * x
      BY <1>1, <1>4, SMT
    <3> QED BY <1>2, <3>1
  <2>2. x % P # 0 => x % P = 0
    BY <1>1, <2>1, Euclid
  <2> QED BY <1>3, <2>2
<1> QED BY <1>1, <1>4, <1>5 DEF Zero

\* Every element but Zero has an inverse: -1 has no square root modulo P.
LEMMA PairInverse ==
    ASSUME NEW a \in Complex, a # Zero
    PROVE  \E b \in Complex : Mul(a, b) = One /\ Mul(b, a) = One
<1> DEFINE c == Conj(a)
           e == Norm(a)
           r == Recip(e)
<1>1. c \in Complex /\ e \in 0 .. P - 1 /\ e # 0
  BY PairTypes, NormZero DEF Scalar
<1>2. e \in Int /\ e % P # 0
  BY <1>1, PFacts, RemainderOfSmall, SMT
<1>3. r \in 1 .. P - 1 /\ (e * r) % P = 1
  BY <1>2, RecipIsInverse
<1>4. r \in Int /\ e * r \in Int
  BY <1>2, <1>3, SMT
<1>5. Mul(a, c) = Pair(e, 0)
  <2>1. 0 % P = 0 /\ e % P = e
    BY <1>1, PFacts, RemainderOfSmall, SMT
  <2> QED BY <2>1, ConjLaws, Zenon DEF Pair
<1> HIDE DEF c, e, r
<1> DEFINE b == Mul(c, Pair(r, 0))
<1>6. Pair(r, 0) \in Complex /\ b \in Complex
  BY <1>1, <1>4, ScaleIsMul, PairTypes
<1>7. Mul(a, b) = Mul(Mul(a, c), Pair(r, 0))
  BY <1>1, <1>6, MulLaws
<1>8. Mul(Pair(e, 0), Pair(r, 0)) = Pair(e * r, 0)
  BY <1>2, <1>4, RealLaws
<1>9. Pair(e * r, 0) = Pair(1, 0) /\ Pair(1, 0) = One
  BY <1>3, <1>4, RealLaws
<1>10. Mul(b, a) = Mul(a, b)
  BY <1>6, MulLaws
<1> QED BY <1>5, <1>6, <1>7, <1>8, <1>9, <1>10

\* A product is Zero only if a factor is.
LEMMA NoZeroDivisors ==
    ASSUME NEW a \in Complex, NEW c \in Complex, a # Zero, Mul(a, c) = Zero
    PROVE  c = Zero
<1>1. PICK b \in Complex : Mul(b, a) = One
  BY PairInverse
<1>2. Mul(Mul(b, a), c) = Mul(b, Mul(a, c))
  BY MulLaws
<1> QED BY <1>1, <1>2, MulLaws

\* What an element is subtracted from.
LEMMA AddCancels ==
    ASSUME NEW a \in Complex, NEW b \in Complex, Add(a, b) = Zero
    PROVE  a = Neg(b)
<1>1. Neg(b) \in Complex /\ Zero \in Complex
  BY PairTypes, PairFacts
<1>2. Add(Add(a, b), Neg(b)) = Add(a, Add(b, Neg(b)))
  BY <1>1, AddLaws
<1>3. Add(b, Neg(b)) = Zero /\ Add(a, Zero) = a /\ Add(Zero, Neg(b)) = Neg(b)
  BY <1>1, AddLaws
<1> QED BY <1>2, <1>3

\* A square root of 1 other than 1 is -1.
LEMMA RootOfOne ==
    ASSUME NEW z \in Complex, Mul(z, z) = One, z # One
    PROVE  z = Neg(One)
<1>1. One \in Complex /\ Neg(One) \in Complex /\ Add(z, One) \in Complex
      /\ Add(z, Neg(One)) \in Complex
  BY PairTypes, PairFacts
<1>2. Mul(Add(z, Neg(One)), Add(z, One)) = Zero
  <2>1. Mul(Add(z, Neg(One)), Add(z, One))
          = Add(Mul(z, Add(z, One)), Mul(Neg(One), Add(z, One)))
    BY <1>1, MulLaws
  <2>2. Mul(z, Add(z, One)) = Add(One, z)
    BY <1>1, MulLaws
  <2>3. Mul(Neg(One), Add(z, One)) = Mul(Add(z, One), Neg(One))
    BY <1>1, MulLaws
  <2>4. Mul(Add(z, One), Neg(One)) = Neg(Add(z, One))
    BY <1>1, MulLaws
  <2>5. Add(One, z) = Add(z, One)
    BY <1>1, AddLaws
  <2>6. Add(Add(z, One), Neg(Add(z, One))) = Zero
    BY <1>1, AddLaws
  <2> QED BY <2>1, <2>2, <2>3, <2>4, <2>5, <2>6
<1>3. Add(z, Neg(One)) # Zero
  <2> SUFFICES ASSUME Add(z, Neg(One)) = Zero PROVE FALSE
    OBVIOUS
  <2>1. Add(Add(z, Neg(One)), One) = Add(z, Add(Neg(One), One))
    BY <1>1, AddLaws
  <2>2. Add(Neg(One), One) = Zero /\ Add(z, Zero) = z /\ Add(Zero, One) = One
    <3>1. Add(Neg(One), One) = Add(One, Neg(One)) /\ Add(One, Neg(One)) = Zero
      BY <1>1, AddLaws
    <3> QED BY <1>1, <3>1, AddLaws
  <2> QED BY <2>1, <2>2
<1>4. Add(z, One) = Zero
  BY <1>1, <1>2, <1>3, NoZeroDivisors
<1> QED BY <1>1, <1>4, AddCancels

-------------------------------------------------------------------------------
(* Sums *)

\* f holds the sums of the first elements of x, up to len of them.
IsSum(f, x, len) ==
    f = [k \in 0 .. len |-> IF k = 0 THEN Zero ELSE Add(f[k - 1], x[k - 1])]

\* The recursive function of Total exists for every length.
LEMMA SumExists ==
    ASSUME NEW x
    PROVE  \A len \in Nat : \E f : IsSum(f, x, len)
<1> DEFINE T == {len \in Nat : \E f : IsSum(f, x, len)}
<1>1. 0 \in T
  <2> DEFINE f == [k \in 0 .. 0 |-> Zero]
  <2>1. \A k \in 0 .. 0 : k = 0
    BY SMT
  <2>2. IsSum(f, x, 0)
    BY <2>1 DEF IsSum
  <2> QED BY <2>2
<1>2. ASSUME NEW len \in Nat, len \in T PROVE len + 1 \in T
  <2>1. PICK f : IsSum(f, x, len)
    BY <1>2
  <2> DEFINE g == [k \in 0 .. len + 1 |->
                     IF k <= len THEN f[k] ELSE Add(f[len], x[len])]
             h == [k \in 0 .. len + 1 |-> IF k = 0 THEN Zero ELSE Add(g[k - 1], x[k - 1])]
  <2>2. ASSUME NEW k \in 0 .. len + 1 PROVE g[k] = h[k]
    <3>1. CASE k = 0
      <4>1. 0 \in 0 .. len /\ 0 <= len
        BY <1>2, SMT
      <4>2. f[0] = Zero
        BY <2>1, <4>1 DEF IsSum
      <4> QED BY <3>1, <4>1, <4>2
    <3>2. CASE k # 0 /\ k <= len
      <4>1. k \in 0 .. len /\ k - 1 \in 0 .. len + 1 /\ k - 1 <= len
        BY <1>2, <3>2, SMT
      <4>2. f[k] = Add(f[k - 1], x[k - 1])
        BY <2>1, <3>2, <4>1 DEF IsSum
      <4>3. g[k] = f[k] /\ g[k - 1] = f[k - 1]
        BY <3>2, <4>1
      <4> QED BY <3>2, <4>2, <4>3
    <3>3. CASE k # 0 /\ ~ (k <= len)
      <4>1. k - 1 = len /\ len \in 0 .. len + 1 /\ len <= len
        BY <1>2, <3>3, SMT
      <4>2. g[k] = Add(f[len], x[len]) /\ g[len] = f[len]
        BY <3>3, <4>1
      <4> QED BY <3>3, <4>1, <4>2
    <3> QED BY <3>1, <3>2, <3>3
  <2>3. g = h
    BY <2>2
  <2>4. IsSum(g, x, len + 1)
    BY <2>3 DEF IsSum
  <2>5. len + 1 \in Nat
    BY <1>2, SMT
  <2> QED BY <2>4, <2>5
<1>3. \A len \in Nat : len \in T
  <2> HIDE DEF T
  <2> QED BY <1>1, <1>2, InductiveSet
<1> QED BY <1>3

\* It is determined by its recursion.
LEMMA SumUnique ==
    ASSUME NEW x, NEW f, NEW g, NEW l \in Nat, NEW m \in Nat,
           IsSum(f, x, l), IsSum(g, x, m)
    PROVE  \A k \in Nat : k <= l /\ k <= m => f[k] = g[k]
<1> DEFINE T == {k \in Nat : k <= l /\ k <= m => f[k] = g[k]}
<1>1. 0 \in T
  <2>1. 0 \in 0 .. l /\ 0 \in 0 .. m
    BY SMT
  <2> QED BY <2>1 DEF IsSum
<1>2. ASSUME NEW k \in Nat, k \in T PROVE k + 1 \in T
  <2> SUFFICES ASSUME k + 1 <= l, k + 1 <= m PROVE f[k + 1] = g[k + 1]
    BY <1>2, SMT
  <2>1. k + 1 \in 0 .. l /\ k + 1 \in 0 .. m /\ k + 1 # 0 /\ (k + 1) - 1 = k
    BY <1>2, SMT
  <2>2. f[k + 1] = Add(f[k], x[k]) /\ g[k + 1] = Add(g[k], x[k])
    BY <2>1 DEF IsSum
  <2>3. k <= l /\ k <= m
    BY <1>2, <2>1, SMT
  <2> QED BY <1>2, <2>2, <2>3
<1>3. \A k \in Nat : k \in T
  <2> HIDE DEF T
  <2> QED BY <1>1, <1>2, InductiveSet
<1> QED BY <1>3

\* Total is the last value of its recursive function.
LEMMA TotalIs ==
    ASSUME NEW x, NEW len \in Nat
    PROVE  \E f : IsSum(f, x, len) /\ Total(x, len) = f[len]
<1> DEFINE f == CHOOSE f : IsSum(f, x, len)
<1>1. IsSum(f, x, len)
  BY SumExists
<1>2. Total(x, len) = f[len]
  BY DEF Total, IsSum
<1> QED BY <1>1, <1>2

\* The recursion that defines a sum.
LEMMA TotalStep ==
    ASSUME NEW x
    PROVE  /\ Total(x, 0) = Zero
           /\ \A len \in Nat : Total(x, len + 1) = Add(Total(x, len), x[len])
<1>1. Total(x, 0) = Zero
  <2>1. PICK f : IsSum(f, x, 0) /\ Total(x, 0) = f[0]
    BY TotalIs
  <2>2. 0 \in 0 .. 0
    BY SMT
  <2> QED BY <2>1, <2>2 DEF IsSum
<1>2. ASSUME NEW len \in Nat PROVE Total(x, len + 1) = Add(Total(x, len), x[len])
  <2>1. PICK f : IsSum(f, x, len) /\ Total(x, len) = f[len]
    BY TotalIs
  <2>2. len + 1 \in Nat /\ len + 1 \in 0 .. len + 1 /\ len + 1 # 0 /\ (len + 1) - 1 = len
        /\ len <= len + 1 /\ len <= len
    BY SMT
  <2>3. PICK g : IsSum(g, x, len + 1) /\ Total(x, len + 1) = g[len + 1]
    BY <2>2, TotalIs
  <2>4. g[len + 1] = Add(g[len], x[len])
    BY <2>2, <2>3 DEF IsSum
  <2>5. f[len] = g[len]
    BY <2>1, <2>2, <2>3, SumUnique
  <2> QED BY <2>1, <2>3, <2>4, <2>5
<1> QED BY <1>1, <1>2

\* A sum of field elements is one.
LEMMA TotalType ==
    ASSUME NEW x, NEW len \in Nat, \A t \in 0 .. len - 1 : x[t] \in Complex
    PROVE  Total(x, len) \in Complex
<1> DEFINE T == {l \in Nat : l <= len => Total(x, l) \in Complex}
<1>1. 0 \in T
  BY TotalStep, PairFacts
<1>2. ASSUME NEW l \in Nat, l \in T PROVE l + 1 \in T
  <2> SUFFICES ASSUME l + 1 <= len PROVE Total(x, l + 1) \in Complex
    BY <1>2, SMT
  <2>1. l \in 0 .. len - 1 /\ l <= len
    BY <1>2, SMT
  <2>2. Total(x, l + 1) = Add(Total(x, l), x[l])
    BY <1>2, TotalStep
  <2>3. Total(x, l) \in Complex /\ x[l] \in Complex
    BY <1>2, <2>1
  <2> QED BY <2>2, <2>3, PairTypes
<1>3. \A l \in Nat : l \in T
  <2> HIDE DEF T
  <2> QED BY <1>1, <1>2, InductiveSet
<1>4. len \in T /\ len <= len
  BY <1>3, SMT
<1> QED BY <1>4

\* Sums of equal entries are equal.
LEMMA TotalSame ==
    ASSUME NEW x, NEW y, NEW len \in Nat, \A t \in 0 .. len - 1 : x[t] = y[t]
    PROVE  Total(x, len) = Total(y, len)
<1> DEFINE T == {l \in Nat : l <= len => Total(x, l) = Total(y, l)}
<1>1. 0 \in T
  BY TotalStep
<1>2. ASSUME NEW l \in Nat, l \in T PROVE l + 1 \in T
  <2> SUFFICES ASSUME l + 1 <= len PROVE Total(x, l + 1) = Total(y, l + 1)
    BY <1>2, SMT
  <2>1. l \in 0 .. len - 1 /\ l <= len
    BY <1>2, SMT
  <2>2. Total(x, l + 1) = Add(Total(x, l), x[l]) /\ Total(y, l + 1) = Add(Total(y, l), y[l])
    BY <1>2, TotalStep
  <2>3. Total(x, l) = Total(y, l) /\ x[l] = y[l]
    BY <1>2, <2>1
  <2> QED BY <2>2, <2>3
<1>3. \A l \in Nat : l \in T
  <2> HIDE DEF T
  <2> QED BY <1>1, <1>2, InductiveSet
<1>4. len \in T /\ len <= len
  BY <1>3, SMT
<1> QED BY <1>4

\* The order in which four elements are added.
LEMMA AddFour ==
    ASSUME NEW a \in Complex, NEW b \in Complex, NEW c \in Complex, NEW d \in Complex
    PROVE  Add(Add(a, b), Add(c, d)) = Add(Add(a, c), Add(b, d))
<1>1. Add(c, d) \in Complex /\ Add(b, d) \in Complex
  BY PairTypes
<1>2. Add(Add(a, b), Add(c, d)) = Add(a, Add(b, Add(c, d)))
  BY <1>1, AddLaws
<1>3. Add(b, Add(c, d)) = Add(Add(b, c), d) /\ Add(Add(c, b), d) = Add(c, Add(b, d))
  BY AddLaws
<1>4. Add(b, c) = Add(c, b)
  BY AddLaws
<1>5. Add(Add(a, c), Add(b, d)) = Add(a, Add(c, Add(b, d)))
  BY <1>1, AddLaws
<1> QED BY <1>2, <1>3, <1>4, <1>5

\* The sum of sums, entry by entry.
LEMMA TotalSum ==
    ASSUME NEW x, NEW y, NEW z, NEW len \in Nat,
           \A t \in 0 .. len - 1 : /\ x[t] \in Complex /\ y[t] \in Complex
                                   /\ z[t] = Add(x[t], y[t])
    PROVE  Total(z, len) = Add(Total(x, len), Total(y, len))
<1> DEFINE T == {l \in Nat : l <= len => /\ Total(x, l) \in Complex /\ Total(y, l) \in Complex
                                         /\ Total(z, l) = Add(Total(x, l), Total(y, l))}
<1>1. 0 \in T
  <2>1. Total(x, 0) = Zero /\ Total(y, 0) = Zero /\ Total(z, 0) = Zero
    BY TotalStep
  <2>2. Zero \in Complex /\ Add(Zero, Zero) = Zero
    BY PairFacts, AddLaws
  <2> QED BY <2>1, <2>2
<1>2. ASSUME NEW l \in Nat, l \in T PROVE l + 1 \in T
  <2> SUFFICES ASSUME l + 1 <= len
               PROVE  /\ Total(x, l + 1) \in Complex /\ Total(y, l + 1) \in Complex
                      /\ Total(z, l + 1) = Add(Total(x, l + 1), Total(y, l + 1))
    BY <1>2, SMT
  <2>1. l \in 0 .. len - 1 /\ l <= len
    BY <1>2, SMT
  <2>2. /\ Total(x, l + 1) = Add(Total(x, l), x[l]) /\ Total(y, l + 1) = Add(Total(y, l), y[l])
        /\ Total(z, l + 1) = Add(Total(z, l), z[l])
    BY <1>2, TotalStep
  <2>3. /\ Total(x, l) \in Complex /\ Total(y, l) \in Complex
        /\ x[l] \in Complex /\ y[l] \in Complex /\ z[l] = Add(x[l], y[l])
        /\ Total(z, l) = Add(Total(x, l), Total(y, l))
    BY <1>2, <2>1
  <2>4. Total(x, l + 1) \in Complex /\ Total(y, l + 1) \in Complex
    BY <2>2, <2>3, Closed
  <2>5. Add(Add(Total(x, l), Total(y, l)), Add(x[l], y[l]))
          = Add(Add(Total(x, l), x[l]), Add(Total(y, l), y[l]))
    BY <2>3, AddFour
  <2> QED BY <2>2, <2>3, <2>4, <2>5
<1>3. \A l \in Nat : l \in T
  <2> HIDE DEF T
  <2> QED BY <1>1, <1>2, InductiveSet
<1>4. len \in T /\ len <= len
  BY <1>3, SMT
<1> QED BY <1>4

\* A common factor leaves a sum.
LEMMA TotalTimes ==
    ASSUME NEW x, NEW z, NEW c \in Complex, NEW len \in Nat,
           \A t \in 0 .. len - 1 : x[t] \in Complex /\ z[t] = Mul(c, x[t])
    PROVE  Total(z, len) = Mul(c, Total(x, len))
<1> DEFINE T == {l \in Nat : l <= len => /\ Total(x, l) \in Complex
                                         /\ Total(z, l) = Mul(c, Total(x, l))}
<1>1. 0 \in T
  BY TotalStep, PairFacts, MulLaws
<1>2. ASSUME NEW l \in Nat, l \in T PROVE l + 1 \in T
  <2> SUFFICES ASSUME l + 1 <= len
               PROVE  /\ Total(x, l + 1) \in Complex
                      /\ Total(z, l + 1) = Mul(c, Total(x, l + 1))
    BY <1>2, SMT
  <2>1. l \in 0 .. len - 1 /\ l <= len
    BY <1>2, SMT
  <2>2. Total(x, l + 1) = Add(Total(x, l), x[l]) /\ Total(z, l + 1) = Add(Total(z, l), z[l])
    BY <1>2, TotalStep
  <2>3. /\ Total(x, l) \in Complex /\ x[l] \in Complex /\ z[l] = Mul(c, x[l])
        /\ Total(z, l) = Mul(c, Total(x, l))
    BY <1>2, <2>1
  <2>4. Total(x, l + 1) \in Complex
    BY <2>2, <2>3, Closed
  <2>5. Mul(c, Add(Total(x, l), x[l])) = Add(Mul(c, Total(x, l)), Mul(c, x[l]))
    BY <2>3, MulLaws
  <2> QED BY <2>2, <2>3, <2>4, <2>5
<1>3. \A l \in Nat : l \in T
  <2> HIDE DEF T
  <2> QED BY <1>1, <1>2, InductiveSet
<1>4. len \in T /\ len <= len
  BY <1>3, SMT
<1> QED BY <1>4

\* The even and the odd elements can be summed apart.
LEMMA TotalEvenOdd ==
    ASSUME NEW x, NEW even, NEW odd, NEW len \in Nat,
           \A t \in 0 .. 2 * len - 1 : x[t] \in Complex,
           \A t \in 0 .. len - 1 : even[t] = x[2 * t] /\ odd[t] = x[2 * t + 1]
    PROVE  Total(x, 2 * len) = Add(Total(even, len), Total(odd, len))
<1> DEFINE T == {l \in Nat : l <= len => /\ Total(even, l) \in Complex /\ Total(odd, l) \in Complex
                                         /\ Total(x, 2 * l) = Add(Total(even, l), Total(odd, l))}
<1>1. 0 \in T
  <2>1. 2 * 0 = 0
    BY SMT
  <2>2. Total(x, 2 * 0) = Zero /\ Total(even, 0) = Zero /\ Total(odd, 0) = Zero
    BY <2>1, TotalStep
  <2> QED BY <2>2, PairFacts, AddLaws
<1>2. ASSUME NEW l \in Nat, l \in T PROVE l + 1 \in T
  <2> SUFFICES ASSUME l + 1 <= len
               PROVE  /\ Total(even, l + 1) \in Complex /\ Total(odd, l + 1) \in Complex
                      /\ Total(x, 2 * (l + 1)) = Add(Total(even, l + 1), Total(odd, l + 1))
    BY <1>2, SMT
  <2>1. /\ l \in 0 .. len - 1 /\ l <= len
        /\ 2 * l \in 0 .. 2 * len - 1 /\ 2 * l + 1 \in 0 .. 2 * len - 1
        /\ 2 * l \in Nat /\ 2 * l + 1 \in Nat /\ 2 * (l + 1) = (2 * l + 1) + 1
    BY <1>2, SMT
  <2>2. /\ Total(even, l + 1) = Add(Total(even, l), even[l])
        /\ Total(odd, l + 1) = Add(Total(odd, l), odd[l])
    BY <1>2, TotalStep
  <2>3. /\ Total(x, (2 * l + 1) + 1) = Add(Total(x, 2 * l + 1), x[2 * l + 1])
        /\ Total(x, 2 * l + 1) = Add(Total(x, 2 * l), x[2 * l])
    BY <2>1, TotalStep
  <2>4. /\ Total(even, l) \in Complex /\ Total(odd, l) \in Complex
        /\ Total(x, 2 * l) = Add(Total(even, l), Total(odd, l))
        /\ even[l] = x[2 * l] /\ odd[l] = x[2 * l + 1]
        /\ x[2 * l] \in Complex /\ x[2 * l + 1] \in Complex
    BY <1>2, <2>1
  <2>5. Total(x, (2 * l + 1) + 1)
          = Add(Add(Add(Total(even, l), Total(odd, l)), even[l]), odd[l])
    BY <2>3, <2>4
  <2>6. Add(Total(even, l), Total(odd, l)) \in Complex /\ even[l] \in Complex /\ odd[l] \in Complex
    BY <2>4, PairTypes
  <2>7. Add(Add(Add(Total(even, l), Total(odd, l)), even[l]), odd[l])
          = Add(Add(Total(even, l), Total(odd, l)), Add(even[l], odd[l]))
    BY <2>6, AddLaws
  <2>8. Add(Add(Total(even, l), Total(odd, l)), Add(even[l], odd[l]))
          = Add(Add(Total(even, l), even[l]), Add(Total(odd, l), odd[l]))
    BY <2>4, <2>6, AddFour
  <2>9. Total(even, l + 1) \in Complex /\ Total(odd, l + 1) \in Complex
    BY <2>2, <2>4, <2>6, Closed
  <2> QED BY <2>1, <2>2, <2>5, <2>7, <2>8, <2>9
<1>3. \A l \in Nat : l \in T
  <2> HIDE DEF T
  <2> QED BY <1>1, <1>2, InductiveSet
<1>4. len \in T /\ len <= len
  BY <1>3, SMT
<1> QED BY <1>4

\* The order in which four elements are multiplied.
LEMMA MulFour ==
    ASSUME NEW a \in Complex, NEW b \in Complex, NEW c \in Complex, NEW d \in Complex
    PROVE  Mul(Mul(a, b), Mul(c, d)) = Mul(Mul(a, c), Mul(b, d))
<1>1. Mul(c, d) \in Complex /\ Mul(b, d) \in Complex
  BY Closed
<1>2. Mul(Mul(a, b), Mul(c, d)) = Mul(a, Mul(b, Mul(c, d)))
  BY <1>1, MulLaws
<1>3. Mul(b, Mul(c, d)) = Mul(Mul(b, c), d) /\ Mul(Mul(c, b), d) = Mul(c, Mul(b, d))
  BY MulLaws
<1>4. Mul(b, c) = Mul(c, b)
  BY MulLaws
<1>5. Mul(Mul(a, c), Mul(b, d)) = Mul(a, Mul(c, Mul(b, d)))
  BY <1>1, MulLaws
<1> QED BY <1>2, <1>3, <1>4, <1>5

-------------------------------------------------------------------------------
(* Angles *)

\* f holds the first powers of Root.
IsPow(f, top) == f = [k \in 0 .. top |-> IF k = 0 THEN One ELSE Mul(f[k - 1], Root)]

\* The recursive function of Circle exists.
LEMMA PowExists == \A top \in Nat : \E f : IsPow(f, top)
<1> DEFINE T == {top \in Nat : \E f : IsPow(f, top)}
<1>1. 0 \in T
  <2> DEFINE f == [k \in 0 .. 0 |-> One]
  <2>1. \A k \in 0 .. 0 : k = 0
    BY SMT
  <2>2. IsPow(f, 0)
    BY <2>1 DEF IsPow
  <2> QED BY <2>2
<1>2. ASSUME NEW top \in Nat, top \in T PROVE top + 1 \in T
  <2>1. PICK f : IsPow(f, top)
    BY <1>2
  <2> DEFINE g == [k \in 0 .. top + 1 |->
                     IF k <= top THEN f[k] ELSE Mul(f[top], Root)]
             h == [k \in 0 .. top + 1 |-> IF k = 0 THEN One ELSE Mul(g[k - 1], Root)]
  <2>2. ASSUME NEW k \in 0 .. top + 1 PROVE g[k] = h[k]
    <3>1. CASE k = 0
      <4>1. 0 \in 0 .. top /\ 0 <= top
        BY <1>2, SMT
      <4>2. f[0] = One
        BY <2>1, <4>1 DEF IsPow
      <4> QED BY <3>1, <4>1, <4>2
    <3>2. CASE k # 0 /\ k <= top
      <4>1. k \in 0 .. top /\ k - 1 \in 0 .. top + 1 /\ k - 1 <= top
        BY <1>2, <3>2, SMT
      <4>2. f[k] = Mul(f[k - 1], Root)
        BY <2>1, <3>2, <4>1 DEF IsPow
      <4>3. g[k] = f[k] /\ g[k - 1] = f[k - 1]
        BY <3>2, <4>1
      <4> QED BY <3>2, <4>2, <4>3
    <3>3. CASE k # 0 /\ ~ (k <= top)
      <4>1. k - 1 = top /\ top \in 0 .. top + 1 /\ top <= top
        BY <1>2, <3>3, SMT
      <4>2. g[k] = Mul(f[top], Root) /\ g[top] = f[top]
        BY <3>3, <4>1
      <4> QED BY <3>3, <4>1, <4>2
    <3> QED BY <3>1, <3>2, <3>3
  <2>3. g = h
    BY <2>2
  <2>4. IsPow(g, top + 1)
    BY <2>3 DEF IsPow
  <2>5. top + 1 \in Nat
    BY <1>2, SMT
  <2> QED BY <2>4, <2>5
<1>3. \A top \in Nat : top \in T
  <2> HIDE DEF T
  <2> QED BY <1>1, <1>2, InductiveSet
<1> QED BY <1>3

\* What is assumed of the circle.
LEMMA OrderFacts ==
    /\ Order \in Nat /\ Order > 0 /\ Order - 1 \in Nat
    /\ Root \in Complex /\ Norm(Root) = 1
    /\ Mul(Circle[Order - 1], Root) = One
    /\ \A k \in 1 .. Order - 1 : Circle[k] # One
<1>1. Order \in Nat \ {0} /\ Root \in Complex /\ Norm(Root) = 1
      /\ Mul(Circle[Order - 1], Root) = One /\ \A k \in 1 .. Order - 1 : Circle[k] # One
  BY SignalAssumption
<1>2. Order > 0 /\ Order - 1 \in Nat
  BY <1>1, SMT
<1> QED BY <1>1, <1>2

\* Circle holds the powers of Root.
LEMMA CircleStep ==
    /\ Circle[0] = One
    /\ \A k \in Nat : k + 1 < Order => Circle[k + 1] = Mul(Circle[k], Root)
<1> DEFINE f == CHOOSE f : IsPow(f, Order - 1)
<1>1. IsPow(f, Order - 1)
  BY OrderFacts, PowExists
<1>2. Circle = [k \in 0 .. Order - 1 |-> f[k]]
  BY DEF Circle, IsPow
<1> HIDE DEF f
<1>3. Circle[0] = One
  <2>1. 0 \in 0 .. Order - 1
    BY OrderFacts, SMT
  <2>2. f[0] = One
    BY <1>1, <2>1 DEF IsPow
  <2> QED BY <1>2, <2>1, <2>2
<1>4. ASSUME NEW k \in Nat, k + 1 < Order PROVE Circle[k + 1] = Mul(Circle[k], Root)
  <2>1. k \in 0 .. Order - 1 /\ k + 1 \in 0 .. Order - 1 /\ k + 1 # 0 /\ (k + 1) - 1 = k
    BY <1>4, OrderFacts, SMT
  <2>2. f[k + 1] = Mul(f[k], Root)
    BY <1>1, <2>1 DEF IsPow
  <2> QED BY <1>2, <2>1, <2>2
<1> QED BY <1>3, <1>4

\* They are of norm 1.
LEMMA CircleType ==
    \A k \in Nat : k < Order => /\ Circle[k] \in Complex
                                /\ Mul(Circle[k], Conj(Circle[k])) = One
<1> DEFINE T == {k \in Nat : k < Order => /\ Circle[k] \in Complex
                                          /\ Mul(Circle[k], Conj(Circle[k])) = One}
<1>1. 0 \in T
  <2>1. One \in Complex /\ Conj(One) = One
    BY PairFacts, ConjLaws
  <2>2. Mul(One, One) = One
    BY <2>1, MulLaws
  <2> QED BY <2>1, <2>2, CircleStep
<1>2. ASSUME NEW k \in Nat, k \in T PROVE k + 1 \in T
  <2> SUFFICES ASSUME k + 1 < Order
               PROVE  /\ Circle[k + 1] \in Complex
                      /\ Mul(Circle[k + 1], Conj(Circle[k + 1])) = One
    BY <1>2, SMT
  <2> DEFINE a == Circle[k]
  <2>1. k < Order
    BY <1>2, OrderFacts, SMT
  <2>2. a \in Complex /\ Mul(a, Conj(a)) = One
    BY <1>2, <2>1
  <2>3. Circle[k + 1] = Mul(a, Root)
    BY <1>2, CircleStep
  <2> HIDE DEF a
  <2>4. Root \in Complex /\ Conj(Root) \in Complex /\ Conj(a) \in Complex
        /\ Mul(a, Root) \in Complex
    BY <2>2, OrderFacts, PairTypes
  <2>5. Mul(Root, Conj(Root)) = One
    BY OrderFacts, ConjLaws DEF One
  <2>6. Conj(Mul(a, Root)) = Mul(Conj(a), Conj(Root))
    BY <2>2, <2>4, ConjLaws
  <2>7. Mul(Mul(a, Root), Mul(Conj(a), Conj(Root))) = Mul(Mul(a, Conj(a)), Mul(Root, Conj(Root)))
    BY <2>2, <2>4, MulFour
  <2>8. Mul(One, One) = One
    BY PairFacts, MulLaws
  <2> QED BY <2>2, <2>3, <2>4, <2>5, <2>6, <2>7, <2>8
<1>3. \A k \in Nat : k \in T
  <2> HIDE DEF T
  <2> QED BY <1>1, <1>2, InductiveSet
<1> QED BY <1>3

\* The point at k times the angle of Root.
Turn(k) == Circle[k % Order]

\* A turn is an element of norm 1, its conjugate its inverse.
LEMMA TurnType ==
    ASSUME NEW k \in Int
    PROVE  Turn(k) \in Complex /\ Conj(Turn(k)) \in Complex /\ Mul(Turn(k), Conj(Turn(k))) = One
<1>1. k % Order \in 0 .. Order - 1
  BY OrderFacts, DivMod
<1>2. k % Order \in Nat /\ k % Order < Order
  BY <1>1, OrderFacts, SMT
<1> QED BY <1>2, CircleType, PairTypes DEF Turn

\* Turns repeat after Order.
LEMMA TurnPeriod ==
    ASSUME NEW k \in Int, NEW l \in Int, NEW q \in Int, k = l + Order * q
    PROVE  Turn(k) = Turn(l)
BY OrderFacts, SameRemainder DEF Turn

\* The first two turns.
LEMMA TurnStart == Turn(0) = One /\ Turn(1) = Root
<1>1. 0 % Order = 0
  BY OrderFacts, RemainderOfSmall, SMT
<1>2. Turn(0) = One
  BY <1>1, CircleStep DEF Turn
<1>3. Turn(1) = Root
  <2>1. CASE Order = 1
    <3>1. 1 % Order = 0 /\ Order - 1 = 0
      BY <2>1, SMT
    <3>2. Mul(One, Root) = One
      BY <3>1, OrderFacts, CircleStep
    <3> QED BY <3>1, <3>2, OrderFacts, MulLaws, CircleStep, PairFacts DEF Turn
  <2>2. CASE Order # 1
    <3>1. 1 \in 0 .. Order - 1 /\ 0 + 1 < Order /\ 0 + 1 = 1 /\ 0 \in Nat
      BY <2>2, OrderFacts, SMT
    <3>2. 1 % Order = 1
      BY <3>1, OrderFacts, RemainderOfSmall
    <3>3. Circle[1] = Mul(Circle[0], Root)
      BY <3>1, CircleStep
    <3> QED BY <3>2, <3>3, OrderFacts, CircleStep, MulLaws, PairFacts DEF Turn
  <2> QED BY <2>1, <2>2
<1> QED BY <1>2, <1>3

\* One more turn is one more factor Root.
LEMMA TurnNext ==
    ASSUME NEW k \in Int
    PROVE  Turn(k + 1) = Mul(Turn(k), Root)
<1> DEFINE r == k % Order
           q == k \div Order
<1>1. r \in 0 .. Order - 1 /\ q \in Int /\ k = Order * q + r
  BY OrderFacts, DivMod
<1>2. Turn(k) = Circle[r]
  BY DEF Turn
<1> HIDE DEF r, q
<1>3. CASE r + 1 < Order
  <2>1. k + 1 = (r + 1) + Order * q /\ r + 1 \in 0 .. Order - 1 /\ k + 1 \in Int /\ r \in Nat
    BY <1>1, <1>3, OrderFacts, SMT
  <2>2. (k + 1) % Order = r + 1
    BY <1>1, <2>1, OrderFacts, RemainderIs
  <2>3. Circle[r + 1] = Mul(Circle[r], Root)
    BY <1>3, <2>1, CircleStep
  <2> QED BY <1>2, <2>2, <2>3 DEF Turn
<1>4. CASE ~ (r + 1 < Order)
  <2>1. r = Order - 1 /\ 0 \in 0 .. Order - 1 /\ k + 1 \in Int /\ q + 1 \in Int
    BY <1>1, <1>4, OrderFacts, SMT
  <2>2. k + 1 = 0 + Order * (q + 1)
    BY <1>1, <2>1, OrderFacts, SMT
  <2>3. (k + 1) % Order = 0
    BY <2>1, <2>2, OrderFacts, RemainderIs
  <2> QED BY <1>2, <2>1, <2>3, OrderFacts, CircleStep DEF Turn
<1> QED BY <1>3, <1>4

\* Angles add when their points are multiplied.
LEMMA TurnAdds ==
    ASSUME NEW a \in Int, NEW b \in Int
    PROVE  Turn(a + b) = Mul(Turn(a), Turn(b))
<1> DEFINE T == {k \in Nat : Turn(a + k) = Mul(Turn(a), Turn(k))}
<1>1. 0 \in T
  <2>1. a + 0 = a
    BY SMT
  <2>2. Mul(Turn(a), One) = Turn(a)
    BY TurnType, MulLaws, PairFacts
  <2> QED BY <2>1, <2>2, TurnStart
<1>2. ASSUME NEW k \in Nat, k \in T PROVE k + 1 \in T
  <2>1. a + (k + 1) = (a + k) + 1 /\ a + k \in Int /\ k \in Int /\ k + 1 \in Nat
    BY <1>2, SMT
  <2>2. Turn((a + k) + 1) = Mul(Turn(a + k), Root) /\ Turn(k + 1) = Mul(Turn(k), Root)
    BY <2>1, TurnNext
  <2>3. Turn(a + k) = Mul(Turn(a), Turn(k))
    BY <1>2
  <2>4. Mul(Mul(Turn(a), Turn(k)), Root) = Mul(Turn(a), Mul(Turn(k), Root))
    BY <2>1, TurnType, OrderFacts, MulLaws
  <2> QED BY <2>1, <2>2, <2>3, <2>4
<1>3. \A k \in Nat : k \in T
  <2> HIDE DEF T
  <2> QED BY <1>1, <1>2, InductiveSet
<1> DEFINE r == b % Order
           q == b \div Order
<1>4. r \in 0 .. Order - 1 /\ q \in Int /\ b = Order * q + r
  BY OrderFacts, DivMod
<1> HIDE DEF r, q
<1>5. r \in Nat /\ b = r + Order * q /\ a + b = (a + r) + Order * q /\ a + r \in Int /\ a + b \in Int
  BY <1>4, OrderFacts, SMT
<1>6. Turn(b) = Turn(r) /\ Turn(a + b) = Turn(a + r)
  BY <1>4, <1>5, TurnPeriod
<1>7. Turn(a + r) = Mul(Turn(a), Turn(r))
  BY <1>3, <1>5
<1> QED BY <1>6, <1>7

\* The conjugate is the point at the opposite angle.
LEMMA TurnBack ==
    ASSUME NEW k \in Int
    PROVE  Conj(Turn(k)) = Turn(0 - k) /\ Mul(Turn(k), Turn(0 - k)) = One
<1>1. 0 - k \in Int /\ k + (0 - k) = 0
  BY SMT
<1>2. Mul(Turn(k), Turn(0 - k)) = One
  BY <1>1, TurnAdds, TurnStart
<1> DEFINE a == Turn(k)
           b == Turn(0 - k)
           c == Conj(Turn(k))
<1>3. a \in Complex /\ b \in Complex /\ c \in Complex /\ Mul(a, c) = One /\ Mul(a, b) = One
  BY <1>1, <1>2, TurnType
<1> HIDE DEF a, b, c
<1>4. Mul(b, Mul(a, c)) = Mul(Mul(b, a), c) /\ Mul(b, a) = Mul(a, b)
      /\ Mul(b, One) = b /\ Mul(One, c) = c
  BY <1>3, MulLaws
<1>5. c = b
  BY <1>3, <1>4
<1> QED BY <1>2, <1>5 DEF b, c

\* Only a whole number of circles comes back to One.
LEMMA TurnNotOne ==
    ASSUME NEW k \in Int, k % Order # 0
    PROVE  Turn(k) # One
<1>1. k % Order \in 0 .. Order - 1
  BY OrderFacts, DivMod
<1>2. k % Order \in 1 .. Order - 1
  BY <1>1, OrderFacts, SMT
<1> QED BY <1>2, OrderFacts DEF Turn

\* Half a circle is minus one.
LEMMA HalfTurn ==
    ASSUME NEW h \in Nat, Order = 2 * h
    PROVE  Turn(h) = Neg(One)
<1>1. h \in Int /\ h \in 0 .. Order - 1 /\ h # 0 /\ h + h = 0 + Order * 1 /\ h + h \in Int
  BY OrderFacts, SMT
<1>2. h % Order = h
  BY <1>1, OrderFacts, RemainderOfSmall
<1>3. Turn(h) # One
  BY <1>1, <1>2, TurnNotOne
<1>4. Turn(h + h) = Turn(0)
  <2>1. 0 \in Int /\ 1 \in Int
    OBVIOUS
  <2> QED BY <1>1, <2>1, TurnPeriod, Zenon
<1>5. Mul(Turn(h), Turn(h)) = One
  BY <1>1, <1>4, TurnAdds, TurnStart
<1> QED BY <1>1, <1>3, <1>5, TurnType, RootOfOne

-------------------------------------------------------------------------------
(* Phasors and the reference transform *)

\* A quotient and a remainder in range are the ones of the division.
LEMMA DivModAre ==
    ASSUME NEW d \in Nat, NEW a \in Int, NEW q \in Int, NEW r \in 0 .. d - 1, a = d * q + r
    PROVE  a % d = r /\ a \div d = q
<1>1. d > 0 /\ r \in Int /\ a = r + d * q
  BY SMT
<1>2. a % d = r
  BY <1>1, RemainderIs
<1>3. a \div d \in Int /\ a = d * (a \div d) + (a % d)
  BY <1>1, DivMod
<1> DEFINE p == a \div d
<1>4. p \in Int /\ a = d * p + r
  BY <1>2, <1>3
<1> HIDE DEF p
<1>5. q - p \in Int /\ d * (q - p) = d * q - d * p /\ d * q \in Int /\ d * p \in Int
  BY <1>4, SMT
<1>6. d * q = d * p
  <2> DEFINE dq == d * q
             dp == d * p
  <2>1. a = dq + r /\ a = dp + r /\ dq \in Int /\ dp \in Int /\ r \in Int
    BY <1>1, <1>4, <1>5
  <2> HIDE DEF dq, dp
  <2>2. dq = dp
    BY <2>1, SMT
  <2> QED BY <2>2 DEF dq, dp
<1>7. r = d * (q - p) + r
  <2>1. d * q - d * p = 0
    BY <1>5, <1>6, SMT
  <2>2. d * (q - p) = 0 /\ 0 + r = r
    BY <1>1, <1>5, <2>1, SMT
  <2> QED BY <2>2
<1>8. q - p = 0
  BY <1>5, <1>7, RemainderUnique
<1>9. q = p
  BY <1>4, <1>8, SMT
<1> QED BY <1>2, <1>9 DEF p

\* The points that divide the circle into len parts.
LEMMA PhasorIs ==
    ASSUME NEW len \in Nat, NEW e \in Nat, Order = len * e, NEW k \in Int
    PROVE  Phasor(k, len) = Turn(k * e) /\ len > 0 /\ k * e \in Int
<1>1. len > 0
  <2>1. len = 0 => len * e = 0
    BY SMT
  <2> QED BY <2>1, OrderFacts, SMT
<1>2. 0 \in 0 .. len - 1 /\ Order = len * e + 0 /\ k * e \in Int /\ e \in Int /\ Order \in Int
  BY <1>1, OrderFacts, SMT
<1>3. Order \div len = e
  BY <1>2, DivModAre
<1> QED BY <1>1, <1>2, <1>3 DEF Phasor, Turn

\* Angles add up, and repeat after a whole circle.
LEMMA PhasorLaws ==
    ASSUME NEW len \in Nat, NEW e \in Nat, Order = len * e, NEW k \in Int, NEW l \in Int
    PROVE  /\ Phasor(k, len) \in Complex
           /\ Phasor(k + l, len) = Mul(Phasor(k, len), Phasor(l, len))
           /\ Phasor(k + len * l, len) = Phasor(k, len)
           /\ Phasor(0, len) = One
           /\ Conj(Phasor(k, len)) = Phasor(0 - k, len)
<1>1. /\ k + l \in Int /\ k + len * l \in Int /\ 0 \in Int /\ 0 - k \in Int
      /\ k * e \in Int /\ l * e \in Int /\ (k + l) * e \in Int
  BY SMT
<1>2. /\ Phasor(k, len) = Turn(k * e) /\ Phasor(l, len) = Turn(l * e)
      /\ Phasor(k + l, len) = Turn((k + l) * e)
      /\ Phasor(0, len) = Turn(0 * e) /\ Phasor(0 - k, len) = Turn((0 - k) * e)
  BY <1>1, PhasorIs
<1>3. Phasor(k + len * l, len) = Turn((k + len * l) * e)
  BY <1>1, PhasorIs
<1>4. (k + l) * e = k * e + l * e /\ 0 * e = 0 /\ (0 - k) * e = 0 - k * e
  BY SMT
<1>5. (k + len * l) * e = k * e + (len * e) * l /\ (k + len * l) * e \in Int
  BY SMT
<1>6. Turn((k + len * l) * e) = Turn(k * e)
  <2>1. (k + len * l) * e = k * e + Order * l
    BY <1>5
  <2> QED BY <1>1, <1>5, <2>1, TurnPeriod
<1>7. Turn(k * e + l * e) = Mul(Turn(k * e), Turn(l * e))
  BY <1>1, TurnAdds
<1>8. Turn(k * e) \in Complex /\ Conj(Turn(k * e)) = Turn(0 - k * e)
  BY <1>1, TurnType, TurnBack
<1> QED BY <1>2, <1>3, <1>4, <1>6, <1>7, <1>8, TurnStart

\* Angles in a circle divided twice as finely; half a circle changes the sign.
LEMMA PhasorHalf ==
    ASSUME NEW len \in Nat, NEW e \in Nat, Order = (2 * len) * e, NEW k \in Int
    PROVE  /\ Order = len * (2 * e)
           /\ Phasor(2 * k, 2 * len) = Phasor(k, len)
           /\ Phasor(k + len, 2 * len) = Neg(Phasor(k, 2 * len))
<1>1. /\ 2 * len \in Nat /\ 2 * e \in Nat /\ 2 * k \in Int /\ k + len \in Int /\ len \in Int
      /\ Order = len * (2 * e) /\ len * e \in Nat /\ Order = 2 * (len * e)
      /\ (2 * k) * e = k * (2 * e)
  BY SMT
<1>2. Phasor(2 * k, 2 * len) = Turn((2 * k) * e) /\ Phasor(k, len) = Turn(k * (2 * e))
  BY <1>1, PhasorIs
<1>3. Phasor(k + len, 2 * len) = Mul(Phasor(k, 2 * len), Phasor(len, 2 * len))
  BY <1>1, PhasorLaws
<1>4. Phasor(len, 2 * len) = Turn(len * e)
  BY <1>1, PhasorIs
<1>5. Turn(len * e) = Neg(One)
  BY <1>1, HalfTurn
<1>6. Phasor(k, 2 * len) \in Complex
  BY <1>1, PhasorLaws
<1>7. Mul(Phasor(k, 2 * len), Neg(One)) = Neg(Phasor(k, 2 * len))
  <2> DEFINE p == Phasor(k, 2 * len)
  <2>1. p \in Complex /\ One \in Complex
    BY <1>6, PairFacts
  <2> HIDE DEF p
  <2>2. Mul(p, Neg(One)) = Neg(Mul(p, One)) /\ Mul(p, One) = p
    BY <2>1, MulLaws
  <2>3. Mul(p, Neg(One)) = Neg(p)
    BY <2>2
  <2> QED BY <2>3 DEF p
<1> QED BY <1>1, <1>2, <1>3, <1>4, <1>5, <1>7

\* An entry of the transform, as the sum it is.
LEMMA DftIs ==
    ASSUME NEW x, NEW len \in Nat, NEW sign \in {-1, 1}, NEW k \in 0 .. len - 1
    PROVE  Dft(x, len, sign)[k]
             = Total([t \in 0 .. len - 1 |-> Mul(x[t], Phasor(sign * k * t, len))], len)
BY DEF Dft

\* It is an element of the field.
LEMMA DftType ==
    ASSUME NEW x, NEW len \in Nat, NEW sign \in {-1, 1}, NEW k \in 0 .. len - 1,
           NEW e \in Nat, Order = len * e, \A t \in 0 .. len - 1 : x[t] \in Complex
    PROVE  Dft(x, len, sign)[k] \in Complex
<1> DEFINE f == [t \in 0 .. len - 1 |-> Mul(x[t], Phasor(sign * k * t, len))]
<1>1. ASSUME NEW t \in 0 .. len - 1 PROVE f[t] \in Complex
  <2>1. sign * k * t \in Int
    BY SMT
  <2>2. Phasor(sign * k * t, len) \in Complex
    BY <2>1, PhasorLaws
  <2> QED BY <2>2, Closed
<1>2. Dft(x, len, sign)[k] = Total(f, len)
  BY DftIs
<1> HIDE DEF f
<1> QED BY <1>1, <1>2, TotalType

\* The even and the odd elements of x.
IsSplit(x, even, odd, len) ==
    /\ \A t \in 0 .. 2 * len - 1 : x[t] \in Complex
    /\ \A t \in 0 .. len - 1 : even[t] = x[2 * t] /\ odd[t] = x[2 * t + 1]

(***************************************************************************)
(* Danielson-Lanczos: an entry of a transform of twice the length, from the *)
(* transforms of the even and of the odd elements.                          *)
(***************************************************************************)
LEMMA DftSplit ==
    ASSUME NEW len \in Nat, NEW e \in Nat, Order = (2 * len) * e, NEW sign \in {-1, 1},
           NEW x, NEW even, NEW odd, IsSplit(x, even, odd, len), NEW k \in 0 .. len - 1
    PROVE  \A kk \in {k, k + len} :
           Dft(x, 2 * len, sign)[kk]
             = Add(Dft(even, len, sign)[k],
                   Mul(Phasor(sign * kk, 2 * len), Dft(odd, len, sign)[k]))
<1> SUFFICES ASSUME NEW kk \in {k, k + len}
             PROVE  Dft(x, 2 * len, sign)[kk]
                      = Add(Dft(even, len, sign)[k],
                            Mul(Phasor(sign * kk, 2 * len), Dft(odd, len, sign)[k]))
  OBVIOUS
<1> USE DEF IsSplit
<1> DEFINE f == [t \in 0 .. 2 * len - 1 |-> Mul(x[t], Phasor(sign * kk * t, 2 * len))]
           g == [t \in 0 .. len - 1 |-> Mul(even[t], Phasor(sign * k * t, len))]
           h == [t \in 0 .. len - 1 |-> Mul(odd[t], Phasor(sign * k * t, len))]
           c == Phasor(sign * kk, 2 * len)
           ch == [t \in 0 .. len - 1 |-> Mul(c, h[t])]
<1>0. kk \in 0 .. 2 * len - 1
  BY SMT
<1>q. PICK q \in Int : kk = k + len * q
  <2>1. k = k + len * 0 /\ k + len = k + len * 1 /\ 0 \in Int /\ 1 \in Int
    BY SMT
  <2> QED BY <2>1
<1>1. /\ 2 * len \in Nat /\ 2 * e \in Nat /\ kk \in Int /\ k \in Int /\ sign * kk \in Int
      /\ Order = len * (2 * e) /\ sign \in Int
  BY <1>0, PhasorHalf, SMT
<1>2. /\ Dft(x, 2 * len, sign)[kk] = Total(f, 2 * len)
      /\ Dft(even, len, sign)[k] = Total(g, len)
      /\ Dft(odd, len, sign)[k] = Total(h, len)
  <2>1. Dft(x, 2 * len, sign)[kk] = Total(f, 2 * len)
    BY <1>0, <1>1, DftIs
  <2>2. Dft(even, len, sign)[k] = Total(g, len)
    BY DftIs
  <2>3. Dft(odd, len, sign)[k] = Total(h, len)
    BY DftIs
  <2> QED BY <2>1, <2>2, <2>3
<1>3. c \in Complex
  BY <1>1, PhasorLaws
<1>4. ASSUME NEW t \in 0 .. 2 * len - 1 PROVE f[t] \in Complex
  <2>1. sign * kk * t \in Int
    BY <1>1, SMT
  <2>2. Phasor(sign * kk * t, 2 * len) \in Complex
    BY <1>1, <2>1, PhasorLaws
  <2> QED BY <2>2, Closed
<1>5. ASSUME NEW t \in 0 .. len - 1
      PROVE  g[t] = f[2 * t] /\ ch[t] = f[2 * t + 1] /\ h[t] \in Complex
  <2> DEFINE ph == Phasor(sign * k * t, len)
  <2>1. 2 * t \in 0 .. 2 * len - 1 /\ 2 * t + 1 \in 0 .. 2 * len - 1 /\ t \in Int
    BY SMT
  <2>2. /\ f[2 * t] = Mul(x[2 * t], Phasor(sign * kk * (2 * t), 2 * len))
        /\ f[2 * t + 1] = Mul(x[2 * t + 1], Phasor(sign * kk * (2 * t + 1), 2 * len))
        /\ g[t] = Mul(even[t], ph) /\ h[t] = Mul(odd[t], ph) /\ ch[t] = Mul(c, h[t])
    BY <2>1
  <2>3. sign * k * t \in Int /\ sign * kk * t \in Int /\ sign * kk * (2 * t) \in Int
        /\ q * (sign * t) \in Int
    BY <1>1, <2>1, SMT
  <2>4. sign * kk * t = sign * k * t + len * (q * (sign * t))
    BY <1>1, <1>q, <2>1, SMT
  <2>5. sign * kk * (2 * t) = 2 * (sign * kk * t)
        /\ sign * kk * (2 * t + 1) = sign * kk + sign * kk * (2 * t)
    BY <1>1, <2>1, SMT
  <2>6. Phasor(sign * kk * t, len) = ph
    <3> DEFINE u == sign * k * t
               v == q * (sign * t)
    <3>1. u \in Int /\ v \in Int /\ sign * kk * t = u + len * v
      BY <2>3, <2>4
    <3> HIDE DEF u, v
    <3>2. Phasor(u + len * v, len) = Phasor(u, len)
      BY <1>1, <3>1, PhasorLaws
    <3> QED BY <3>1, <3>2 DEF u
  <2>7. Phasor(sign * kk * (2 * t), 2 * len) = ph
    BY <2>3, <2>5, <2>6, PhasorHalf
  <2>8. Phasor(sign * kk * (2 * t + 1), 2 * len) = Mul(c, ph)
    <3>1. Phasor(sign * kk + sign * kk * (2 * t), 2 * len)
            = Mul(c, Phasor(sign * kk * (2 * t), 2 * len))
      <4> DEFINE u == sign * kk
                 v == sign * kk * (2 * t)
      <4>1. u \in Int /\ v \in Int
        BY <1>1, <2>3
      <4> HIDE DEF u, v
      <4>2. Phasor(u + v, 2 * len) = Mul(Phasor(u, 2 * len), Phasor(v, 2 * len))
        BY <1>1, <4>1, PhasorLaws
      <4> QED BY <4>2 DEF u, v
    <3> QED BY <2>5, <2>7, <3>1
  <2>9. ph \in Complex /\ odd[t] \in Complex /\ odd[t] = x[2 * t + 1] /\ even[t] = x[2 * t]
    <3>1. ph \in Complex
      BY <1>1, <2>3, PhasorLaws
    <3> QED BY <2>1, <3>1
  <2> HIDE DEF f, g, h, ch, c, ph
  <2>10. Mul(odd[t], Mul(c, ph)) = Mul(c, Mul(odd[t], ph))
    <3>1. Mul(odd[t], Mul(c, ph)) = Mul(Mul(odd[t], c), ph)
      BY <1>3, <2>9, MulLaws
    <3>2. Mul(c, Mul(odd[t], ph)) = Mul(Mul(c, odd[t]), ph) /\ Mul(c, odd[t]) = Mul(odd[t], c)
      BY <1>3, <2>9, MulLaws
    <3> QED BY <3>1, <3>2
  <2>11. h[t] \in Complex
    BY <2>2, <2>9, Closed
  <2> QED BY <2>2, <2>7, <2>8, <2>9, <2>10, <2>11
<1>6. \A t \in 0 .. len - 1 : ch[t] = Mul(c, h[t])
  OBVIOUS
<1> HIDE DEF f, g, h, ch, c
<1>7. Total(f, 2 * len) = Add(Total(g, len), Total(ch, len))
  BY <1>4, <1>5, TotalEvenOdd
<1>8. Total(ch, len) = Mul(c, Total(h, len))
  BY <1>3, <1>5, <1>6, TotalTimes
<1> QED BY <1>2, <1>7, <1>8 DEF c

\* The circle can be cut into len parts.
PartsOfCircle(len) == \E e \in Nat : Order = len * e

\* One butterfly: two entries of the longer transform from one of each part.
LEMMA DftButterfly ==
    ASSUME NEW len \in Nat, PartsOfCircle(2 * len), NEW sign \in {-1, 1},
           NEW x, NEW even, NEW odd, IsSplit(x, even, odd, len), NEW k \in 0 .. len - 1
    PROVE  LET a == Dft(even, len, sign)[k]
               b == Mul(Phasor(sign * k, 2 * len), Dft(odd, len, sign)[k])
           IN  /\ a \in Complex /\ b \in Complex /\ Dft(odd, len, sign)[k] \in Complex
               /\ Dft(x, 2 * len, sign)[k] = Add(a, b)
               /\ Dft(x, 2 * len, sign)[k + len] = Add(a, Neg(b))
<1> DEFINE a == Dft(even, len, sign)[k]
           o == Dft(odd, len, sign)[k]
           c == Phasor(sign * k, 2 * len)
<1>p. PICK e \in Nat : Order = (2 * len) * e
  BY DEF PartsOfCircle
<1>1. /\ 2 * len \in Nat /\ k \in Int /\ sign * k \in Int /\ Order = len * (2 * e) /\ 2 * e \in Nat
      /\ k \in 0 .. 2 * len - 1 /\ k + len \in 0 .. 2 * len - 1
  BY <1>p, PhasorHalf, SMT
<1>2. \A t \in 0 .. len - 1 : even[t] \in Complex /\ odd[t] \in Complex
  <2> SUFFICES ASSUME NEW t \in 0 .. len - 1 PROVE even[t] \in Complex /\ odd[t] \in Complex
    OBVIOUS
  <2>1. 2 * t \in 0 .. 2 * len - 1 /\ 2 * t + 1 \in 0 .. 2 * len - 1
    BY SMT
  <2> QED BY <2>1 DEF IsSplit
<1>3. a \in Complex /\ o \in Complex /\ c \in Complex
  <2>1. a \in Complex
    BY <1>p, <1>1, <1>2, DftType
  <2>2. o \in Complex
    BY <1>p, <1>1, <1>2, DftType
  <2>3. c \in Complex
    BY <1>p, <1>1, PhasorLaws
  <2> QED BY <2>1, <2>2, <2>3
<1>s. \A kk \in {k, k + len} :
           Dft(x, 2 * len, sign)[kk]
             = Add(Dft(even, len, sign)[k],
                   Mul(Phasor(sign * kk, 2 * len), Dft(odd, len, sign)[k]))
  BY <1>p, DftSplit
<1>4. Dft(x, 2 * len, sign)[k] = Add(a, Mul(c, o))
  BY <1>s
<1>5. Dft(x, 2 * len, sign)[k + len] = Add(a, Mul(Phasor(sign * (k + len), 2 * len), o))
  BY <1>s
<1>6. Phasor(sign * (k + len), 2 * len) = Neg(c)
  <2>1. CASE sign = 1
    <3>1. sign * (k + len) = sign * k + len
      BY <1>1, <2>1, SMT
    <3> QED BY <1>p, <1>1, <3>1, PhasorHalf
  <2>2. CASE sign = -1
    <3>1. sign * (k + len) + (2 * len) * 1 = sign * k + len /\ sign * (k + len) \in Int /\ 1 \in Int
      BY <1>1, <2>2, SMT
    <3>2. Phasor(sign * (k + len) + (2 * len) * 1, 2 * len) = Phasor(sign * (k + len), 2 * len)
      BY <1>p, <1>1, <3>1, PhasorLaws
    <3>3. Phasor(sign * k + len, 2 * len) = Neg(c)
      BY <1>p, <1>1, PhasorHalf
    <3> QED BY <3>1, <3>2, <3>3
  <2> QED BY <2>1, <2>2
<1>7. Mul(Neg(c), o) = Neg(Mul(c, o))
  <2>1. Neg(c) \in Complex
    BY <1>3, PairTypes
  <2>2. Mul(Neg(c), o) = Mul(o, Neg(c)) /\ Mul(o, Neg(c)) = Neg(Mul(o, c)) /\ Mul(o, c) = Mul(c, o)
    BY <1>3, <2>1, MulLaws
  <2> QED BY <2>2
<1>8. Mul(c, o) \in Complex
  BY <1>3, Closed
<1> QED BY <1>3, <1>4, <1>5, <1>6, <1>7, <1>8

-------------------------------------------------------------------------------
(* The arithmetic of one butterfly *)

\* What a butterfly computes from two entries a and d and the twiddle factor w.
LEMMA ButterflyValues ==
    ASSUME NEW a \in Complex, NEW w \in Complex, NEW d \in Complex,
           NEW tempr, tempr = w[1] * d[1] - w[2] * d[2],
           NEW tempi, tempi = w[1] * d[2] + w[2] * d[1]
    PROVE  /\ << (a[1] + tempr) % P, (a[2] + tempi) % P >> = Add(a, Mul(w, d))
           /\ << (a[1] - tempr) % P, (a[2] - tempi) % P >> = Add(a, Neg(Mul(w, d)))
<1> DEFINE u == a[1]
           v == a[2]
<1>1. /\ u \in Int /\ v \in Int /\ w[1] \in Int /\ w[2] \in Int /\ d[1] \in Int /\ d[2] \in Int
      /\ a = Pair(u, v)
  BY PairOf
<1>2. tempr \in Int /\ tempi \in Int
  BY <1>1, SMT
<1>3. Mul(w, d) = Pair(tempr, tempi)
  BY DEF Mul, Pair
<1> HIDE DEF u, v
<1>4. Add(a, Mul(w, d)) = Pair(u + tempr, v + tempi)
  BY <1>1, <1>2, <1>3, PairLaws
<1>5. Neg(Mul(w, d)) = Pair(0 - tempr, 0 - tempi) /\ 0 - tempr \in Int /\ 0 - tempi \in Int
  <2>1. Neg(Mul(w, d)) = Pair(0 - tempr, 0 - tempi)
    BY <1>2, <1>3, PairLaws
  <2> QED BY <1>2, <2>1, SMT
<1> DEFINE g == 0 - tempr
           h == 0 - tempi
<1>7. u + g = u - tempr /\ v + h = v - tempi
  BY <1>1, <1>2, SMT
<1>g. g \in Int /\ h \in Int /\ Neg(Mul(w, d)) = Pair(g, h)
  BY <1>5
<1> HIDE DEF g, h
<1>6. Add(a, Neg(Mul(w, d))) = Pair(u + g, v + h)
  BY <1>1, <1>g, PairLaws
<1>8. Pair(u + tempr, v + tempi) = << (a[1] + tempr) % P, (a[2] + tempi) % P >>
  BY DEF Pair, u, v
<1>9. Pair(u - tempr, v - tempi) = << (a[1] - tempr) % P, (a[2] - tempi) % P >>
  BY DEF Pair, u, v
<1> QED BY <1>4, <1>6, <1>7, <1>8, <1>9

PairProduct(u, v, s, t) == Pair(u * s - v * t, u * t + v * s)

\* PairLaws for products, with the arithmetic in an operator.
LEMMA PairMul ==
    \A u \in Int, v \in Int, s \in Int, t \in Int :
       Mul(Pair(u, v), Pair(s, t)) = PairProduct(u, v, s, t)
BY PairLaws DEF PairProduct

\* One distribution, for the linear solver.
LEMMA OneMore ==
    ASSUME NEW u \in Int, NEW p \in Int
    PROVE  u * (1 + p) = u + u * p
BY SMT

\* The recurrence with which the twiddle factor is turned: z is the point at half
\* the angle, and 1 - 2 sin(theta/2)^2 = cos(theta).
LEMMA TwiddleRecurrence ==
    ASSUME NEW z \in Complex, Mul(z, Conj(z)) = One, NEW w \in Complex,
           NEW wpr, wpr = (0 - 2 * z[2] * z[2]) % P, NEW wpi, wpi = Mul(z, z)[2]
    PROVE  << (w[1] + w[1] * wpr - w[2] * wpi) % P, (w[2] + w[2] * wpr + w[1] * wpi) % P >>
             = Mul(w, Mul(z, z))
<1> DEFINE c == z[1]
           s == z[2]
           cc == c * c
           ss == s * s
           u == w[1]
           v == w[2]
<1>1. /\ c \in Int /\ s \in Int /\ u \in Int /\ v \in Int /\ w = Pair(u, v)
  BY PairOf
<1>2. cc \in Int /\ ss \in Int /\ 0 - 2 * s * s = 0 - 2 * ss /\ 0 - 2 * ss \in Int
      /\ cc - ss \in Int /\ cc + ss \in Int
  BY <1>1, SMT
<1>3. Mul(z, z)[1] = (cc - ss) % P
  BY DEF Mul
<1>4. (cc + ss) % P = 1
  <2>1. <<Norm(z), 0>> = <<1, 0>>
    BY ConjLaws DEF One
  <2>2. Norm(z) = 1
    BY <2>1
  <2> QED BY <2>2 DEF Norm
<1>5. wpr = (0 - 2 * ss) % P
  BY <1>2
<1>6. Mul(z, z) \in Complex
  BY Closed
<1> HIDE DEF c, s, cc, ss, u, v
<1>7. wpr \in Int /\ wpi \in Int /\ 1 + wpr \in Int
  <2>1. wpr \in Int
    BY <1>2, <1>5, PFacts, SMT
  <2>2. wpi \in Int
    BY <1>6, PairFacts
  <2> QED BY <2>1, <2>2, SMT
<1>8. (1 + wpr) % P = (cc - ss) % P
  <2> DEFINE m == 0 - 2 * ss
  <2>1. m \in Int /\ 1 \in Int /\ wpr = m % P /\ (cc + ss) + m = cc - ss
    BY <1>2, <1>5, SMT
  <2> HIDE DEF m
  <2>2. (1 + (m % P)) % P = (1 + m) % P
    BY <2>1, PFacts, RemainderEarly
  <2>3. (((cc + ss) % P) + m) % P = ((cc + ss) + m) % P
    BY <1>2, <2>1, PFacts, RemainderEarly
  <2> QED BY <1>4, <2>1, <2>2, <2>3
<1>9. Mul(z, z) = Pair(1 + wpr, wpi)
  <2>1. Mul(z, z) = <<Mul(z, z)[1], Mul(z, z)[2]>> /\ Mul(z, z)[2] \in 0 .. P - 1
    BY <1>6, PairFacts DEF Scalar
  <2>2. wpi % P = wpi
    BY <2>1, PFacts, RemainderOfSmall
  <2> QED BY <1>3, <1>8, <2>1, <2>2, Zenon DEF Pair
<1> DEFINE e == 1 + wpr
<1>e. e \in Int /\ Mul(z, z) = Pair(e, wpi)
  BY <1>7, <1>9
<1>11. /\ u * e - v * wpi = u + u * wpr - v * wpi
       /\ u * wpi + v * e = v + v * wpr + u * wpi
  <2>1. u * e = u + u * wpr /\ v * e = v + v * wpr
    BY <1>1, <1>7, OneMore
  <2> DEFINE uw == u * wpr
             vw == v * wpr
             ui == u * wpi
             vi == v * wpi
  <2>2. uw \in Int /\ vw \in Int /\ ui \in Int /\ vi \in Int
    BY <1>1, <1>7, SMT
  <2> HIDE DEF e, uw, vw, ui, vi
  <2>3. u * e - vi = u + uw - vi /\ ui + v * e = v + vw + ui
    BY <1>1, <2>1, <2>2, SMT DEF uw, vw
  <2> QED BY <2>3 DEF uw, vw, ui, vi
<1> HIDE DEF e
<1>10. Mul(w, Mul(z, z)) = Pair(u * e - v * wpi, u * wpi + v * e)
  <2>1. u \in Int /\ v \in Int /\ e \in Int /\ wpi \in Int
    BY <1>1, <1>7, <1>e
  <2>2. Mul(Pair(u, v), Pair(e, wpi)) = Pair(u * e - v * wpi, u * wpi + v * e)
    <3>1. Mul(Pair(u, v), Pair(e, wpi)) = PairProduct(u, v, e, wpi)
      BY <2>1, PairMul
    <3> QED BY <3>1, Zenon DEF PairProduct
  <2> QED BY <1>1, <1>e, <2>2, Zenon
<1>12. Pair(u + u * wpr - v * wpi, v + v * wpr + u * wpi)
         = << (w[1] + w[1] * wpr - w[2] * wpi) % P, (w[2] + w[2] * wpr + w[1] * wpi) % P >>
  BY DEF Pair, u, v
<1> QED BY <1>10, <1>11, <1>12


-------------------------------------------------------------------------------
(***************************************************************************)
(* The facts of Fourier transforms the acquisition rests on, for every     *)
(* length whose angles are on the circle: the inverse transform undoes the *)
(* forward one; a product of spectra is the spectrum of a circular         *)
(* convolution; with one of them conjugated, of the cross-correlation; and *)
(* a transform of any length is a convolution with a chirp (Bluestein).    *)
(*                                                                          *)
(* All of them come down to one sum: the phasors of a whole circle add up   *)
(* to zero unless each of them is one (Orthogonal).                         *)
(***************************************************************************)

(* Sums of phasors *)

\* A sum of zeros.
LEMMA TotalZero ==
    ASSUME NEW x, NEW len \in Nat, \A t \in 0 .. len - 1 : x[t] = Zero
    PROVE  Total(x, len) = Zero
<1> DEFINE T == {l \in Nat : l <= len => Total(x, l) = Zero}
<1>1. 0 \in T
  BY TotalStep
<1>2. ASSUME NEW l \in Nat, l \in T PROVE l + 1 \in T
  <2> SUFFICES ASSUME l + 1 <= len PROVE Total(x, l + 1) = Zero
    BY <1>2, SMT
  <2>1. l \in 0 .. len - 1 /\ l <= len
    BY <1>2, SMT
  <2>2. Total(x, l + 1) = Add(Total(x, l), x[l])
    BY <1>2, TotalStep
  <2>3. Total(x, l) = Zero /\ x[l] = Zero /\ Add(Zero, Zero) = Zero
    BY <1>2, <2>1, PairFacts, AddLaws
  <2> QED BY <2>2, <2>3
<1>3. \A l \in Nat : l \in T
  <2> HIDE DEF T
  <2> QED BY <1>1, <1>2, InductiveSet
<1>4. len \in T /\ len <= len
  BY <1>3, SMT
<1> QED BY <1>4

\* Only one element is not zero.
LEMMA TotalSingle ==
    ASSUME NEW x, NEW len \in Nat, NEW s \in 0 .. len - 1, x[s] \in Complex,
           \A t \in 0 .. len - 1 : t # s => x[t] = Zero
    PROVE  Total(x, len) = x[s]
<1> DEFINE T == {l \in Nat : l <= len => Total(x, l) = IF s < l THEN x[s] ELSE Zero}
<1>1. 0 \in T
  <2>1. ~ (s < 0)
    BY SMT
  <2> QED BY <2>1, TotalStep
<1>2. ASSUME NEW l \in Nat, l \in T PROVE l + 1 \in T
  <2> SUFFICES ASSUME l + 1 <= len
               PROVE  Total(x, l + 1) = IF s < l + 1 THEN x[s] ELSE Zero
    BY <1>2, SMT
  <2>1. l \in 0 .. len - 1 /\ l <= len
    BY <1>2, SMT
  <2>2. Total(x, l + 1) = Add(Total(x, l), x[l])
    BY <1>2, TotalStep
  <2>3. Total(x, l) = IF s < l THEN x[s] ELSE Zero
    BY <1>2, <2>1
  <2>4. Zero \in Complex /\ Add(Zero, Zero) = Zero /\ Add(Zero, x[s]) = x[s]
        /\ Add(x[s], Zero) = x[s]
    BY PairFacts, AddLaws
  <2>5. CASE l = s
    <3>1. ~ (s < l) /\ s < l + 1
      BY <2>5, SMT
    <3> QED BY <2>2, <2>3, <2>4, <2>5, <3>1
  <2>6. CASE l # s
    <3>1. s < l + 1 <=> s < l
      BY <2>6, SMT
    <3>2. x[l] = Zero
      BY <2>1, <2>6
    <3> QED BY <2>2, <2>3, <2>4, <3>1, <3>2
  <2> QED BY <2>5, <2>6
<1>3. \A l \in Nat : l \in T
  <2> HIDE DEF T
  <2> QED BY <1>1, <1>2, InductiveSet
<1>4. len \in T /\ len <= len /\ s < len
  BY <1>3, SMT
<1> QED BY <1>4

\* Zeros at the end do not count.
LEMMA TotalPadded ==
    ASSUME NEW x, NEW len \in Nat, NEW more \in Nat, len <= more,
           \A t \in 0 .. len - 1 : x[t] \in Complex,
           \A t \in 0 .. more - 1 : t >= len => x[t] = Zero
    PROVE  Total(x, more) = Total(x, len)
<1> DEFINE T == {l \in Nat : len <= l /\ l <= more => Total(x, l) = Total(x, len)}
<1>1. 0 \in T
  <2>1. len <= 0 => len = 0
    BY SMT
  <2> QED BY <2>1
<1>2. ASSUME NEW l \in Nat, l \in T PROVE l + 1 \in T
  <2> SUFFICES ASSUME len <= l + 1, l + 1 <= more PROVE Total(x, l + 1) = Total(x, len)
    BY <1>2, SMT
  <2>1. CASE len = l + 1
    BY <2>1
  <2>2. CASE len # l + 1
    <3>1. l \in 0 .. more - 1 /\ l <= more /\ len <= l /\ l >= len
      BY <1>2, <2>2, SMT
    <3>2. Total(x, l + 1) = Add(Total(x, l), x[l])
      BY <1>2, TotalStep
    <3>3. Total(x, l) = Total(x, len) /\ x[l] = Zero
      BY <1>2, <3>1
    <3>4. Total(x, len) \in Complex
      BY TotalType
    <3> QED BY <3>2, <3>3, <3>4, PairFacts, AddLaws
  <2> QED BY <2>1, <2>2
<1>3. \A l \in Nat : l \in T
  <2> HIDE DEF T
  <2> QED BY <1>1, <1>2, InductiveSet
<1>4. more \in T /\ more <= more
  BY <1>3, SMT
<1> QED BY <1>4

\* The conjugate of a sum.
LEMMA TotalConj ==
    ASSUME NEW x, NEW z, NEW len \in Nat,
           \A t \in 0 .. len - 1 : x[t] \in Complex /\ z[t] = Conj(x[t])
    PROVE  Total(z, len) = Conj(Total(x, len))
<1> DEFINE T == {l \in Nat : l <= len => /\ Total(x, l) \in Complex
                                         /\ Total(z, l) = Conj(Total(x, l))}
<1>1. 0 \in T
  BY TotalStep, PairFacts, ConjLaws
<1>2. ASSUME NEW l \in Nat, l \in T PROVE l + 1 \in T
  <2> SUFFICES ASSUME l + 1 <= len
               PROVE  /\ Total(x, l + 1) \in Complex
                      /\ Total(z, l + 1) = Conj(Total(x, l + 1))
    BY <1>2, SMT
  <2>1. l \in 0 .. len - 1 /\ l <= len
    BY <1>2, SMT
  <2>2. Total(x, l + 1) = Add(Total(x, l), x[l]) /\ Total(z, l + 1) = Add(Total(z, l), z[l])
    BY <1>2, TotalStep
  <2>3. /\ Total(x, l) \in Complex /\ x[l] \in Complex /\ z[l] = Conj(x[l])
        /\ Total(z, l) = Conj(Total(x, l))
    BY <1>2, <2>1
  <2>4. Total(x, l + 1) \in Complex
    BY <2>2, <2>3, Closed
  <2> QED BY <2>2, <2>3, <2>4, ConjLaws
<1>3. \A l \in Nat : l \in T
  <2> HIDE DEF T
  <2> QED BY <1>1, <1>2, InductiveSet
<1>4. len \in T /\ len <= len
  BY <1>3, SMT
<1> QED BY <1>4

\* The entries of a matrix can be summed by rows or by columns.
RowSums(x, rows, cols)    == [s \in 0 .. rows - 1 |-> Total(x[s], cols)]
ColumnSums(x, rows, cols) ==
    [t \in 0 .. cols - 1 |-> Total([s \in 0 .. rows - 1 |-> x[s][t]], rows)]

\* The order of summation.
LEMMA TotalExchange ==
    ASSUME NEW x, NEW rows \in Nat, NEW cols \in Nat,
           \A s \in 0 .. rows - 1, t \in 0 .. cols - 1 : x[s][t] \in Complex
    PROVE  Total(RowSums(x, rows, cols), rows) = Total(ColumnSums(x, rows, cols), cols)
<1> DEFINE RS == RowSums(x, rows, cols)
           Col(t) == [s \in 0 .. rows - 1 |-> x[s][t]]
           CS(l) == [t \in 0 .. cols - 1 |-> Total(Col(t), l)]
           T == {l \in Nat : l <= rows => Total(RS, l) = Total(CS(l), cols)}
<1>c. ASSUME NEW l \in Nat, NEW t \in 0 .. cols - 1, l <= rows PROVE CS(l)[t] \in Complex
  <2>1. CS(l)[t] = Total(Col(t), l)
    OBVIOUS
  <2>2. \A s \in 0 .. l - 1 : s \in 0 .. rows - 1
    BY <1>c, SMT
  <2>3. \A s \in 0 .. l - 1 : Col(t)[s] \in Complex
    BY <2>2
  <2> HIDE DEF Col
  <2> QED BY <2>1, <2>3, TotalType
<1>1. 0 \in T
  <2>1. \A t \in 0 .. cols - 1 : CS(0)[t] = Zero
    BY TotalStep
  <2> HIDE DEF CS
  <2>2. Total(CS(0), cols) = Zero
    BY <2>1, TotalZero
  <2> QED BY <2>2, TotalStep
<1>2. ASSUME NEW l \in Nat, l \in T PROVE l + 1 \in T
  <2> SUFFICES ASSUME l + 1 <= rows PROVE Total(RS, l + 1) = Total(CS(l + 1), cols)
    BY <1>2, SMT
  <2>1. l \in 0 .. rows - 1 /\ l <= rows /\ l + 1 \in Nat
    BY <1>2, SMT
  <2>2. Total(RS, l + 1) = Add(Total(RS, l), RS[l]) /\ RS[l] = Total(x[l], cols)
    BY <1>2, <2>1, TotalStep DEF RowSums
  <2>3. Total(RS, l) = Total(CS(l), cols)
    BY <1>2, <2>1
  <2>4. ASSUME NEW t \in 0 .. cols - 1
        PROVE  CS(l)[t] \in Complex /\ x[l][t] \in Complex /\ CS(l + 1)[t] = Add(CS(l)[t], x[l][t])
    <3>1. Total(Col(t), l + 1) = Add(Total(Col(t), l), Col(t)[l]) /\ Col(t)[l] = x[l][t]
      BY <1>2, <2>1, TotalStep
    <3>2. x[l][t] \in Complex
      BY <2>1
    <3>3. CS(l)[t] \in Complex
      BY <1>c, <2>1
    <3> HIDE DEF Col
    <3> QED BY <3>1, <3>2, <3>3
  <2> HIDE DEF CS, RS
  <2>5. Total(CS(l + 1), cols) = Add(Total(CS(l), cols), Total(x[l], cols))
    BY <2>4, TotalSum
  <2> QED BY <2>2, <2>3, <2>5
<1>3. \A l \in Nat : l \in T
  <2> HIDE DEF T
  <2> QED BY <1>1, <1>2, InductiveSet
<1>4. rows \in T /\ rows <= rows
  BY <1>3, SMT
<1>5. CS(rows) = ColumnSums(x, rows, cols)
  BY DEF ColumnSums
<1> QED BY <1>4, <1>5

-------------------------------------------------------------------------------
(* Orthogonality of the phasors *)

\* The phasors of a length on the circle: periodic, of norm one, and adding angles.
LEMMA WaveLaws ==
    ASSUME NEW N \in Nat, PartsOfCircle(N)
    PROVE  /\ N > 0 /\ Phasor(0, N) = One
           /\ \A k \in Int : /\ Phasor(k, N) \in Complex
                             /\ Conj(Phasor(k, N)) = Phasor(0 - k, N)
                             /\ k % N # 0 => Phasor(k, N) # One
           /\ \A k \in Int, l \in Int : /\ Phasor(k + l, N) = Mul(Phasor(k, N), Phasor(l, N))
                                        /\ Phasor(k + N * l, N) = Phasor(k, N)
<1>1. PICK e \in Nat : Order = N * e
  BY DEF PartsOfCircle
<1>2. N > 0 /\ e > 0
  <2>1. N = 0 \/ e = 0 => N * e = 0
    BY SMT
  <2> QED BY <1>1, <2>1, OrderFacts, SMT
<1>3. ASSUME NEW k \in Int, NEW l \in Int
      PROVE  /\ Phasor(k, N) \in Complex /\ Conj(Phasor(k, N)) = Phasor(0 - k, N)
             /\ Phasor(0, N) = One
             /\ Phasor(k + l, N) = Mul(Phasor(k, N), Phasor(l, N))
             /\ Phasor(k + N * l, N) = Phasor(k, N)
  BY <1>1, PhasorLaws
<1>4. ASSUME NEW k \in Int, k % N # 0 PROVE Phasor(k, N) # One
  <2>1. Phasor(k, N) = Turn(k * e) /\ k * e \in Int
    BY <1>1, PhasorIs
  <2>2. (k * e) % Order # 0
    <3> SUFFICES ASSUME (k * e) % Order = 0 PROVE FALSE
      OBVIOUS
    <3> DEFINE ke == k * e
               q == ke \div Order
    <3>1. ke % Order = 0 /\ ke \in Int
      BY <2>1
    <3> HIDE DEF ke
    <3>2. q \in Int /\ ke = Order * q + (ke % Order)
      BY <3>1, OrderFacts, DivMod
    <3> HIDE DEF q
    <3>3. ke = Order * q
      <4> DEFINE oq == Order * q
      <4>1. oq \in Int /\ ke = oq + 0
        BY <3>1, <3>2, OrderFacts, SMT
      <4> HIDE DEF oq
      <4>2. ke = oq
        BY <4>1, SMT
      <4> QED BY <4>2 DEF oq
    <3>4. k * e = (N * e) * q
      BY <1>1, <3>3 DEF ke
    <3>5. e * (k - N * q) = k * e - (N * e) * q /\ k - N * q \in Int /\ k * e \in Int
      BY <3>2, SMT
    <3>6. e * (k - N * q) = 0
      BY <3>4, <3>5, SMT
    <3>7. k - N * q = 0
      <4> DEFINE dd == k - N * q
      <4>1. dd \in Int /\ e * dd = 0
        BY <3>5, <3>6
      <4> HIDE DEF dd
      <4>2. dd = 0
        BY <1>2, <4>1, SMT
      <4> QED BY <4>2 DEF dd
    <3>8. k = N * q + 0 /\ 0 \in 0 .. N - 1
      <4> DEFINE nq == N * q
      <4>1. nq \in Int /\ k - nq = 0
        BY <3>2, <3>7, SMT
      <4> HIDE DEF nq
      <4>2. k = nq + 0
        BY <4>1, SMT
      <4>3. 0 \in 0 .. N - 1
        BY <1>2, SMT
      <4> QED BY <4>2, <4>3 DEF nq
    <3>9. k % N = 0
      BY <3>2, <3>8, DivModAre
    <3> QED BY <1>4, <3>9
  <2> QED BY <2>1, <2>2, TurnNotOne
<1>5. Phasor(0, N) = One
  <2>1. 0 \in Int
    BY SMT
  <2> QED BY <1>3, <2>1
<1> QED BY <1>2, <1>3, <1>4, <1>5

\* A sum of ones is the length.
LEMMA TotalOnes ==
    ASSUME NEW x, NEW len \in Nat, \A t \in 0 .. len - 1 : x[t] = One
    PROVE  Total(x, len) = Pair(len, 0)
<1> DEFINE T == {l \in Nat : l <= len => Total(x, l) = Pair(l, 0)}
<1>1. 0 \in T
  <2>1. Pair(0, 0) = Zero /\ 0 \in Int
    <3>1. 0 \in Int
      BY SMT
    <3> QED BY <3>1, RealLaws
  <2> QED BY <2>1, TotalStep
<1>2. ASSUME NEW l \in Nat, l \in T PROVE l + 1 \in T
  <2> SUFFICES ASSUME l + 1 <= len PROVE Total(x, l + 1) = Pair(l + 1, 0)
    BY <1>2, SMT
  <2>1. l \in 0 .. len - 1 /\ l <= len /\ l \in Int /\ 1 \in Int
    BY <1>2, SMT
  <2>2. Total(x, l + 1) = Add(Total(x, l), x[l])
    BY <1>2, TotalStep
  <2>3. Total(x, l) = Pair(l, 0) /\ x[l] = One
    BY <1>2, <2>1
  <2>4. Add(Pair(l, 0), Pair(1, 0)) = Pair(l + 1, 0) /\ Pair(1, 0) = One
    BY <2>1, RealLaws
  <2> QED BY <2>2, <2>3, <2>4
<1>3. \A l \in Nat : l \in T
  <2> HIDE DEF T
  <2> QED BY <1>1, <1>2, InductiveSet
<1>4. len \in T /\ len <= len
  BY <1>3, SMT
<1> QED BY <1>4

\* Subtracting the same from both sides.
LEMMA AddCancelsBoth ==
    ASSUME NEW a \in Complex, NEW b \in Complex, NEW c \in Complex, Add(a, c) = Add(b, c)
    PROVE  a = b
<1>1. Neg(c) \in Complex
  BY PairTypes
<1>2. Add(Add(a, c), Neg(c)) = Add(a, Add(c, Neg(c)))
  BY <1>1, AddLaws
<1>3. Add(Add(b, c), Neg(c)) = Add(b, Add(c, Neg(c)))
  BY <1>1, AddLaws
<1>4. Add(c, Neg(c)) = Zero /\ Add(a, Zero) = a /\ Add(b, Zero) = b
  BY AddLaws
<1> QED BY <1>2, <1>3, <1>4

\* A number that a factor other than one leaves alone is zero.
LEMMA FixedIsZero ==
    ASSUME NEW z \in Complex, NEW s \in Complex, z # One,
           Add(Mul(z, s), One) = Add(s, One)
    PROVE  s = Zero
<1>1. One \in Complex /\ Neg(One) \in Complex /\ Mul(z, s) \in Complex
      /\ Add(z, Neg(One)) \in Complex
  BY PairFacts, PairTypes
<1>2. Mul(z, s) = s
  BY <1>1, AddCancelsBoth
<1>3. Mul(Add(z, Neg(One)), s) = Add(Mul(z, s), Mul(Neg(One), s))
  BY <1>1, MulLaws
<1>4. Mul(Neg(One), s) = Neg(s)
  <2>1. Mul(Neg(One), s) = Mul(s, Neg(One))
    BY <1>1, MulLaws
  <2>2. Mul(s, Neg(One)) = Neg(Mul(s, One)) /\ Mul(s, One) = s
    BY <1>1, MulLaws
  <2> QED BY <2>1, <2>2
<1>5. Add(s, Neg(s)) = Zero
  BY AddLaws
<1>6. Mul(Add(z, Neg(One)), s) = Zero
  BY <1>2, <1>3, <1>4, <1>5
<1>7. Add(z, Neg(One)) # Zero
  <2> SUFFICES ASSUME Add(z, Neg(One)) = Zero PROVE FALSE
    OBVIOUS
  <2>1. Add(One, Neg(One)) = Zero
    BY <1>1, AddLaws
  <2>2. z = One
    BY <1>1, <2>1, AddCancelsBoth
  <2> QED BY <2>2
<1> QED BY <1>1, <1>6, <1>7, NoZeroDivisors

\* A wave summed over its length.
LEMMA Orthogonal ==
    ASSUME NEW N \in Nat, PartsOfCircle(N), NEW l \in Int, NEW f,
           \A j \in 0 .. N - 1 : f[j] = Phasor(j * l, N)
    PROVE  Total(f, N) = IF l % N = 0 THEN Pair(N, 0) ELSE Zero
<1>1. CASE l % N = 0
  <2> DEFINE q == l \div N
  <2>1. q \in Int /\ l = N * q + (l % N)
    BY WaveLaws, DivMod
  <2> HIDE DEF q
  <2>2. l = N * q
    <3> DEFINE nq == N * q
    <3>1. nq \in Int /\ l = nq + 0
      BY <1>1, <2>1, SMT
    <3> HIDE DEF nq
    <3>2. l = nq
      BY <3>1, SMT
    <3> QED BY <3>2 DEF nq
  <2>3. ASSUME NEW j \in 0 .. N - 1 PROVE f[j] = One
    <3>1. j \in Int /\ 0 \in Int /\ j * q \in Int
      BY <2>1, SMT
    <3>2. j * (N * q) = 0 + N * (j * q)
      BY <2>1, <3>1, SMT
    <3>3. Phasor(0 + N * (j * q), N) = Phasor(0, N) /\ Phasor(0, N) = One
      <4> DEFINE jq == j * q
      <4>1. jq \in Int
        BY <3>1
      <4> HIDE DEF jq
      <4>2. Phasor(0 + N * jq, N) = Phasor(0, N) /\ Phasor(0, N) = One
        BY <3>1, <4>1, WaveLaws
      <4> QED BY <4>2 DEF jq
    <3>4. f[j] = Phasor(j * (N * q), N)
      BY <2>2
    <3> QED BY <3>2, <3>3, <3>4
  <2> QED BY <1>1, <2>3, TotalOnes
<1>2. CASE l % N # 0
  <2> DEFINE z == Phasor(l, N)
             W(k) == Phasor(k * l, N)
             T == {k \in Nat : k <= N => /\ Total(f, k) \in Complex
                                         /\ Add(Mul(z, Total(f, k)), One) = Add(Total(f, k), W(k))}
  <2>1. z \in Complex /\ z # One /\ One \in Complex /\ Zero \in Complex
    BY <1>2, WaveLaws, PairFacts
  <2>2. \A k \in Nat : W(k) \in Complex /\ W(k + 1) = Mul(z, W(k))
    <3> SUFFICES ASSUME NEW k \in Nat PROVE W(k) \in Complex /\ W(k + 1) = Mul(z, W(k))
      OBVIOUS
    <3>1. k * l \in Int /\ (k + 1) * l = l + k * l
      BY SMT
    <3> DEFINE kl == k * l
    <3>2. kl \in Int
      BY <3>1
    <3> HIDE DEF kl
    <3>3. Phasor(kl, N) \in Complex /\ Phasor(l + kl, N) = Mul(Phasor(l, N), Phasor(kl, N))
      BY <3>2, WaveLaws
    <3> QED BY <3>1, <3>3 DEF kl
  <2>3. W(0) = One
    <3>1. 0 * l = 0
      BY SMT
    <3> QED BY <3>1, WaveLaws
  <2>4. W(N) = One
    <3>1. N * l = 0 + N * l /\ 0 \in Int
      BY SMT
    <3>2. Phasor(0 + N * l, N) = Phasor(0, N)
      BY <3>1, WaveLaws
    <3> QED BY <3>1, <3>2, WaveLaws
  <2>5. \A k \in 0 .. N - 1 : f[k] = W(k)
    OBVIOUS
  <2> HIDE DEF W, z
  <2>6. 0 \in T
    BY <2>1, <2>3, TotalStep, MulLaws
  <2>7. ASSUME NEW k \in Nat, k \in T PROVE k + 1 \in T
    <3> SUFFICES ASSUME k + 1 <= N
                 PROVE  /\ Total(f, k + 1) \in Complex
                        /\ Add(Mul(z, Total(f, k + 1)), One) = Add(Total(f, k + 1), W(k + 1))
      BY <2>7, SMT
    <3> DEFINE s == Total(f, k)
               p == W(k)
    <3>1. k \in 0 .. N - 1 /\ k <= N
      BY <2>7, SMT
    <3>2. Total(f, k + 1) = Add(s, p)
      BY <2>5, <2>7, <3>1, TotalStep
    <3>3. s \in Complex /\ p \in Complex /\ Add(Mul(z, s), One) = Add(s, p)
          /\ W(k + 1) = Mul(z, p)
      BY <2>2, <2>7, <3>1
    <3> HIDE DEF s, p
    <3>4. Mul(z, s) \in Complex /\ Mul(z, p) \in Complex /\ Add(s, p) \in Complex
      BY <2>1, <3>3, Closed
    <3>5. Mul(z, Add(s, p)) = Add(Mul(z, s), Mul(z, p))
      BY <2>1, <3>3, MulLaws
    <3>6. Add(Add(Mul(z, s), Mul(z, p)), One) = Add(Add(Mul(z, s), One), Mul(z, p))
      <4> DEFINE a == Mul(z, s)
                 b == Mul(z, p)
      <4>1. a \in Complex /\ b \in Complex
        BY <3>4
      <4> HIDE DEF a, b
      <4>2. Add(Add(a, b), One) = Add(a, Add(b, One))
        BY <2>1, <4>1, AddLaws
      <4>3. Add(Add(a, One), b) = Add(a, Add(One, b))
        BY <2>1, <4>1, AddLaws
      <4>4. Add(b, One) = Add(One, b)
        BY <2>1, <4>1, AddLaws
      <4> QED BY <4>2, <4>3, <4>4 DEF a, b
    <3> QED BY <3>2, <3>3, <3>4, <3>5, <3>6
  <2>8. \A k \in Nat : k \in T
    <3> HIDE DEF T
    <3> QED BY <2>6, <2>7, InductiveSet
  <2>9. N \in T /\ N <= N
    BY <2>8, SMT
  <2>10. Total(f, N) \in Complex /\ Add(Mul(z, Total(f, N)), One) = Add(Total(f, N), One)
    BY <2>4, <2>9
  <2> QED BY <1>2, <2>1, <2>10, FixedIsZero
<1> QED BY <1>1, <1>2

-------------------------------------------------------------------------------
(* The inverse transform *)

\* Products of three and four factors in another order.
LEMMA MulShuffle ==
    ASSUME NEW a \in Complex, NEW b \in Complex, NEW c \in Complex
    PROVE  Mul(a, Mul(b, c)) = Mul(b, Mul(a, c))
<1>1. Mul(Mul(a, b), c) = Mul(a, Mul(b, c))
  BY MulLaws
<1>2. Mul(Mul(b, a), c) = Mul(b, Mul(a, c))
  BY MulLaws
<1>3. Mul(a, b) = Mul(b, a)
  BY MulLaws
<1> QED BY <1>1, <1>2, <1>3

\* The exponents of the two waves in an inverse transform add up.
LEMMA Exponents ==
    ASSUME NEW j \in Int, NEW u \in Int, NEW t \in Int
    PROVE  j * u \in Int /\ (-1) * j * t \in Int /\ j * (u - t) \in Int
           /\ j * u + ((-1) * j * t) = j * (u - t)
BY SMT

\* Two indexes below the length that agree modulo the length.
LEMMA SameIndex ==
    ASSUME NEW N \in Nat, N > 0, NEW u \in Int, NEW t \in 0 .. N - 1
    PROVE  u % N \in 0 .. N - 1 /\ ((u - t) % N = 0 <=> t = u % N)
<1> DEFINE q == u \div N
           r == u % N
<1>1. r \in 0 .. N - 1 /\ q \in Int /\ u = N * q + r
  BY DivMod
<1> HIDE DEF q, r
<1>2. ASSUME t = r PROVE (u - t) % N = 0
  <2> DEFINE nq == N * q
  <2>1. nq \in Int /\ u = nq + r /\ r \in Int
    BY <1>1, SMT
  <2> HIDE DEF nq
  <2>2. u - t = nq + 0 /\ 0 \in 0 .. N - 1 /\ u - t \in Int
    BY <1>2, <2>1, SMT
  <2>3. u - t = N * q + 0
    BY <2>2 DEF nq
  <2> QED BY <1>1, <2>2, <2>3, DivModAre
<1>3. ASSUME (u - t) % N = 0 PROVE t = r
  <2> DEFINE v == u - t
             p == v \div N
  <2>1. v \in Int /\ v % N = 0
    BY <1>3, SMT
  <2>2. p \in Int /\ v = N * p + (v % N)
    <3> HIDE DEF v
    <3> QED BY <2>1, DivMod
  <2> HIDE DEF p
  <2>3. u = N * p + t
    <3> DEFINE np == N * p
    <3>1. np \in Int /\ u - t = np + 0
      BY <2>1, <2>2, SMT
    <3> HIDE DEF np, v
    <3>2. u = np + t
      BY <3>1, SMT
    <3> QED BY <3>2 DEF np
  <2>4. u % N = t
    BY <2>2, <2>3, DivModAre
  <2> QED BY <2>4 DEF r
<1> QED BY <1>1, <1>2, <1>3 DEF r

\* Every sample, times the length, is the inverse transform of the spectrum.
LEMMA Inversion ==
    ASSUME NEW N \in Nat, PartsOfCircle(N), NEW b, \A t \in 0 .. N - 1 : b[t] \in Complex,
           NEW u \in Int, NEW g,
           \A j \in 0 .. N - 1 : g[j] = Mul(Phasor(j * u, N), Dft(b, N, -1)[j])
    PROVE  Total(g, N) = Mul(Pair(N, 0), b[u % N]) /\ b[u % N] \in Complex
<1> DEFINE W(k) == Phasor(k, N)
           x == [j \in 0 .. N - 1 |-> [t \in 0 .. N - 1 |-> Mul(b[t], W(j * (u - t)))]]
           cc == Pair(N, 0)
<1>1. N > 0 /\ N \in Int /\ -1 \in {-1, 1}
  BY WaveLaws, SMT
<1>2. /\ \A k \in Int : W(k) \in Complex
      /\ \A k \in Int, l \in Int : W(k + l) = Mul(W(k), W(l))
  BY WaveLaws
<1>3. cc \in Complex
  <2>1. 0 \in Int
    BY SMT
  <2> QED BY <1>1, <2>1, PairLaws
<1>4. \A j \in 0 .. N - 1, t \in 0 .. N - 1 :
        /\ x[j][t] = Mul(b[t], W(j * (u - t))) /\ x[j][t] \in Complex
  <2> SUFFICES ASSUME NEW j \in 0 .. N - 1, NEW t \in 0 .. N - 1
               PROVE  x[j][t] = Mul(b[t], W(j * (u - t))) /\ x[j][t] \in Complex
    OBVIOUS
  <2>1. j * (u - t) \in Int
    BY Exponents, SMT
  <2>2. W(j * (u - t)) \in Complex
    BY <1>2, <2>1
  <2>3. x[j][t] = Mul(b[t], W(j * (u - t)))
    OBVIOUS
  <2> QED BY <2>2, <2>3, Closed
<1>5. ASSUME NEW j \in 0 .. N - 1 PROVE Total(x[j], N) = g[j]
  <2> DEFINE y == [t \in 0 .. N - 1 |-> Mul(b[t], W((-1) * j * t))]
             c == W(j * u)
  <2>1. Dft(b, N, -1)[j] = Total(y, N)
    BY <1>1, DftIs
  <2>2. j \in Int
    BY SMT
  <2>3. c \in Complex
    <3>1. j * u \in Int
      BY <2>2, SMT
    <3> QED BY <1>2, <3>1
  <2>4. ASSUME NEW t \in 0 .. N - 1
        PROVE  y[t] \in Complex /\ x[j][t] = Mul(c, y[t])
    <3> DEFINE e1 == j * u
               e2 == (-1) * j * t
               e3 == j * (u - t)
    <3>1. t \in Int
      BY SMT
    <3>2. e1 \in Int /\ e2 \in Int /\ e3 \in Int /\ e1 + e2 = e3
      BY <2>2, <3>1, Exponents
    <3>3. y[t] = Mul(b[t], W(e2)) /\ x[j][t] = Mul(b[t], W(e3))
      BY <1>4
    <3> HIDE DEF e1, e2, e3, W, x, y
    <3>4. W(e3) = Mul(W(e1), W(e2)) /\ W(e1) \in Complex /\ W(e2) \in Complex
          /\ b[t] \in Complex
      BY <1>2, <3>2
    <3>5. Mul(b[t], Mul(W(e1), W(e2))) = Mul(W(e1), Mul(b[t], W(e2)))
      BY <3>4, MulShuffle
    <3>6. y[t] \in Complex
      BY <3>3, <3>4, Closed
    <3> QED BY <3>3, <3>4, <3>5, <3>6 DEF e1
  <2> HIDE DEF y, c, x
  <2>5. Total(x[j], N) = Mul(c, Total(y, N))
    BY <2>3, <2>4, TotalTimes
  <2> QED BY <2>1, <2>5 DEF c
<1>6. Total(g, N) = Total(ColumnSums(x, N, N), N)
  <2>1. Total(RowSums(x, N, N), N) = Total(ColumnSums(x, N, N), N)
    <3> HIDE DEF x
    <3> QED BY <1>4, TotalExchange
  <2>2. \A j \in 0 .. N - 1 : RowSums(x, N, N)[j] = g[j]
    <3> HIDE DEF x
    <3> QED BY <1>5 DEF RowSums
  <2>3. Total(RowSums(x, N, N), N) = Total(g, N)
    <3> HIDE DEF x
    <3> QED BY <2>2, TotalSame
  <2> QED BY <2>1, <2>3
<1>7. ASSUME NEW t \in 0 .. N - 1
      PROVE  ColumnSums(x, N, N)[t]
               = Mul(b[t], IF (u - t) % N = 0 THEN cc ELSE Zero)
  <2> DEFINE col == [j \in 0 .. N - 1 |-> x[j][t]]
             wave == [j \in 0 .. N - 1 |-> W(j * (u - t))]
             l == u - t
  <2>1. ColumnSums(x, N, N)[t] = Total(col, N)
    BY DEF ColumnSums
  <2>2. l \in Int /\ b[t] \in Complex
    <3>1. u - t \in Int
      BY SMT
    <3> QED BY <3>1
  <2>3. \A j \in 0 .. N - 1 : /\ wave[j] = Phasor(j * l, N) /\ wave[j] \in Complex
                              /\ col[j] = Mul(b[t], wave[j])
    <3> SUFFICES ASSUME NEW j \in 0 .. N - 1
                 PROVE  /\ wave[j] = Phasor(j * l, N) /\ wave[j] \in Complex
                        /\ col[j] = Mul(b[t], wave[j])
      OBVIOUS
    <3>1. j * l \in Int
      <4> HIDE DEF l
      <4> QED BY <2>2, SMT
    <3>2. wave[j] = Phasor(j * l, N) /\ col[j] = Mul(b[t], wave[j])
      OBVIOUS
    <3> QED BY <1>2, <3>1, <3>2
  <2> HIDE DEF col, wave, l, W, x
  <2>4. Total(col, N) = Mul(b[t], Total(wave, N))
    BY <2>2, <2>3, TotalTimes
  <2>5. Total(wave, N) = IF l % N = 0 THEN Pair(N, 0) ELSE Zero
    BY <2>2, <2>3, Orthogonal
  <2> QED BY <2>1, <2>4, <2>5 DEF l
<1> DEFINE r == u % N
           cs == ColumnSums(x, N, N)
<1>8. r \in 0 .. N - 1 /\ \A t \in 0 .. N - 1 : (u - t) % N = 0 <=> t = r
  <2>1. \A t \in 0 .. N - 1 : u % N \in 0 .. N - 1 /\ ((u - t) % N = 0 <=> t = u % N)
    BY <1>1, SameIndex
  <2>2. 0 \in 0 .. N - 1
    BY <1>1, SMT
  <2> QED BY <2>1, <2>2
<1> HIDE DEF r, cs, x, W, cc
<1>9. cs[r] = Mul(b[r], cc) /\ b[r] \in Complex /\ Mul(b[r], cc) = Mul(cc, b[r])
  <2>1. cs[r] = Mul(b[r], cc) /\ b[r] \in Complex
    BY <1>7, <1>8 DEF cs
  <2> QED BY <1>3, <2>1, MulLaws
<1>10. \A t \in 0 .. N - 1 : t # r => cs[t] = Zero
  <2> SUFFICES ASSUME NEW t \in 0 .. N - 1, t # r PROVE cs[t] = Zero
    OBVIOUS
  <2>1. cs[t] = Mul(b[t], Zero) /\ b[t] \in Complex
    BY <1>7, <1>8 DEF cs
  <2> QED BY <2>1, PairFacts, MulLaws
<1>11. Total(cs, N) = cs[r]
  <2>1. cs[r] \in Complex
    BY <1>3, <1>9, Closed
  <2> QED BY <1>8, <1>10, <2>1, TotalSingle
<1> QED BY <1>6, <1>9, <1>11 DEF r, cs, cc

-------------------------------------------------------------------------------
(* Products of spectra *)

\* The factors of a term of the product, by wave and by sample.
LEMMA MulThree ==
    ASSUME NEW a \in Complex, NEW b \in Complex, NEW c \in Complex, NEW d \in Complex
    PROVE  Mul(Mul(a, b), Mul(c, d)) = Mul(c, Mul(Mul(a, d), b))
<1>1. Mul(a, b) \in Complex /\ Mul(a, d) \in Complex /\ Mul(b, d) \in Complex
  BY Closed
<1>2. Mul(Mul(a, b), Mul(c, d)) = Mul(c, Mul(Mul(a, b), d))
  BY <1>1, MulShuffle
<1>3. Mul(Mul(a, b), d) = Mul(a, Mul(b, d)) /\ Mul(Mul(a, d), b) = Mul(a, Mul(d, b))
      /\ Mul(b, d) = Mul(d, b)
  BY MulLaws
<1> QED BY <1>2, <1>3

\* The exponents of the two waves in a convolution or a correlation.
LEMMA MoreExponents ==
    ASSUME NEW j \in Int, NEW k \in Int, NEW d \in {-1, 1}, NEW s \in Int
    PROVE  /\ j * k \in Int /\ j * (d * s) \in Int /\ k + d * s \in Int
           /\ j * (k + d * s) \in Int /\ j * k + j * (d * s) = j * (k + d * s)
<1>1. d \in Int /\ d * s \in Int
  BY SMT
<1> DEFINE e == d * s
<1>2. e \in Int
  BY <1>1
<1> HIDE DEF e
<1>3. /\ j * k \in Int /\ j * e \in Int /\ k + e \in Int
      /\ j * (k + e) \in Int /\ j * k + j * e = j * (k + e)
  BY <1>2, SMT
<1> QED BY <1>3 DEF e

\* The terms of a circular correlation, d = 1, or convolution, d = -1, at k.
Slid(a, b, d, k, N) == [s \in 0 .. N - 1 |-> Mul(a[s], b[(k + d * s) % N])]

\* A is the transform of a in direction d; h holds the terms of the inverse
\* transform, at k, of its product with the transform of b.
IsTransform(A, a, d, N) ==
    \A j \in 0 .. N - 1 :
       A[j] = Total([s \in 0 .. N - 1 |-> Mul(a[s], Phasor(j * (d * s), N))], N)
IsProduct(h, A, b, k, N) ==
    \A j \in 0 .. N - 1 : h[j] = Mul(Phasor(j * k, N), Mul(A[j], Dft(b, N, -1)[j]))

\* The inverse transform of a product of spectra sums the products of the
\* samples at a fixed distance, or at a fixed total, of their indexes.
LEMMA Correlated ==
    ASSUME NEW N \in Nat, PartsOfCircle(N), NEW a, NEW b,
           \A t \in 0 .. N - 1 : a[t] \in Complex /\ b[t] \in Complex,
           NEW d \in {-1, 1}, NEW k \in Int, NEW A, NEW h,
           IsTransform(A, a, d, N), IsProduct(h, A, b, k, N)
    PROVE  Total(h, N) = Mul(Pair(N, 0), Total(Slid(a, b, d, k, N), N))
<1> SUFFICES Total(h, N)
             = Mul(Pair(N, 0), Total([s \in 0 .. N - 1 |-> Mul(a[s], b[(k + d * s) % N])], N))
  BY DEF Slid
<1>h. \A j \in 0 .. N - 1 :
         /\ A[j] = Total([s \in 0 .. N - 1 |-> Mul(a[s], Phasor(j * (d * s), N))], N)
         /\ h[j] = Mul(Phasor(j * k, N), Mul(A[j], Dft(b, N, -1)[j]))
  BY DEF IsTransform, IsProduct
<1> DEFINE W(e) == Phasor(e, N)
           B == Dft(b, N, -1)
           x == [j \in 0 .. N - 1 |->
                   [s \in 0 .. N - 1 |-> Mul(a[s], Mul(W(j * (k + d * s)), B[j]))]]
           cc == Pair(N, 0)
           y == [s \in 0 .. N - 1 |-> Mul(a[s], b[(k + d * s) % N])]
<1>1. N > 0 /\ N \in Int /\ -1 \in {-1, 1}
  BY WaveLaws, SMT
<1>2. /\ \A e \in Int : W(e) \in Complex
      /\ \A e \in Int, l \in Int : W(e + l) = Mul(W(e), W(l))
  BY WaveLaws
<1>3. cc \in Complex
  <2>1. 0 \in Int
    BY SMT
  <2> QED BY <1>1, <2>1, PairLaws
<1>4. \A j \in 0 .. N - 1 : B[j] \in Complex
  BY <1>1, DftType DEF PartsOfCircle
<1>5. \A j \in 0 .. N - 1, s \in 0 .. N - 1 :
        /\ W(j * (k + d * s)) \in Complex
        /\ x[j][s] = Mul(a[s], Mul(W(j * (k + d * s)), B[j])) /\ x[j][s] \in Complex
  <2> SUFFICES ASSUME NEW j \in 0 .. N - 1, NEW s \in 0 .. N - 1
               PROVE  /\ W(j * (k + d * s)) \in Complex
                      /\ x[j][s] = Mul(a[s], Mul(W(j * (k + d * s)), B[j])) /\ x[j][s] \in Complex
    OBVIOUS
  <2>1. j \in Int /\ s \in Int
    BY SMT
  <2>2. j * (k + d * s) \in Int
    BY <2>1, MoreExponents
  <2>3. x[j][s] = Mul(a[s], Mul(W(j * (k + d * s)), B[j]))
    OBVIOUS
  <2>4. W(j * (k + d * s)) \in Complex
    BY <1>2, <2>2
  <2> HIDE DEF W, B, x
  <2> QED BY <1>4, <2>3, <2>4, Closed
<1>6. ASSUME NEW j \in 0 .. N - 1 PROVE Total(x[j], N) = h[j]
  <2> DEFINE z == [s \in 0 .. N - 1 |-> Mul(a[s], W(j * (d * s)))]
             c == Mul(W(j * k), B[j])
  <2>1. A[j] = Total(z, N) /\ h[j] = Mul(W(j * k), Mul(A[j], B[j]))
    BY <1>h
  <2>2. j \in Int
    BY SMT
  <2>3. c \in Complex /\ W(j * k) \in Complex
    <3>1. j * k \in Int
      BY <2>2, SMT
    <3> QED BY <1>2, <1>4, <3>1, Closed
  <2>4. ASSUME NEW s \in 0 .. N - 1
        PROVE  z[s] \in Complex /\ x[j][s] = Mul(c, z[s])
    <3> DEFINE e1 == j * k
               e2 == j * (d * s)
               e3 == j * (k + d * s)
    <3>1. s \in Int
      BY SMT
    <3>2. e1 \in Int /\ e2 \in Int /\ e3 \in Int /\ e1 + e2 = e3
      BY <2>2, <3>1, MoreExponents
    <3>3. z[s] = Mul(a[s], W(e2)) /\ x[j][s] = Mul(a[s], Mul(W(e3), B[j])) /\ c = Mul(W(e1), B[j])
      BY <1>5
    <3> HIDE DEF e1, e2, e3, W, x, z, B, c
    <3>4. W(e3) = Mul(W(e1), W(e2)) /\ W(e1) \in Complex /\ W(e2) \in Complex
          /\ a[s] \in Complex /\ B[j] \in Complex
      BY <1>2, <1>4, <3>2
    <3>5. Mul(Mul(W(e1), B[j]), Mul(a[s], W(e2))) = Mul(a[s], Mul(Mul(W(e1), W(e2)), B[j]))
      BY <3>4, MulThree
    <3>6. z[s] \in Complex
      BY <3>3, <3>4, Closed
    <3> QED BY <3>3, <3>4, <3>5, <3>6
  <2>5. Total(x[j], N) = Mul(c, Total(z, N)) /\ Total(z, N) \in Complex
    <3> DEFINE xj == x[j]
    <3>1. \A s \in 0 .. N - 1 : z[s] \in Complex /\ xj[s] = Mul(c, z[s])
      BY <2>4
    <3>2. c \in Complex
      BY <2>3
    <3> HIDE DEF z, c, xj, x, W, B
    <3>3. Total(z, N) \in Complex
      BY <3>1, TotalType
    <3>4. Total(xj, N) = Mul(c, Total(z, N))
      BY <3>1, <3>2, TotalTimes
    <3> QED BY <3>3, <3>4 DEF xj
  <2> DEFINE p == W(j * k)
             q == B[j]
             t == Total(z, N)
  <2>6. p \in Complex /\ q \in Complex /\ t \in Complex /\ c = Mul(p, q)
        /\ h[j] = Mul(p, Mul(t, q)) /\ Total(x[j], N) = Mul(c, t)
    BY <1>4, <2>1, <2>3, <2>5
  <2> HIDE DEF p, q, t, c, x
  <2>7. Mul(Mul(p, q), t) = Mul(p, Mul(q, t)) /\ Mul(q, t) = Mul(t, q)
    BY <2>6, MulLaws
  <2> QED BY <2>6, <2>7
<1>7. Total(h, N) = Total(ColumnSums(x, N, N), N)
  <2>1. Total(RowSums(x, N, N), N) = Total(ColumnSums(x, N, N), N)
    <3> HIDE DEF x
    <3> QED BY <1>5, TotalExchange
  <2>2. \A j \in 0 .. N - 1 : RowSums(x, N, N)[j] = h[j]
    <3> HIDE DEF x
    <3> QED BY <1>6 DEF RowSums
  <2>3. Total(RowSums(x, N, N), N) = Total(h, N)
    <3> HIDE DEF x
    <3> QED BY <2>2, TotalSame
  <2> QED BY <2>1, <2>3
<1>8. ASSUME NEW s \in 0 .. N - 1
      PROVE  y[s] \in Complex /\ ColumnSums(x, N, N)[s] = Mul(cc, y[s])
  <2> DEFINE col == [j \in 0 .. N - 1 |-> x[j][s]]
             u == k + d * s
             g == [j \in 0 .. N - 1 |-> Mul(Phasor(j * u, N), B[j])]
  <2>1. ColumnSums(x, N, N)[s] = Total(col, N)
    BY DEF ColumnSums
  <2>2. u \in Int /\ a[s] \in Complex
    <3>1. s \in Int /\ 0 \in Int
      BY SMT
    <3>2. k + d * s \in Int
      BY <3>1, MoreExponents
    <3> QED BY <3>2
  <2>3. \A j \in 0 .. N - 1 : g[j] \in Complex /\ col[j] = Mul(a[s], g[j])
    <3> SUFFICES ASSUME NEW j \in 0 .. N - 1 PROVE g[j] \in Complex /\ col[j] = Mul(a[s], g[j])
      OBVIOUS
    <3>1. g[j] = Mul(W(j * u), B[j]) /\ col[j] = Mul(a[s], Mul(W(j * u), B[j]))
      OBVIOUS
    <3>2. W(j * u) \in Complex /\ B[j] \in Complex
      BY <1>4, <1>5
    <3> HIDE DEF g, col, W, u, B
    <3> QED BY <3>1, <3>2, Closed
  <2>4. Total(g, N) = Mul(Pair(N, 0), b[u % N]) /\ b[u % N] \in Complex
    <3>1. \A j \in 0 .. N - 1 : g[j] = Mul(Phasor(j * u, N), Dft(b, N, -1)[j])
      OBVIOUS
    <3> HIDE DEF g, u
    <3> QED BY <2>2, <3>1, Inversion
  <2>5. y[s] = Mul(a[s], b[u % N])
    OBVIOUS
  <2> HIDE DEF col, g, u, W, x, B, y, cc
  <2>6. Total(col, N) = Mul(a[s], Total(g, N))
    BY <2>2, <2>3, TotalTimes
  <2>7. Mul(a[s], Mul(cc, b[u % N])) = Mul(cc, Mul(a[s], b[u % N]))
    BY <1>3, <2>2, <2>4, MulShuffle
  <2>8. y[s] \in Complex
    BY <2>2, <2>4, <2>5, Closed
  <2> QED BY <2>1, <2>4, <2>5, <2>6, <2>7, <2>8 DEF cc
<1> DEFINE cs == ColumnSums(x, N, N)
<1>9. Total(cs, N) = Mul(cc, Total(y, N))
  <2>1. \A s \in 0 .. N - 1 : y[s] \in Complex /\ cs[s] = Mul(cc, y[s])
    BY <1>8
  <2> HIDE DEF cs, y, cc, x
  <2> QED BY <1>3, <2>1, TotalTimes
<1> QED BY <1>7, <1>9

-------------------------------------------------------------------------------
(* The convolution *)

\* Scaling by the reciprocal of a length undoes a factor of that length.
LEMMA ScaledBack ==
    ASSUME NEW x \in Int, x % P # 0, NEW a \in Complex
    PROVE  Scale(Mul(Pair(x, 0), a), Recip(x)) = a
<1> DEFINE y == Recip(x)
<1>0. y \in 1 .. P - 1 /\ (x * y) % P = 1
  BY RecipIsInverse
<1>1. y \in Int /\ (x * y) % P = 1
  <2> HIDE DEF y
  <2> QED BY <1>0, PFacts, SMT
<1> HIDE DEF y
<1> DEFINE cx == Pair(x, 0)
           cy == Pair(y, 0)
<1>2. 0 \in Int /\ 1 \in Int /\ x * y \in Int
  BY <1>1, SMT
<1>3. cx \in Complex /\ cy \in Complex
  BY <1>1, <1>2, PairLaws
<1>4. Mul(cx, cy) = Pair(x * y, 0)
  BY <1>1, RealLaws
<1>5. Pair(x * y, 0) = Pair(1, 0) /\ Pair(1, 0) = One
  <2> DEFINE p == x * y
  <2>1. p \in Int /\ p % P = 1
    BY <1>1, <1>2
  <2> HIDE DEF p
  <2>2. Pair(p, 0) = Pair(p % P, 0) /\ Pair(1, 0) = One
    BY <1>2, <2>1, RealLaws
  <2> QED BY <2>1, <2>2 DEF p
<1>6. Mul(cx, a) \in Complex
  BY <1>3, Closed
<1>7. Scale(Mul(cx, a), y) = Mul(Mul(cx, a), cy)
  BY <1>1, <1>6, ScaleIsMul
<1> HIDE DEF cx, cy
<1>8. Mul(Mul(cx, a), cy) = Mul(cx, Mul(a, cy)) /\ Mul(a, cy) = Mul(cy, a)
      /\ Mul(Mul(cx, cy), a) = Mul(cx, Mul(cy, a)) /\ Mul(One, a) = a
  BY <1>3, MulLaws
<1> QED BY <1>4, <1>5, <1>7, <1>8 DEF cx, y

\* The inverse transform, its factors in the order of the lemmas above.
LEMMA DftUp ==
    ASSUME NEW N \in Nat, PartsOfCircle(N), NEW p, \A t \in 0 .. N - 1 : p[t] \in Complex,
           NEW k \in 0 .. N - 1
    PROVE  Dft(p, N, 1)[k] = Total([j \in 0 .. N - 1 |-> Mul(Phasor(j * k, N), p[j])], N)
<1> DEFINE f == [t \in 0 .. N - 1 |-> Mul(p[t], Phasor(1 * k * t, N))]
           g == [j \in 0 .. N - 1 |-> Mul(Phasor(j * k, N), p[j])]
<1>1. 1 \in {-1, 1}
  OBVIOUS
<1>2. Dft(p, N, 1)[k] = Total(f, N)
  BY <1>1, DftIs
<1>3. \A t \in 0 .. N - 1 : f[t] = g[t]
  <2> SUFFICES ASSUME NEW t \in 0 .. N - 1 PROVE f[t] = g[t]
    OBVIOUS
  <2>1. 1 * k * t = t * k /\ t * k \in Int
    BY SMT
  <2> DEFINE tk == t * k
  <2>2. tk \in Int
    BY <2>1
  <2> HIDE DEF tk
  <2>3. Phasor(tk, N) \in Complex
    BY <2>2, WaveLaws
  <2>4. Mul(p[t], Phasor(tk, N)) = Mul(Phasor(tk, N), p[t])
    BY <2>3, MulLaws
  <2> QED BY <2>1, <2>4 DEF tk
<1> HIDE DEF f, g
<1>4. Total(f, N) = Total(g, N)
  BY <1>3, TotalSame
<1> QED BY <1>2, <1>4 DEF g

\* The terms of the circular convolution at k.
Wound(a, b, k, N) == [s \in 0 .. N - 1 |-> Mul(a[s], b[(k - s) % N])]

\* The convolution theorem, as complexConvolution uses it: the inverse transform
\* of the product of two spectra, divided by the length, is the circular convolution.
THEOREM Convolution ==
    ASSUME NEW N \in Nat, PartsOfCircle(N), N % P # 0, NEW a, NEW b, NEW p,
           \A t \in 0 .. N - 1 : a[t] \in Complex /\ b[t] \in Complex,
           \A j \in 0 .. N - 1 : p[j] = Mul(Dft(a, N, -1)[j], Dft(b, N, -1)[j]),
           NEW k \in 0 .. N - 1
    PROVE  Scale(Dft(p, N, 1)[k], Recip(N)) = Total(Wound(a, b, k, N), N)
<1> DEFINE A == Dft(a, N, -1)
           d == -1
           h == [j \in 0 .. N - 1 |-> Mul(Phasor(j * k, N), p[j])]
           z == [s \in 0 .. N - 1 |-> Mul(a[s], b[(k - s) % N])]
<1>1. d \in {-1, 1} /\ k \in Int /\ N \in Int
  BY SMT
<1>2. \A j \in 0 .. N - 1 : A[j] \in Complex /\ Dft(b, N, -1)[j] \in Complex
  BY <1>1, DftType DEF PartsOfCircle
<1>3. \A j \in 0 .. N - 1 : p[j] \in Complex
  BY <1>2, Closed
<1>4. Dft(p, N, 1)[k] = Total(h, N)
  BY <1>3, DftUp
<1>5. IsTransform(A, a, d, N) /\ IsProduct(h, A, b, k, N)
  <2>1. IsProduct(h, A, b, k, N)
    BY DEF IsProduct
  <2>2. ASSUME NEW j \in 0 .. N - 1
        PROVE  A[j] = Total([s \in 0 .. N - 1 |-> Mul(a[s], Phasor(j * (d * s), N))], N)
    <3>1. A[j] = Total([t \in 0 .. N - 1 |-> Mul(a[t], Phasor((-1) * j * t, N))], N)
      BY <1>1, DftIs
    <3>2. \A t \in 0 .. N - 1 : (-1) * j * t = j * (d * t)
      BY SMT
    <3>3. [t \in 0 .. N - 1 |-> Mul(a[t], Phasor((-1) * j * t, N))]
            = [s \in 0 .. N - 1 |-> Mul(a[s], Phasor(j * (d * s), N))]
      BY <3>2, Zenon
    <3> QED BY <3>1, <3>3
  <2> QED BY <2>1, <2>2 DEF IsTransform
<1>7. Slid(a, b, d, k, N) = z
  <2>1. \A s \in 0 .. N - 1 : k + d * s = k - s
    BY SMT
  <2> HIDE DEF d
  <2> QED BY <2>1, Zenon DEF Slid
<1> HIDE DEF A, h, d
<1>6. Total(h, N) = Mul(Pair(N, 0), Total(Slid(a, b, d, k, N), N))
  BY <1>1, <1>5, Correlated
<1>8. Total(z, N) \in Complex
  <2>1. \A s \in 0 .. N - 1 : z[s] \in Complex
    <3> SUFFICES ASSUME NEW s \in 0 .. N - 1 PROVE z[s] \in Complex
      OBVIOUS
    <3>1. k - s \in Int /\ N > 0
      BY SMT
    <3>2. (k - s) % N \in 0 .. N - 1
      BY <3>1, DivMod
    <3> QED BY <3>2, Closed
  <2> HIDE DEF z
  <2> QED BY <2>1, TotalType
<1> DEFINE tz == Total(z, N)
<1>9. Scale(Mul(Pair(N, 0), tz), Recip(N)) = tz
  <2>1. tz \in Complex
    BY <1>8
  <2> HIDE DEF tz
  <2> QED BY <1>1, <2>1, ScaledBack
<1> QED BY <1>4, <1>6, <1>7, <1>9 DEF Wound

-------------------------------------------------------------------------------
(* The inverse transform by exchanging real and imaginary parts *)

\* Exchanging real and imaginary parts before and after a forward transform
\* makes it the inverse one: inverseFft.
LEMMA SwapTransform ==
    ASSUME NEW N \in Nat, PartsOfCircle(N), NEW p, NEW y,
           \A t \in 0 .. N - 1 : p[t] \in Complex /\ y[t] = Swap(p[t]),
           NEW k \in 0 .. N - 1
    PROVE  Swap(Dft(y, N, -1)[k]) = Dft(p, N, 1)[k]
<1> DEFINE i == Pair(0, 1)
           g == [t \in 0 .. N - 1 |-> Mul(y[t], Phasor((-1) * k * t, N))]
           h == [t \in 0 .. N - 1 |-> Mul(p[t], Phasor(1 * k * t, N))]
           hc == [t \in 0 .. N - 1 |-> Conj(h[t])]
<1>1. -1 \in {-1, 1} /\ 1 \in {-1, 1} /\ 0 \in Int /\ 1 \in Int
  OBVIOUS
<1>2. Dft(y, N, -1)[k] = Total(g, N)
  BY <1>1, DftIs
<1>3. Dft(p, N, 1)[k] = Total(h, N)
  BY <1>1, DftIs
<1>4. i \in Complex /\ Conj(i) = Pair(0, 0 - 1) /\ i = <<0, 1>>
  <2>1. i \in Complex /\ Conj(i) = Pair(0, 0 - 1)
    BY <1>1, PairLaws
  <2>2. 0 % P = 0 /\ 1 % P = 1
    BY PFacts, RemainderOfSmall, SMT
  <2> QED BY <2>1, <2>2 DEF Pair
<1>5. Mul(i, Conj(i)) = One
  <2>1. Mul(Pair(0, 1), Pair(0, 0 - 1)) = Pair(0 * 0 - 1 * (0 - 1), 0 * (0 - 1) + 1 * 0)
    <3>1. 0 - 1 \in Int
      BY SMT
    <3> QED BY <1>1, <3>1, PairLaws
  <2>2. 0 * 0 - 1 * (0 - 1) = 1 /\ 0 * (0 - 1) + 1 * 0 = 0
    BY SMT
  <2>3. Pair(1, 0) = One
    BY <1>1, RealLaws
  <2> QED BY <1>4, <2>1, <2>2, <2>3
<1>6. \A a \in Complex : Swap(a) = Mul(i, Conj(a)) /\ Conj(a) \in Complex
  BY <1>4, ConjLaws, PairTypes
<1> HIDE DEF i
<1>7. \A t \in 0 .. N - 1 : h[t] \in Complex /\ hc[t] = Conj(h[t]) /\ hc[t] \in Complex
                            /\ g[t] = Mul(i, hc[t])
  <2> SUFFICES ASSUME NEW t \in 0 .. N - 1
               PROVE  h[t] \in Complex /\ hc[t] = Conj(h[t]) /\ hc[t] \in Complex
                      /\ g[t] = Mul(i, hc[t])
    OBVIOUS
  <2> DEFINE e == 1 * k * t
             m == (-1) * k * t
             w == Phasor(e, N)
             v == Phasor(m, N)
  <2>1. e \in Int /\ m = 0 - e
    BY SMT
  <2>2. h[t] = Mul(p[t], w) /\ hc[t] = Conj(h[t]) /\ g[t] = Mul(y[t], v)
    OBVIOUS
  <2> HIDE DEF h, hc, g, e, m
  <2>3. w \in Complex /\ Conj(w) = v
    BY <2>1, WaveLaws
  <2> HIDE DEF w, v
  <2>4. h[t] \in Complex /\ p[t] \in Complex
    BY <2>2, <2>3, Closed
  <2>5. Conj(h[t]) = Mul(Conj(p[t]), v)
    BY <2>2, <2>3, <2>4, ConjLaws
  <2>6. y[t] = Mul(i, Conj(p[t])) /\ Conj(p[t]) \in Complex
    BY <1>6, <2>4
  <2>7. v \in Complex
    BY <1>6, <2>3
  <2>8. Mul(Mul(i, Conj(p[t])), v) = Mul(i, Mul(Conj(p[t]), v))
    BY <1>4, <2>6, <2>7, MulLaws
  <2>9. hc[t] \in Complex
    BY <1>6, <2>2, <2>4
  <2> QED BY <2>2, <2>4, <2>5, <2>6, <2>8, <2>9
<1> HIDE DEF g, h, hc
<1>8. Total(hc, N) = Conj(Total(h, N)) /\ Total(h, N) \in Complex /\ Total(hc, N) \in Complex
  BY <1>7, TotalConj, TotalType
<1>9. Total(g, N) = Mul(i, Total(hc, N))
  BY <1>4, <1>7, TotalTimes
<1> DEFINE T == Total(h, N)
<1>10. T \in Complex /\ Total(g, N) = Mul(i, Conj(T))
  BY <1>8, <1>9
<1> HIDE DEF T
<1>11. Mul(i, Conj(T)) \in Complex /\ Conj(T) \in Complex /\ Conj(i) \in Complex
  BY <1>4, <1>6, <1>10, Closed
<1>12. Swap(Mul(i, Conj(T))) = Mul(i, Conj(Mul(i, Conj(T))))
  BY <1>6, <1>11
<1>13. Conj(Mul(i, Conj(T))) = Mul(Conj(i), T)
  BY <1>4, <1>10, <1>11, ConjLaws
<1>14. Mul(i, Mul(Conj(i), T)) = T
  BY <1>4, <1>5, <1>10, <1>11, MulLaws
<1> QED BY <1>2, <1>3, <1>10, <1>12, <1>13, <1>14 DEF T

-------------------------------------------------------------------------------
(* The cross-correlation *)

\* The reciprocal of an integer, as a pair.
LEMMA RecipPair ==
    ASSUME NEW x \in Int, x % P # 0
    PROVE  /\ Recip(x) \in Int /\ Pair(x, 0) \in Complex /\ Pair(Recip(x), 0) \in Complex
           /\ Mul(Pair(x, 0), Pair(Recip(x), 0)) = One
<1> DEFINE y == Recip(x)
<1>0. y \in 1 .. P - 1 /\ (x * y) % P = 1
  BY RecipIsInverse
<1> HIDE DEF y
<1>1. y \in Int /\ x * y \in Int /\ 0 \in Int /\ 1 \in Int
  BY <1>0, PFacts, SMT
<1>2. Mul(Pair(x, 0), Pair(y, 0)) = Pair(x * y, 0)
  BY <1>1, RealLaws
<1> DEFINE p == x * y
<1>3. p \in Int /\ p % P = 1
  BY <1>0, <1>1
<1>4. Mul(Pair(x, 0), Pair(y, 0)) = Pair(p, 0)
  BY <1>2
<1> HIDE DEF p
<1>5. Pair(p, 0) = Pair(p % P, 0) /\ Pair(1, 0) = One
  BY <1>1, <1>3, RealLaws
<1>6. Pair(x, 0) \in Complex /\ Pair(y, 0) \in Complex
  BY <1>1, PairLaws
<1> QED BY <1>1, <1>3, <1>4, <1>5, <1>6 DEF y

\* Two factors of a length against the one the inverse transform leaves.
LEMMA ScaledTwice ==
    ASSUME NEW x \in Nat, x % P # 0, NEW a \in Complex
    PROVE  Scale(Mul(Pair(x, 0), a), Recip(x * x)) = Scale(a, Recip(x))
<1> DEFINE xx == x * x
           u == Pair(x, 0)
           y == Pair(Recip(x), 0)
           z == Pair(Recip(xx), 0)
<1>0. x \in Int /\ xx \in Int
  BY SMT
<1>1. xx \in Int /\ xx % P # 0
  BY <1>0, Euclid
<1>2. u \in Complex /\ y \in Complex /\ Mul(u, y) = One /\ Recip(x) \in Int
  BY <1>0, RecipPair
<1>3. Mul(u, u) = Pair(xx, 0)
  BY <1>0, RealLaws
<1> HIDE DEF xx
<1>4. z \in Complex /\ Mul(Pair(xx, 0), z) = One /\ Recip(xx) \in Int
  BY <1>1, RecipPair
<1>5. Mul(Mul(u, u), z) = One
  BY <1>3, <1>4
<1>6. Mul(u, a) \in Complex
  BY <1>2, Closed
<1>7. Scale(Mul(u, a), Recip(xx)) = Mul(Mul(u, a), z) /\ Scale(a, Recip(x)) = Mul(a, y)
  BY <1>2, <1>4, <1>6, ScaleIsMul
<1> HIDE DEF u, y, z
\* u a z = (u a z) (u y) = a y (u u z)
<1> DEFINE uz == Mul(u, z)
<1>8. uz \in Complex
  BY <1>2, <1>4, Closed
<1>9. Mul(Mul(u, u), z) = Mul(u, uz)
  BY <1>2, <1>4, MulLaws
<1>10. Mul(Mul(u, a), z) = Mul(a, uz)
  BY <1>2, <1>4, MulLaws
<1> HIDE DEF uz
<1>11. Mul(y, Mul(u, uz)) = uz
  <2>1. Mul(y, Mul(u, uz)) = Mul(Mul(y, u), uz) /\ Mul(y, u) = Mul(u, y) /\ Mul(One, uz) = uz
    BY <1>2, <1>8, MulLaws
  <2> QED BY <1>2, <2>1
<1>12. Mul(y, One) = y
  BY <1>2, MulLaws
<1>13. uz = y
  BY <1>5, <1>9, <1>11, <1>12
<1> QED BY <1>7, <1>10, <1>13 DEF u, y, z, xx

\* The circular cross-correlation of x with c, for a shift of k.
CircularCorrelation(x, c, k, N) ==
    Total([s \in 0 .. N - 1 |-> Mul(x[(s + k) % N], Conj(c[s]))], N)

\* The product of a spectrum with the conjugate of another, transformed back as
\* inverseFft does it and scaled as startAcquisition does it, is the circular
\* cross-correlation divided by the length.
THEOREM CrossCorrelation ==
    ASSUME NEW N \in Nat, PartsOfCircle(N), N % P # 0, NEW x, NEW c, NEW r, NEW y,
           \A t \in 0 .. N - 1 : x[t] \in Complex /\ c[t] \in Complex,
           \A j \in 0 .. N - 1 : r[j] = Mul(Dft(x, N, -1)[j], Conj(Dft(c, N, -1)[j])),
           \A j \in 0 .. N - 1 : y[j] = Swap(r[j]),
           NEW k \in 0 .. N - 1
    PROVE  Scale(Swap(Dft(y, N, -1)[k]), Recip(N * N))
             = Scale(CircularCorrelation(x, c, k, N), Recip(N))
<1> DEFINE a == [s \in 0 .. N - 1 |-> Conj(c[s])]
           A == [j \in 0 .. N - 1 |-> Conj(Dft(c, N, -1)[j])]
           d == 1
           h == [j \in 0 .. N - 1 |-> Mul(Phasor(j * k, N), r[j])]
           z == [s \in 0 .. N - 1 |-> Mul(x[(s + k) % N], Conj(c[s]))]
<1>1. d \in {-1, 1} /\ -1 \in {-1, 1} /\ k \in Int /\ N \in Int /\ N > 0
  BY WaveLaws, SMT
<1>2. \A j \in 0 .. N - 1 : Dft(c, N, -1)[j] \in Complex /\ Dft(x, N, -1)[j] \in Complex
  BY <1>1, DftType DEF PartsOfCircle
<1>3. \A v \in Complex : Conj(v) \in Complex
  BY PairTypes
<1>4. \A j \in 0 .. N - 1 : A[j] \in Complex /\ a[j] \in Complex /\ r[j] \in Complex
  BY <1>2, <1>3, Closed
<1>5. Swap(Dft(y, N, -1)[k]) = Dft(r, N, 1)[k]
  BY <1>4, SwapTransform
<1>6. Dft(r, N, 1)[k] = Total(h, N)
  BY <1>4, DftUp
<1>7. IsTransform(A, a, d, N)
  <2> SUFFICES ASSUME NEW j \in 0 .. N - 1
               PROVE  A[j] = Total([s \in 0 .. N - 1 |-> Mul(a[s], Phasor(j * (d * s), N))], N)
    BY DEF IsTransform
  <2> DEFINE g == [t \in 0 .. N - 1 |-> Mul(c[t], Phasor((-1) * j * t, N))]
             q == [s \in 0 .. N - 1 |-> Mul(a[s], Phasor(j * (d * s), N))]
  <2>1. Dft(c, N, -1)[j] = Total(g, N)
    BY <1>1, DftIs
  <2>2. \A t \in 0 .. N - 1 : g[t] \in Complex /\ q[t] = Conj(g[t])
    <3> SUFFICES ASSUME NEW t \in 0 .. N - 1 PROVE g[t] \in Complex /\ q[t] = Conj(g[t])
      OBVIOUS
    <3> DEFINE m == (-1) * j * t
               e == j * (d * t)
               v == Phasor(m, N)
               w == Phasor(e, N)
    <3>1. m \in Int /\ e = 0 - m
      BY SMT
    <3>2. g[t] = Mul(c[t], v) /\ q[t] = Mul(Conj(c[t]), w)
      OBVIOUS
    <3> HIDE DEF m, e, g, q
    <3>3. v \in Complex /\ Conj(v) = w
      BY <3>1, WaveLaws
    <3> HIDE DEF v, w
    <3>4. c[t] \in Complex
      OBVIOUS
    <3>5. g[t] \in Complex
      BY <3>2, <3>3, <3>4, Closed
    <3>6. Conj(g[t]) = Mul(Conj(c[t]), w)
      BY <3>2, <3>3, <3>4, ConjLaws
    <3> QED BY <3>2, <3>5, <3>6
  <2>3. A[j] = Conj(Dft(c, N, -1)[j])
    OBVIOUS
  <2> HIDE DEF g, q, A
  <2>4. Total(q, N) = Conj(Total(g, N))
    BY <2>2, TotalConj
  <2> QED BY <2>1, <2>3, <2>4 DEF q
<1>8. IsProduct(h, A, x, k, N)
  <2> SUFFICES ASSUME NEW j \in 0 .. N - 1
               PROVE  h[j] = Mul(Phasor(j * k, N), Mul(A[j], Dft(x, N, -1)[j]))
    BY DEF IsProduct
  <2>1. h[j] = Mul(Phasor(j * k, N), r[j]) /\ A[j] = Conj(Dft(c, N, -1)[j])
    OBVIOUS
  <2>2. A[j] \in Complex /\ Dft(x, N, -1)[j] \in Complex
    BY <1>2, <1>4
  <2>3. r[j] = Mul(Dft(x, N, -1)[j], A[j])
    BY <2>1
  <2>4. Mul(Dft(x, N, -1)[j], A[j]) = Mul(A[j], Dft(x, N, -1)[j])
    BY <2>2, MulLaws
  <2> QED BY <2>1, <2>3, <2>4
<1>9. Total(Slid(a, x, d, k, N), N) = Total(z, N) /\ Total(z, N) \in Complex
  <2> DEFINE w == Slid(a, x, d, k, N)
  <2>1. \A s \in 0 .. N - 1 : w[s] = z[s] /\ z[s] \in Complex
    <3> SUFFICES ASSUME NEW s \in 0 .. N - 1 PROVE w[s] = z[s] /\ z[s] \in Complex
      OBVIOUS
    <3>1. k + d * s = s + k /\ s + k \in Int
      BY SMT
    <3>2. (s + k) % N \in 0 .. N - 1
      BY <1>1, <3>1, DivMod
    <3>3. x[(s + k) % N] \in Complex /\ a[s] \in Complex /\ a[s] = Conj(c[s])
      BY <1>4, <3>2
    <3>4. w[s] = Mul(a[s], x[(k + d * s) % N]) /\ z[s] = Mul(x[(s + k) % N], Conj(c[s]))
      BY DEF Slid
    <3> HIDE DEF a, d, w, z
    <3>5. w[s] = Mul(a[s], x[(s + k) % N])
      BY <3>1, <3>4
    <3>6. Mul(a[s], x[(s + k) % N]) = Mul(x[(s + k) % N], a[s])
      BY <3>3, MulLaws
    <3>7. z[s] = Mul(x[(s + k) % N], a[s])
      BY <3>3, <3>4
    <3> QED BY <3>3, <3>5, <3>6, <3>7, Closed
  <2> HIDE DEF z, w
  <2>2. Total(w, N) = Total(z, N) /\ Total(z, N) \in Complex
    BY <2>1, TotalSame, TotalType
  <2> QED BY <2>2 DEF w
<1> HIDE DEF a, A, d, h, z
<1>10. Total(h, N) = Mul(Pair(N, 0), Total(Slid(a, x, d, k, N), N))
  BY <1>1, <1>4, <1>7, <1>8, Correlated
<1> DEFINE T == Total(z, N)
<1>11. T \in Complex /\ Total(h, N) = Mul(Pair(N, 0), T)
  BY <1>9, <1>10
<1> HIDE DEF T
<1>12. Scale(Mul(Pair(N, 0), T), Recip(N * N)) = Scale(T, Recip(N))
  BY <1>1, <1>11, ScaledTwice
<1> QED BY <1>5, <1>6, <1>11, <1>12 DEF T, z, CircularCorrelation

-------------------------------------------------------------------------------
(* The chirp *)

\* The angle pi * k^2 / c of the chirp.
ChirpOf(k, c) == Phasor((k * k) % (2 * c), 2 * c)

\* Twice the length, half the angle.
LEMMA PhasorDoubled ==
    ASSUME NEW c \in Nat, c > 0, PartsOfCircle(2 * c)
    PROVE  /\ PartsOfCircle(c)
           /\ \A k \in Int : Phasor(k, c) = Phasor(2 * k, 2 * c)
<1>1. PICK e \in Nat : Order = (2 * c) * e
  BY DEF PartsOfCircle
<1>2. Order = c * (2 * e) /\ 2 * e \in Nat /\ 2 * c \in Nat /\ 2 * c > 0
  BY <1>1, SMT
<1>3. PartsOfCircle(c)
  BY <1>2 DEF PartsOfCircle
<1>4. Order \div (2 * c) = e /\ Order \div c = 2 * e
  <2>1. \A n \in Nat, q \in Nat : n > 0 => (n * q) \div n = q
    <3> SUFFICES ASSUME NEW n \in Nat, NEW q \in Nat, n > 0 PROVE (n * q) \div n = q
      OBVIOUS
    <3>1. 0 \in 0 .. n - 1 /\ n * q = n * q + 0
      BY SMT
    <3> QED BY <3>1, DivModAre, SMT
  <2> QED BY <1>1, <1>2, <2>1, Zenon
<1>5. ASSUME NEW k \in Int PROVE Phasor(k, c) = Phasor(2 * k, 2 * c)
  <2>1. k * (2 * e) = (2 * k) * e
    BY <1>2, SMT
  <2> QED BY <1>4, <2>1, Zenon DEF Phasor
<1> QED BY <1>3, <1>5

\* The chirp by the square itself.
LEMMA ChirpSquare ==
    ASSUME NEW c \in Nat, PartsOfCircle(2 * c), NEW k \in Int
    PROVE  ChirpOf(k, c) = Phasor(k * k, 2 * c)
<1> DEFINE N == 2 * c
           e == k * k
<1>1. N \in Nat /\ e \in Int
  BY SMT
<1>2. PartsOfCircle(N) /\ ChirpOf(k, c) = Phasor(e % N, N)
  BY DEF ChirpOf
<1> HIDE DEF N, e
<1>3. N > 0
  BY <1>1, <1>2, WaveLaws
<1>4. e % N \in Int /\ e \div N \in Int /\ e = (e % N) + N * (e \div N)
  BY <1>1, <1>3, DivMod, SMT
<1> DEFINE r == e % N
           q == e \div N
<1>5. r \in Int /\ q \in Int /\ e = r + N * q
  BY <1>4
<1> HIDE DEF r, q
<1>6. Phasor(r + N * q, N) = Phasor(r, N)
  BY <1>1, <1>2, <1>5, WaveLaws
<1> QED BY <1>2, <1>5, <1>6 DEF r, N, e

\* -2ks = -k^2 - s^2 + (k - s)^2
LEMMA SquareOfDifference ==
    ASSUME NEW k \in Int, NEW s \in Int
    PROVE  /\ k * k \in Int /\ s * s \in Int /\ (k - s) * (k - s) \in Int /\ (-1) * k * s \in Int
           /\ (0 - k * k) + ((0 - s * s) + (k - s) * (k - s)) = 2 * ((-1) * k * s)
           /\ (s - k) * (s - k) = (k - s) * (k - s) /\ k - s \in Int /\ s - k \in Int
BY SMT

\* A sample bent down by the chirp, filtered with the chirp and bent down again
\* is the sample turned by the angle of the transform.
LEMMA ChirpWeights ==
    ASSUME NEW c \in Nat, PartsOfCircle(2 * c), NEW k \in Int, NEW s \in Int, NEW v \in Complex
    PROVE  /\ ChirpOf(k, c) \in Complex /\ Conj(ChirpOf(k, c)) \in Complex
           /\ ChirpOf(s - k, c) = ChirpOf(k - s, c)
           /\ Mul(Conj(ChirpOf(k, c)), Mul(Mul(v, Conj(ChirpOf(s, c))), ChirpOf(k - s, c)))
                = Mul(v, Phasor((-1) * k * s, c))
<1> DEFINE N == 2 * c
           W(e) == Phasor(e, N)
           kk == k * k
           ss == s * s
           dd == (k - s) * (k - s)
           ks == (-1) * k * s
<1>1. N \in Nat /\ PartsOfCircle(N)
  BY SMT
<1>2. /\ kk \in Int /\ ss \in Int /\ dd \in Int /\ ks \in Int
      /\ (0 - kk) + ((0 - ss) + dd) = 2 * ks
      /\ (s - k) * (s - k) = dd /\ k - s \in Int /\ s - k \in Int
  BY SquareOfDifference
<1>3. /\ ChirpOf(k, c) = W(kk) /\ ChirpOf(s, c) = W(ss) /\ ChirpOf(k - s, c) = W(dd)
      /\ ChirpOf(s - k, c) = W(dd)
  <2>1. ChirpOf(k, c) = W(kk) /\ ChirpOf(s, c) = W(ss)
    BY ChirpSquare
  <2>2. ChirpOf(k - s, c) = W(dd)
    BY <1>2, ChirpSquare
  <2>3. ChirpOf(s - k, c) = W((s - k) * (s - k))
    BY <1>2, ChirpSquare
  <2> QED BY <1>2, <2>1, <2>2, <2>3
<1>4. /\ N > 0
      /\ \A e \in Int : W(e) \in Complex /\ Conj(W(e)) = W(0 - e)
      /\ \A e \in Int, l \in Int : W(e + l) = Mul(W(e), W(l))
  <2> HIDE DEF N
  <2> QED BY <1>1, WaveLaws
<1>5. c > 0
  BY <1>4, SMT
<1>6. Phasor(ks, c) = W(2 * ks)
  <2> HIDE DEF ks
  <2> QED BY <1>2, <1>5, PhasorDoubled
<1> HIDE DEF N, W, kk, ss, dd, ks
<1>7. 0 - kk \in Int /\ 0 - ss \in Int /\ (0 - ss) + dd \in Int
  BY <1>2, SMT
<1> DEFINE a == W(0 - kk)
           b == W(0 - ss)
           d == W(dd)
<1>8. /\ a \in Complex /\ b \in Complex /\ d \in Complex
      /\ Conj(ChirpOf(k, c)) = a /\ Conj(ChirpOf(s, c)) = b /\ ChirpOf(k - s, c) = d
  BY <1>2, <1>3, <1>4, <1>7
<1>9. W(2 * ks) = Mul(a, Mul(b, d))
  <2>1. W((0 - kk) + ((0 - ss) + dd)) = Mul(W(0 - kk), W((0 - ss) + dd))
    BY <1>4, <1>7
  <2>2. W((0 - ss) + dd) = Mul(W(0 - ss), W(dd))
    BY <1>2, <1>4, <1>7
  <2>3. W((0 - kk) + ((0 - ss) + dd)) = W(2 * ks)
    BY <1>2
  <2> QED BY <2>1, <2>2, <2>3
<1> HIDE DEF a, b, d
<1>10. Mul(a, Mul(Mul(v, b), d)) = Mul(v, Mul(a, Mul(b, d)))
  <2>1. Mul(Mul(v, b), d) = Mul(v, Mul(b, d)) /\ Mul(b, d) \in Complex
    BY <1>8, MulLaws, Closed
  <2>2. Mul(a, Mul(v, Mul(b, d))) = Mul(v, Mul(a, Mul(b, d)))
    BY <1>8, <2>1, MulShuffle
  <2> QED BY <2>1, <2>2
<1>11. ChirpOf(k, c) \in Complex /\ ChirpOf(s - k, c) = ChirpOf(k - s, c)
  BY <1>2, <1>3, <1>4
<1> QED BY <1>6, <1>8, <1>9, <1>10, <1>11 DEF ks

\* What the loops of bluestein leave in its two temporaries, for c numbers x in
\* arrays of L.
ChirpedSignal(x, c, L) ==
    [k \in 0 .. L - 1 |-> IF k < c THEN Mul(x[k], Conj(ChirpOf(k, c))) ELSE Zero]
ChirpFilter(c, L) ==
    [k \in 0 .. L - 1 |-> IF k < c THEN ChirpOf(k, c)
                          ELSE IF L - k < c THEN ChirpOf(L - k, c) ELSE Zero]

\* The temporaries hold complex numbers.
LEMMA ChirpArrays ==
    ASSUME NEW c \in Nat, PartsOfCircle(2 * c), NEW L \in Nat,
           NEW x, \A t \in 0 .. c - 1 : x[t] \in Complex
    PROVE  \A k \in 0 .. L - 1 : /\ ChirpedSignal(x, c, L)[k] \in Complex
                                 /\ ChirpFilter(c, L)[k] \in Complex
<1> SUFFICES ASSUME NEW k \in 0 .. L - 1
             PROVE  ChirpedSignal(x, c, L)[k] \in Complex /\ ChirpFilter(c, L)[k] \in Complex
  OBVIOUS
<1>1. k \in Int /\ L - k \in Int /\ k >= 0
  BY SMT
<1>2. ChirpOf(k, c) \in Complex /\ Conj(ChirpOf(k, c)) \in Complex /\ ChirpOf(L - k, c) \in Complex
  <2>1. Zero \in Complex
    BY PairFacts
  <2> QED BY <1>1, <2>1, ChirpWeights
<1>3. Zero \in Complex
  BY PairFacts
<1>4. k < c => x[k] \in Complex
  BY <1>1, SMT
<1>5. ChirpedSignal(x, c, L)[k] \in Complex
  BY <1>2, <1>3, <1>4, Closed DEF ChirpedSignal
<1>6. ChirpFilter(c, L)[k] \in Complex
  BY <1>2, <1>3 DEF ChirpFilter
<1> QED BY <1>5, <1>6

-------------------------------------------------------------------------------
(* Bluestein's algorithm *)

\* An index of the filter below the length, and one wrapped around.
LEMMA FilterIndex ==
    ASSUME NEW c \in Nat, NEW L \in Nat, 2 * c - 1 <= L,
           NEW k \in 0 .. c - 1, NEW s \in 0 .. c - 1
    PROVE  /\ s <= k => (k - s) % L = k - s /\ k - s \in 0 .. L - 1 /\ k - s < c
           /\ s > k => /\ (k - s) % L = L - (s - k) /\ L - (s - k) \in 0 .. L - 1
                       /\ ~ (L - (s - k) < c) /\ L - (L - (s - k)) = s - k /\ s - k < c
           /\ L > 0 /\ k \in 0 .. L - 1 /\ s \in 0 .. L - 1 /\ c <= L
<1>1. L > 0 /\ k \in 0 .. L - 1 /\ s \in 0 .. L - 1 /\ c <= L
  BY SMT
<1>2. ASSUME s <= k PROVE (k - s) % L = k - s /\ k - s \in 0 .. L - 1 /\ k - s < c
  <2> DEFINE d == k - s
  <2>1. d \in 0 .. L - 1 /\ d < c /\ d \in Int /\ 0 \in Int /\ d = d + L * 0
    BY <1>1, <1>2, SMT
  <2> HIDE DEF d
  <2>2. d % L = d
    BY <1>1, <2>1, RemainderIs
  <2> QED BY <2>1, <2>2 DEF d
<1>3. ASSUME s > k
      PROVE  /\ (k - s) % L = L - (s - k) /\ L - (s - k) \in 0 .. L - 1
             /\ ~ (L - (s - k) < c) /\ L - (L - (s - k)) = s - k /\ s - k < c
  <2> DEFINE d == k - s
             r == L - (s - k)
  <2>1. r \in 0 .. L - 1 /\ d \in Int /\ -1 \in Int /\ d = r + L * (-1)
    BY <1>1, <1>3, SMT
  <2>2. ~ (r < c) /\ L - r = s - k /\ s - k < c
    BY <1>1, <1>3, SMT
  <2> HIDE DEF d, r
  <2>3. d % L = r
    BY <1>1, <2>1, RemainderIs
  <2> QED BY <2>1, <2>2, <2>3 DEF d, r
<1> QED BY <1>1, <1>2, <1>3

\* The filter at a wrapped-around difference of indexes is its chirp.
LEMMA FilterEntry ==
    ASSUME NEW c \in Nat, NEW L \in Nat, 2 * c - 1 <= L, PartsOfCircle(2 * c),
           NEW k \in 0 .. c - 1, NEW s \in 0 .. c - 1
    PROVE  /\ ChirpFilter(c, L)[(k - s) % L] = ChirpOf(k - s, c)
           /\ (k - s) % L \in 0 .. L - 1
<1>1. k \in Int /\ s \in Int /\ (s <= k \/ s > k)
  BY SMT
<1>2. CASE s <= k
  <2>1. (k - s) % L = k - s /\ k - s \in 0 .. L - 1 /\ k - s < c
    BY <1>2, FilterIndex
  <2> QED BY <2>1 DEF ChirpFilter
<1>3. CASE s > k
  <2> DEFINE r == L - (s - k)
             e == s - k
  <2>1. (k - s) % L = r /\ r \in 0 .. L - 1 /\ ~ (r < c) /\ L - r = e /\ e < c
    BY <1>3, FilterIndex
  <2>2. ChirpOf(e, c) = ChirpOf(k - s, c)
    <3>1. Zero \in Complex
      BY PairFacts
    <3> QED BY <1>1, <3>1, ChirpWeights
  <2> HIDE DEF r, e
  <2>3. ChirpFilter(c, L)[r] = ChirpOf(L - r, c)
    BY <2>1 DEF ChirpFilter
  <2> QED BY <2>1, <2>2, <2>3
<1> QED BY <1>1, <1>2, <1>3

\* Bluestein's algorithm: the transform of c numbers as a convolution of L >= 2c - 1.
THEOREM BluesteinTransforms ==
    ASSUME NEW c \in Nat, PartsOfCircle(2 * c), NEW L \in Nat, PartsOfCircle(L), L % P # 0,
           2 * c - 1 <= L,
           NEW x, \A t \in 0 .. c - 1 : x[t] \in Complex,
           NEW p, \A j \in 0 .. L - 1 : p[j] = Mul(Dft(ChirpedSignal(x, c, L), L, -1)[j],
                                                   Dft(ChirpFilter(c, L), L, -1)[j]),
           NEW k \in 0 .. c - 1
    PROVE  Mul(Scale(Dft(p, L, 1)[k], Recip(L)), Conj(ChirpOf(k, c))) = Dft(x, c, -1)[k]
<1> DEFINE a == ChirpedSignal(x, c, L)
           b == ChirpFilter(c, L)
           z == [s \in 0 .. L - 1 |-> Mul(a[s], b[(k - s) % L])]
           g == [t \in 0 .. c - 1 |-> Mul(x[t], Phasor((-1) * k * t, c))]
           w == Conj(ChirpOf(k, c))
           wz == [s \in 0 .. c - 1 |-> Mul(w, z[s])]
<1>1. k \in Int /\ L \in Int /\ -1 \in {-1, 1} /\ L > 0 /\ c <= L /\ k \in 0 .. L - 1
  <2>1. 0 \in 0 .. c - 1
    BY SMT
  <2> QED BY <2>1, FilterIndex, SMT
<1>2. \A t \in 0 .. L - 1 : a[t] \in Complex /\ b[t] \in Complex
  BY ChirpArrays
<1>3. Scale(Dft(p, L, 1)[k], Recip(L)) = Total(z, L)
  <2>1. \A j \in 0 .. L - 1 : p[j] = Mul(Dft(a, L, -1)[j], Dft(b, L, -1)[j])
    OBVIOUS
  <2> HIDE DEF a, b
  <2>2. Scale(Dft(p, L, 1)[k], Recip(L)) = Total(Wound(a, b, k, L), L)
    BY <1>1, <1>2, <2>1, Convolution
  <2> QED BY <2>2 DEF Wound
<1>4. w \in Complex
  <2>1. Zero \in Complex
    BY PairFacts
  <2> QED BY <1>1, <2>1, ChirpWeights
<1>5. \A s \in 0 .. c - 1 : z[s] \in Complex /\ wz[s] = Mul(w, z[s]) /\ wz[s] = g[s]
  <2> SUFFICES ASSUME NEW s \in 0 .. c - 1
               PROVE  z[s] \in Complex /\ wz[s] = Mul(w, z[s]) /\ wz[s] = g[s]
    OBVIOUS
  <2>1. s \in 0 .. L - 1 /\ s \in Int /\ s < c
    BY <1>1, SMT
  <2>2. a[s] = Mul(x[s], Conj(ChirpOf(s, c)))
    BY <2>1 DEF ChirpedSignal
  <2>3. b[(k - s) % L] = ChirpOf(k - s, c) /\ (k - s) % L \in 0 .. L - 1
    BY FilterEntry
  <2>4. z[s] = Mul(a[s], b[(k - s) % L]) /\ g[s] = Mul(x[s], Phasor((-1) * k * s, c))
        /\ wz[s] = Mul(w, z[s])
    BY <2>1
  <2>5. x[s] \in Complex
    OBVIOUS
  <2>6. Mul(Conj(ChirpOf(k, c)), Mul(Mul(x[s], Conj(ChirpOf(s, c))), ChirpOf(k - s, c)))
          = Mul(x[s], Phasor((-1) * k * s, c))
    BY <1>1, <2>1, <2>5, ChirpWeights
  <2>7. z[s] = Mul(Mul(x[s], Conj(ChirpOf(s, c))), ChirpOf(k - s, c))
    BY <2>2, <2>3, <2>4
  <2>8. a[s] \in Complex /\ b[(k - s) % L] \in Complex
    BY <1>2, <2>1, <2>3
  <2>9. z[s] \in Complex
    BY <2>4, <2>8, Closed
  <2> QED BY <2>4, <2>6, <2>7, <2>9
<1>6. Total(z, L) = Total(z, c)
  <2>1. \A t \in 0 .. L - 1 : t >= c => z[t] = Zero
    <3> SUFFICES ASSUME NEW t \in 0 .. L - 1, t >= c PROVE z[t] = Zero
      OBVIOUS
    <3>1. ~ (t < c) /\ k - t \in Int
      BY <1>1, SMT
    <3>2. a[t] = Zero
      BY <3>1 DEF ChirpedSignal
    <3>3. (k - t) % L \in 0 .. L - 1
      BY <1>1, <3>1, DivMod
    <3>4. z[t] = Mul(a[t], b[(k - t) % L]) /\ b[(k - t) % L] \in Complex
      BY <1>2, <3>3
    <3> HIDE DEF a, b, z
    <3>5. Mul(Zero, b[(k - t) % L]) = Zero
      BY <3>4, MulLaws
    <3> QED BY <3>2, <3>4, <3>5
  <2> HIDE DEF z, wz, g
  <2> QED BY <1>1, <1>5, <2>1, TotalPadded
<1> HIDE DEF a, b, z, g, w, wz
<1>7. Total(wz, c) = Mul(w, Total(z, c)) /\ Total(z, c) \in Complex
  BY <1>4, <1>5, TotalTimes, TotalType
<1>8. Total(wz, c) = Total(g, c)
  BY <1>5, TotalSame
<1>9. Dft(x, c, -1)[k] = Total(g, c)
  BY <1>1, DftIs DEF g
<1>10. Mul(Total(z, c), w) = Mul(w, Total(z, c))
  BY <1>4, <1>7, MulLaws
<1> QED BY <1>3, <1>6, <1>7, <1>8, <1>9, <1>10 DEF w
===============================================================================
