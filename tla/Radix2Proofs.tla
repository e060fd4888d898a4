---------------------------- MODULE Radix2Proofs ------------------------------
(***************************************************************************)
(* radix2, for every power of two M, both directions, every input and      *)
(* whatever the scratch array held.                                         *)
(*                                                                          *)
(* First the index arithmetic of the butterfly loops (LoopInv): no          *)
(* butterfly leaves data, no entry is rewritten twice in a stage, and none  *)
(* is left out; the arithmetic on the entries plays no part.                *)
(*                                                                          *)
(* Then what the entries are (TransformInv), following the three loops.  In *)
(* the loop of bitReversal an entry is in its place when it or its partner  *)
(* was an earlier turn; at the head of a stage the blocks of data are the   *)
(* transforms of the decimated input; within a stage the pairs of an        *)
(* earlier offset, and those of this offset in an earlier block, hold the   *)
(* next stage's transforms, and the twiddle factor is the phasor of the     *)
(* offset.  A butterfly is one step of Danielson and Lanczos (DftButterfly  *)
(* of SignalProofs).                                                        *)
(***************************************************************************)
EXTENDS Radix2, SignalProofs, FiniteSetTheorems

\* The entries the loops have visited when they stand at (m, i): those whose
\* offset s in their block of mmax floats was the turn of an earlier m, and
\* those whose turn is the current m and that lie before i.
VisitedAt(x, size, turn, at) ==
    \E k \in Nat, s \in 0 .. size - 1 :
        /\ x = k * size + s
        /\ s < turn - 1 \/ (s \in {turn - 1, turn} /\ x < at - 1)

Visited(x) == VisitedAt(x, mmax, m, i)

LoopTypes ==
    /\ pc \in {"reverse", "stage", "butterfly", "done"}
    /\ mmax \in Nat /\ m \in Nat /\ i \in Nat
    /\ touched \subseteq 0 .. n - 1

\* A stage's blocks divide data, and mmax is even.
BlocksDivide ==
    /\ mmax >= 2 /\ mmax <= n
    /\ \E q \in Nat : n = q * mmax
    /\ \E h \in Nat : mmax = 2 * h

\* Where the loops on m and i stand within a stage.
LoopPosition ==
    pc = "butterfly" =>
        /\ \E q \in Nat : n = q * istep
        /\ \E u \in Nat : m = 2 * u + 1
        /\ m < mmax
        /\ \E r \in Nat : i = m + r * istep

TouchedIsVisited ==
    pc = "butterfly" => touched = {x \in 0 .. n - 1 : Visited(x)}

LoopInv == LoopTypes /\ BlocksDivide /\ LoopPosition /\ TouchedIsVisited /\ StageCoversData

-------------------------------------------------------------------------------
\* Multiplication by a natural number is monotone.
LEMMA MulMonotone ==
    ASSUME NEW a \in Nat, NEW b \in Nat, NEW c \in Nat, a <= b
    PROVE  a * c <= b * c
<1>1. PICK d \in Nat : b = a + d
  BY SMT
<1>2. b * c = a * c + d * c /\ d * c \in Nat
  BY <1>1, SMT
<1> QED BY <1>2, SMT

\* Division with remainder is unique.
LEMMA DivisionUnique ==
    ASSUME NEW d \in Nat, NEW k1 \in Nat, NEW k2 \in Nat,
           NEW s1 \in 0 .. d - 1, NEW s2 \in 0 .. d - 1,
           k1 * d + s1 = k2 * d + s2
    PROVE  k1 = k2 /\ s1 = s2
<1>1. k1 * d \in Nat /\ k2 * d \in Nat
  BY SMT
<1>2. ~ (k1 < k2)
  <2> SUFFICES ASSUME k1 + 1 <= k2 PROVE FALSE
    BY SMT
  <2>1. (k1 + 1) * d <= k2 * d
    BY MulMonotone
  <2>2. (k1 + 1) * d = k1 * d + d
    BY SMT
  <2> QED BY <1>1, <2>1, <2>2, SMT
<1>3. ~ (k2 < k1)
  <2> SUFFICES ASSUME k2 + 1 <= k1 PROVE FALSE
    BY SMT
  <2>1. (k2 + 1) * d <= k1 * d
    BY MulMonotone
  <2>2. (k2 + 1) * d = k2 * d + d
    BY SMT
  <2> QED BY <1>1, <2>1, <2>2, SMT
<1>4. k1 = k2
  BY <1>2, <1>3, SMT
<1> QED BY <1>1, <1>4, SMT

\* Division with remainder exists.
LEMMA DivisionExists ==
    ASSUME NEW d \in Nat, d > 0, NEW x \in Nat
    PROVE  \E k \in Nat, s \in 0 .. d - 1 : x = k * d + s
<1>1. x \div d \in Nat /\ x % d \in 0 .. d - 1
  BY SMT
<1>2. x = d * (x \div d) + (x % d)
  BY SMT
<1>3. x = (x \div d) * d + (x % d)
  BY <1>1, <1>2, SMT
<1> QED BY <1>1, <1>3

-------------------------------------------------------------------------------
\* What the size of data is.
LEMMA SizeFacts == M \in Nat /\ n \in Nat /\ n = 2 * M /\ n > 2
  BY SizeAssumption, SMT DEF n

\* A block size that divides data and is not all of it divides data an even
\* number of times: the next stage's blocks divide it too.
LEMMA StageDivides ==
    ASSUME BlocksDivide, mmax \in Nat, n > mmax
    PROVE  \E q \in Nat : n = q * istep
<1>1. PICK q \in Nat : n = q * mmax
  BY DEF BlocksDivide
<1>2. q > 1
  <2>1. q = 0 => q * mmax = 0
    BY SMT
  <2>2. q = 1 => q * mmax = mmax
    BY SMT
  <2> QED BY <1>1, <2>1, <2>2, SizeFacts, SMT
<1>3. q <= n /\ mmax <= n /\ mmax >= 1
  <2>1. q * 1 <= q * mmax
    <3>1. mmax >= 2
      BY DEF BlocksDivide
    <3>2. 1 * q <= mmax * q
      BY <3>1, MulMonotone, SMT
    <3> QED BY <3>2, SMT
  <2> QED BY <1>1, <2>1, SizeFacts, SMT DEF BlocksDivide
<1>4. PICK h \in 1 .. M : q = 2 * h
  <2>1. q \in 2 .. 2 * M /\ mmax \in 1 .. 2 * M
    BY <1>2, <1>3, SizeFacts, SMT
  <2>2. q * mmax = 2 * M
    BY <1>1, SizeFacts
  <2> QED BY <2>1, <2>2, SizeAssumption
<1>5. h \in Nat /\ n = h * (2 * mmax)
  BY <1>1, <1>4, SizeFacts, SMT
<1> QED BY <1>5 DEF istep

\* The four entries of a butterfly, in range and in their order.
LEMMA ButterflyBounds ==
    ASSUME LoopInv, pc = "butterfly", i <= n
    PROVE  0 <= i - 1 /\ i < j - 1 /\ j <= n - 1
<1>1. mmax \in Nat /\ m \in Nat /\ i \in Nat /\ mmax >= 2 /\ m < mmax
  BY SMT DEF LoopInv, LoopTypes, BlocksDivide, LoopPosition
<1>2. PICK q \in Nat : n = q * istep
  BY DEF LoopInv, LoopPosition
<1>3. PICK u \in Nat : m = 2 * u + 1
  BY DEF LoopInv, LoopPosition
<1>4. PICK r \in Nat : i = m + r * istep
  BY DEF LoopInv, LoopPosition
<1>5. istep \in Nat /\ istep = 2 * mmax
  BY <1>1, SMT DEF istep
<1>6. r * istep \in Nat
  BY <1>5, SMT
<1>7. r < q
  <2> SUFFICES ASSUME q <= r PROVE FALSE
    BY SMT
  <2>1. q * istep <= r * istep
    BY <1>5, MulMonotone
  <2>2. q * istep >= m + r * istep
    BY <1>2, <1>4
  <2> QED BY <1>3, <1>5, <1>6, <2>1, <2>2, SMT
<1>8. (r + 1) * istep <= q * istep
  BY <1>5, <1>7, MulMonotone, SMT
<1>9. (r + 1) * istep = r * istep + istep
  BY <1>5, SMT
<1>10. r * istep + istep <= n
  BY <1>2, <1>8, <1>9
<1> QED BY <1>1, <1>3, <1>4, <1>5, <1>6, <1>10, SizeFacts, SMT DEF j

\* Which entries of the current turn (offset m-1 or m) lie below the next i.
LEMMA NextEntries ==
    ASSUME LoopInv, pc = "butterfly", i <= n,
           NEW k \in Nat, NEW s \in {m - 1, m}
    PROVE  /\ k * mmax + s < (i + istep) - 1
              <=> k * mmax + s < i - 1 \/ k * mmax + s \in {j - 1, j, i - 1, i}
           /\ k * mmax + s \in {j - 1, j, i - 1, i} => ~ (k * mmax + s < i - 1)
<1>1. mmax \in Nat /\ m \in Nat /\ i \in Nat /\ mmax >= 2 /\ m < mmax
  BY SMT DEF LoopInv, LoopTypes, BlocksDivide, LoopPosition
<1>2. PICK u \in Nat : m = 2 * u + 1
  BY DEF LoopInv, LoopPosition
<1>3. PICK r \in Nat : i = m + r * istep
  BY DEF LoopInv, LoopPosition
<1>4. r * istep = (2 * r) * mmax /\ (2 * r) * mmax \in Nat
  BY <1>1, SMT DEF istep
<1>5. (2 * r + 1) * mmax = (2 * r) * mmax + mmax
  BY <1>1, SMT
<1>6. (2 * r + 2) * mmax = (2 * r) * mmax + 2 * mmax
  BY <1>1, SMT
<1>7. k * mmax \in Nat
  BY <1>1, SMT
<1>8. CASE k + 1 <= 2 * r
  <2>1. (k + 1) * mmax <= (2 * r) * mmax
    BY <1>1, <1>8, MulMonotone, SMT
  <2>2. (k + 1) * mmax = k * mmax + mmax
    BY <1>1, SMT
  <2> QED BY <1>1, <1>2, <1>3, <1>4, <1>7, <2>1, <2>2, SMT DEF j, istep
<1>9. CASE k = 2 * r
  BY <1>1, <1>2, <1>3, <1>4, <1>7, <1>9, SMT DEF j, istep
<1>10. CASE k = 2 * r + 1
  BY <1>1, <1>2, <1>3, <1>4, <1>5, <1>7, <1>10, SMT DEF j, istep
<1>11. CASE k >= 2 * r + 2
  <2>1. (2 * r + 2) * mmax <= k * mmax
    BY <1>1, <1>11, MulMonotone, SMT
  <2> QED BY <1>1, <1>2, <1>3, <1>4, <1>6, <1>7, <2>1, SMT DEF j, istep
<1> QED BY <1>8, <1>9, <1>10, <1>11, SMT

-------------------------------------------------------------------------------

\* The loops start at the beginning of data.
LEMMA LoopInvInit == Init => LoopInv
<1> SUFFICES ASSUME Init PROVE LoopInv
  OBVIOUS
<1>1. LoopTypes
  BY SMT DEF Init, LoopTypes
<1>2. BlocksDivide
  <2>1. n = M * 2 /\ 2 = 2 * 1
    BY SizeFacts, SMT
  <2> QED BY <2>1, SizeFacts DEF Init, BlocksDivide
<1>3. LoopPosition /\ TouchedIsVisited /\ StageCoversData
  BY DEF Init, LoopPosition, TouchedIsVisited, StageCoversData
<1> QED BY <1>1, <1>2, <1>3 DEF LoopInv

\* The steps outside the butterfly loops keep the loop variables.
LEMMA StartStageKeepsLoopInv == LoopInv /\ StartStage => LoopInv'
<1> SUFFICES ASSUME LoopInv, StartStage PROVE LoopInv'
  OBVIOUS
<1> USE DEF LoopInv
<1>0. mmax' = mmax /\ n' = n /\ istep' = istep /\ mmax \in Nat /\ mmax >= 2
  BY SMT DEF StartStage, n, istep, LoopTypes, BlocksDivide
<1>1. LoopTypes'
  BY SMT DEF StartStage, LoopTypes
<1>2. BlocksDivide'
  BY <1>0 DEF BlocksDivide
<1>3. LoopPosition'
  <2>1. \E q \in Nat : n = q * istep
    BY StageDivides DEF StartStage, LoopTypes
  <2>2. 1 = 2 * 0 + 1 /\ 1 = 1 + 0 * istep /\ 1 < mmax
    BY <1>0, SMT DEF istep
  <2> QED BY <1>0, <2>1, <2>2 DEF StartStage, LoopPosition
<1>4. TouchedIsVisited'
  <2> SUFFICES ASSUME NEW x \in 0 .. n - 1 PROVE ~ Visited(x)'
    BY <1>0 DEF StartStage, TouchedIsVisited
  <2> SUFFICES ASSUME NEW k \in Nat, NEW s \in 0 .. mmax - 1, x = k * mmax + s,
                      s < 1 - 1 \/ (s \in {1 - 1, 1} /\ x < 1 - 1)
               PROVE  FALSE
    BY <1>0 DEF StartStage, Visited, VisitedAt
  <2> QED BY <1>0, SizeFacts, SMT
<1>5. StageCoversData'
  BY DEF StartStage, StageCoversData
<1> QED BY <1>1, <1>2, <1>3, <1>4, <1>5

\* One more butterfly, one more block position visited.
LEMMA ButterflyKeepsLoopInv == LoopInv /\ Butterfly => LoopInv'
<1> SUFFICES ASSUME LoopInv, Butterfly PROVE LoopInv'
  OBVIOUS
<1>0. /\ mmax' = mmax /\ m' = m /\ pc' = pc /\ pc = "butterfly" /\ i <= n
      /\ n' = n /\ istep' = istep /\ i' = i + istep
      /\ touched' = touched \cup {j - 1, j, i - 1, i}
  BY DEF Butterfly, n, istep
<1>m. mmax' = mmax /\ m' = m /\ i' = i + istep
  BY <1>0
<1>t. mmax \in Nat /\ m \in Nat /\ i \in Nat /\ istep \in Nat /\ istep = 2 * mmax
  BY SMT DEF LoopInv, LoopTypes, istep
<1>b. {j - 1, j, i - 1, i} \subseteq 0 .. n - 1
  BY <1>0, <1>t, ButterflyBounds, SizeFacts, SMT DEF j
<1>1. LoopTypes'
  <2>1. touched \subseteq 0 .. n - 1 /\ mmax \in Nat /\ m \in Nat
    BY DEF LoopInv, LoopTypes
  <2>2. touched' \subseteq 0 .. n' - 1
    BY <1>0, <1>b, <2>1
  <2>3. i + istep \in Nat
    BY <1>t, SMT
  <2> QED BY <1>0, <2>1, <2>2, <2>3 DEF LoopTypes
<1>2. BlocksDivide'
  BY <1>0 DEF LoopInv, BlocksDivide
<1>3. LoopPosition'
  <2>1. PICK r \in Nat : i = m + r * istep
    BY <1>0 DEF LoopInv, LoopPosition
  <2>2. i + istep = m + (r + 1) * istep /\ r + 1 \in Nat
    BY <1>t, <2>1, SMT
  <2> QED BY <1>0, <2>2 DEF LoopInv, LoopPosition
<1>4. TouchedIsVisited'
  <2>1. touched = {x \in 0 .. n - 1 : Visited(x)}
    BY <1>0 DEF LoopInv, TouchedIsVisited
  <2>2. ASSUME NEW x \in 0 .. n - 1
        PROVE  VisitedAt(x, mmax, m, i + istep)
                 <=> VisitedAt(x, mmax, m, i) \/ x \in {j - 1, j, i - 1, i}
    <3>1. ASSUME VisitedAt(x, mmax, m, i + istep)
          PROVE  VisitedAt(x, mmax, m, i) \/ x \in {j - 1, j, i - 1, i}
      <4>1. PICK k \in Nat, s \in 0 .. mmax - 1 :
               /\ x = k * mmax + s
               /\ s < m - 1 \/ (s \in {m - 1, m} /\ x < (i + istep) - 1)
        BY <3>1 DEF VisitedAt
      <4>2. CASE s < m - 1
        BY <4>1, <4>2 DEF VisitedAt
      <4>3. CASE s \in {m - 1, m} /\ x < (i + istep) - 1
        <5>1. x < i - 1 \/ x \in {j - 1, j, i - 1, i}
          BY <1>0, <4>1, <4>3, NextEntries
        <5> QED BY <4>1, <4>3, <5>1 DEF VisitedAt
      <4> QED BY <4>1, <4>2, <4>3
    <3>2. ASSUME VisitedAt(x, mmax, m, i) PROVE VisitedAt(x, mmax, m, i + istep)
      <4>1. PICK k \in Nat, s \in 0 .. mmax - 1 :
               /\ x = k * mmax + s
               /\ s < m - 1 \/ (s \in {m - 1, m} /\ x < i - 1)
        BY <3>2 DEF VisitedAt
      <4>2. x < i - 1 => x < (i + istep) - 1
        BY <1>t, SMT
      <4> QED BY <4>1, <4>2 DEF VisitedAt
    <3>3. ASSUME x \in {j - 1, j, i - 1, i} PROVE VisitedAt(x, mmax, m, i + istep)
      <4>1. PICK r \in Nat : i = m + r * istep
        BY <1>0 DEF LoopInv, LoopPosition
      <4>2. PICK u \in Nat : m = 2 * u + 1
        BY <1>0 DEF LoopInv, LoopPosition
      <4>3. m < mmax
        BY <1>0 DEF LoopInv, LoopPosition
      <4>4. r * istep = (2 * r) * mmax /\ (2 * r + 1) * mmax = (2 * r) * mmax + mmax
        BY <1>t, SMT
      <4>5. (2 * r) * mmax \in Nat
        BY <1>t, SMT
      <4>6. PICK k \in Nat, s \in {m - 1, m} : x = k * mmax + s
        <5>1. CASE x \in {i - 1, i}
          <6>1. x = (2 * r) * mmax + (m - 1) \/ x = (2 * r) * mmax + m
            BY <1>t, <4>1, <4>4, <4>5, <5>1, SMT
          <6> QED BY <6>1
        <5>2. CASE x \in {j - 1, j}
          <6>1. \/ x = (2 * r + 1) * mmax + (m - 1)
                \/ x = (2 * r + 1) * mmax + m
            BY <1>t, <4>1, <4>4, <4>5, <5>2, SMT DEF j
          <6> QED BY <6>1
        <5> QED BY <3>3, <5>1, <5>2
      <4>7. s \in 0 .. mmax - 1
        BY <1>t, <4>2, <4>3, SMT
      <4>8. x < (i + istep) - 1
        BY <1>0, <3>3, <4>6, NextEntries
      <4> QED BY <4>6, <4>7, <4>8 DEF VisitedAt
    <3> QED BY <3>1, <3>2, <3>3
  <2>3. TouchedIsVisited'
         <=> touched' = {x \in 0 .. n - 1 : VisitedAt(x, mmax, m, i + istep)}
    BY <1>0 DEF TouchedIsVisited, Visited
  <2>4. touched = {x \in 0 .. n - 1 : VisitedAt(x, mmax, m, i)}
    BY <2>1 DEF Visited
  <2> QED BY <1>0, <1>b, <2>2, <2>3, <2>4
<1>5. StageCoversData'
  BY <1>0 DEF StageCoversData
<1> QED BY <1>1, <1>2, <1>3, <1>4, <1>5 DEF LoopInv

\* The end of the loop on i: the turn of offsets m - 1 and m is complete.
LEMMA NextTwiddleKeepsLoopInv == LoopInv /\ NextTwiddle => LoopInv'
<1> SUFFICES ASSUME LoopInv, NextTwiddle PROVE LoopInv'
  OBVIOUS
<1>0. /\ pc = "butterfly" /\ i > n /\ m' = m + 2 /\ i' = m + 2
      /\ n' = n /\ touched' = touched
  BY DEF NextTwiddle, n
<1>t. /\ mmax \in Nat /\ m \in Nat /\ i \in Nat /\ mmax >= 2 /\ m < mmax
      /\ istep = 2 * mmax
  BY <1>0, SMT DEF LoopInv, LoopTypes, BlocksDivide, LoopPosition, istep
<1>u. PICK u \in Nat : m = 2 * u + 1
  BY <1>0 DEF LoopInv, LoopPosition
<1>v. touched = {x \in 0 .. n - 1 : VisitedAt(x, mmax, m, i)}
  BY <1>0 DEF LoopInv, TouchedIsVisited, Visited
<1>1. CASE m + 2 < mmax
  <2>0. mmax' = mmax /\ pc' = pc /\ istep' = istep
    BY <1>1 DEF NextTwiddle, istep
  <2>1. LoopTypes'
    BY <1>0, <1>t, <2>0 DEF LoopInv, LoopTypes
  <2>2. BlocksDivide'
    BY <1>0, <2>0 DEF LoopInv, BlocksDivide
  <2>3. LoopPosition'
    <3>1. m + 2 = 2 * (u + 1) + 1 /\ u + 1 \in Nat
      BY <1>u, SMT
    <3>2. m + 2 = (m + 2) + 0 * istep
      BY <1>t, SMT
    <3> QED BY <1>0, <1>1, <2>0, <3>1, <3>2 DEF LoopInv, LoopPosition
  <2>4. TouchedIsVisited'
    <3>1. ASSUME NEW x \in 0 .. n - 1
          PROVE  VisitedAt(x, mmax, m + 2, m + 2) <=> VisitedAt(x, mmax, m, i)
      <4>x. x \in Nat /\ mmax > 0
        BY <1>t, SizeFacts, SMT
      <4>1. PICK k \in Nat, s \in 0 .. mmax - 1 : x = k * mmax + s
        BY <1>t, <4>x, DivisionExists
      <4>2. k * mmax \in Nat
        BY <1>t, SMT
      <4>3. ASSUME NEW turn \in Nat, NEW at \in Nat
            PROVE  VisitedAt(x, mmax, turn, at)
                     <=> s < turn - 1 \/ (s \in {turn - 1, turn} /\ x < at - 1)
        <5>1. ASSUME NEW k2 \in Nat, NEW s2 \in 0 .. mmax - 1, x = k2 * mmax + s2
              PROVE  s2 = s
          <6>1. k * mmax + s = k2 * mmax + s2 /\ mmax \in Nat
            BY <1>t, <4>1, <5>1
          <6> QED BY <6>1, DivisionUnique, ZenonT(30)
        <5> QED BY <4>1, <5>1, Zenon DEF VisitedAt
      <4>4. x < i - 1
        BY <1>0, <1>t, SizeFacts, SMT
      <4>5. ~ (s \in {(m + 2) - 1, m + 2} /\ x < (m + 2) - 1)
        BY <1>t, <4>1, <4>2, SMT
      <4>6. VisitedAt(x, mmax, m + 2, m + 2) <=> s < (m + 2) - 1
        BY <1>t, <4>3, <4>5, SMT
      <4>7. VisitedAt(x, mmax, m, i) <=> s < m - 1 \/ s \in {m - 1, m}
        BY <1>t, <4>3, <4>4
      <4>8. s < (m + 2) - 1 <=> s < m - 1 \/ s \in {m - 1, m}
        BY <1>t, <4>1, SMT
      <4> QED BY <4>6, <4>7, <4>8
    <3>2. TouchedIsVisited'
           <=> touched' = {x \in 0 .. n - 1 : VisitedAt(x, mmax, m + 2, m + 2)}
      BY <1>0, <2>0 DEF TouchedIsVisited, Visited
    <3> QED BY <1>0, <1>v, <3>1, <3>2
  <2>5. StageCoversData'
    BY <1>0, <2>0 DEF StageCoversData
  <2> QED BY <2>1, <2>2, <2>3, <2>4, <2>5 DEF LoopInv
<1>2. CASE ~ (m + 2 < mmax)
  <2>0. mmax' = istep /\ pc' = "stage"
    BY <1>2 DEF NextTwiddle
  <2>1. LoopTypes'
    BY <1>0, <1>t, <2>0, SMT DEF LoopInv, LoopTypes
  <2>2. BlocksDivide'
    <3>1. PICK q \in Nat : n = q * istep
      BY <1>0 DEF LoopInv, LoopPosition
    <3>2. q >= 1
      <4>1. q = 0 => q * istep = 0
        BY <1>t, SMT
      <4> QED BY <3>1, <4>1, SizeFacts, SMT
    <3>3. 1 * istep <= q * istep
      BY <1>t, <3>2, MulMonotone, SMT
    <3>4. istep <= n /\ istep >= 2
      BY <1>t, <3>1, <3>3, SMT
    <3> QED BY <1>0, <1>t, <2>0, <3>1, <3>4 DEF BlocksDivide
  <2>3. LoopPosition' /\ TouchedIsVisited'
    BY <2>0 DEF LoopPosition, TouchedIsVisited
  <2>4. touched = 0 .. n - 1
    <3> SUFFICES ASSUME NEW x \in 0 .. n - 1 PROVE VisitedAt(x, mmax, m, i)
      BY <1>v
    <3>x. x \in Nat /\ mmax > 0
      BY <1>t, SizeFacts, SMT
    <3>1. PICK k \in Nat, s \in 0 .. mmax - 1 : x = k * mmax + s
      BY <1>t, <3>x, DivisionExists
    <3>2. x < i - 1
      BY <1>0, <1>t, SizeFacts, SMT
    <3>3. mmax <= m + 1
      <4>1. PICK h \in Nat : mmax = 2 * h
        BY DEF LoopInv, BlocksDivide
      <4> QED BY <1>2, <1>u, <4>1, SMT
    <3>4. s < m - 1 \/ s \in {m - 1, m}
      BY <1>t, <3>1, <3>3, SMT
    <3> QED BY <3>1, <3>2, <3>4 DEF VisitedAt
  <2>5. StageCoversData'
    BY <1>0, <2>4 DEF StageCoversData
  <2> QED BY <2>1, <2>2, <2>3, <2>5 DEF LoopInv
<1> QED BY <1>1, <1>2

\* The first stage is set up.
LEMMA ConcatKeepsLoopInv == LoopInv /\ ConcatArrays => LoopInv'
<1> SUFFICES ASSUME LoopInv, ConcatArrays PROVE LoopInv'
  OBVIOUS
<1>0. mmax' = 2 /\ pc' = "stage" /\ n' = n /\ m' = m /\ i' = i /\ touched' = touched
  BY DEF ConcatArrays, n
<1>1. LoopTypes'
  BY <1>0 DEF LoopInv, LoopTypes
<1>2. BlocksDivide'
  <2>1. n = M * 2 /\ 2 = 2 * 1 /\ 2 <= n
    BY SizeFacts, SMT
  <2> QED BY <1>0, <2>1, SizeFacts DEF BlocksDivide
<1>3. LoopPosition' /\ TouchedIsVisited' /\ StageCoversData'
  BY <1>0, SMT DEF LoopPosition, TouchedIsVisited, StageCoversData
<1> QED BY <1>1, <1>2, <1>3 DEF LoopInv

\* Every action keeps the loop invariant.
LEMMA LoopInvStep == LoopInv /\ [Next]_vars => LoopInv'
<1> SUFFICES ASSUME LoopInv, [Next]_vars PROVE LoopInv'
  OBVIOUS
<1> USE DEF LoopInv, LoopTypes, BlocksDivide, LoopPosition, TouchedIsVisited,
            Visited, VisitedAt, StageCoversData, n, istep
<1>1. CASE BitReversal
  BY <1>1 DEF BitReversal
<1>2. CASE ConcatArrays
  BY <1>2, ConcatKeepsLoopInv
<1>3. CASE StartStage
  BY <1>3, StartStageKeepsLoopInv
<1>4. CASE Butterfly
  BY <1>4, ButterflyKeepsLoopInv
<1>5. CASE NextTwiddle
  BY <1>5, NextTwiddleKeepsLoopInv
<1>6. CASE SeparateArrays
  BY <1>6 DEF SeparateArrays
<1>7. CASE UNCHANGED vars
  BY <1>7 DEF vars
<1> QED BY <1>1, <1>2, <1>3, <1>4, <1>5, <1>6, <1>7 DEF Next

\* The loop invariant holds throughout every call.
THEOREM LoopInvariance == Spec => []LoopInv
<1> QED BY LoopInvInit, LoopInvStep, PTL DEF Spec

\* No butterfly of radix2 reads or writes outside data, for every power of two
\* the array can have as its size.
THEOREM ButterfliesStayInRange == Spec => []ButterflyInRange
<1>1. LoopInv => ButterflyInRange
  BY ButterflyBounds DEF ButterflyInRange
<1> QED BY <1>1, LoopInvariance, PTL

\* At the end of every stage each entry of data has been rewritten.
THEOREM EveryStageCoversData == Spec => []StageCoversData
<1>1. LoopInv => StageCoversData
  BY DEF LoopInv
<1> QED BY <1>1, LoopInvariance, PTL

\* The entries of the butterfly about to run have not been visited.
LEMMA ButterflyIsFresh ==
    ASSUME LoopInv, pc = "butterfly", i <= n,
           NEW x \in {j - 1, j, i - 1, i}
    PROVE  x \notin touched
<1>1. mmax \in Nat /\ m \in Nat /\ i \in Nat /\ mmax >= 2 /\ m < mmax /\ istep = 2 * mmax
  BY SMT DEF LoopInv, LoopTypes, BlocksDivide, LoopPosition, istep
<1>2. PICK u \in Nat : m = 2 * u + 1
  BY DEF LoopInv, LoopPosition
<1>3. PICK r \in Nat : i = m + r * istep
  BY DEF LoopInv, LoopPosition
<1>4. r * istep = (2 * r) * mmax /\ (2 * r + 1) * mmax = (2 * r) * mmax + mmax
  BY <1>1, SMT
<1>5. (2 * r) * mmax \in Nat
  BY <1>1, SMT
<1>6. PICK k \in Nat, s \in {m - 1, m} : x = k * mmax + s
  <2>1. CASE x \in {i - 1, i}
    <3>1. x = (2 * r) * mmax + (m - 1) \/ x = (2 * r) * mmax + m
      BY <1>1, <1>3, <1>4, <1>5, <2>1, SMT
    <3> QED BY <3>1
  <2>2. CASE x \in {j - 1, j}
    <3>1. x = (2 * r + 1) * mmax + (m - 1) \/ x = (2 * r + 1) * mmax + m
      BY <1>1, <1>3, <1>4, <1>5, <2>2, SMT DEF j
    <3> QED BY <3>1
  <2> QED BY <2>1, <2>2
<1>7. ~ (x < i - 1)
  BY <1>6, NextEntries
<1>8. SUFFICES ASSUME VisitedAt(x, mmax, m, i) PROVE FALSE
  BY DEF LoopInv, TouchedIsVisited, Visited
<1>9. PICK k2 \in Nat, s2 \in 0 .. mmax - 1 : x = k2 * mmax + s2 /\ s2 < m - 1
  BY <1>7, <1>8 DEF VisitedAt
<1>10. s \in 0 .. mmax - 1
  BY <1>1, <1>2, <1>6, SMT
<1>11. s = s2
  <2>1. k * mmax + s = k2 * mmax + s2
    BY <1>6, <1>9
  <2> QED BY <1>1, <1>10, <2>1, DivisionUnique, SMT
<1> QED BY <1>1, <1>6, <1>9, <1>11, SMT

\* Within a stage no entry of data is rewritten twice.
THEOREM EntriesRewrittenOnce == Spec => []EachEntryOncePerStage
<1>1. LoopInv => EachEntryOncePerStage
  BY ButterflyIsFresh DEF EachEntryOncePerStage
<1> QED BY <1>1, LoopInvariance, PTL

-------------------------------------------------------------------------------
(* Powers of two and the bit reversal *)

\* Counting subsets gives the powers of two their recursion.
LEMMA PowerStep ==
    /\ 2 ^ 0 = 1
    /\ \A l \in Nat : 2 ^ l \in Nat /\ 2 ^ l > 0 /\ 2 ^ (l + 1) = 2 * 2 ^ l
<1>1. \A l \in Nat : /\ IsFiniteSet(1 .. l) /\ IsFiniteSet(SUBSET (1 .. l))
                     /\ Cardinality(SUBSET (1 .. l)) = 2 ^ l
                     /\ 2 ^ l \in Nat /\ 2 ^ l > 0
  <2> SUFFICES ASSUME NEW l \in Nat
               PROVE  /\ IsFiniteSet(1 .. l) /\ IsFiniteSet(SUBSET (1 .. l))
                      /\ Cardinality(SUBSET (1 .. l)) = 2 ^ l
                      /\ 2 ^ l \in Nat /\ 2 ^ l > 0
    OBVIOUS
  <2>1. IsFiniteSet(1 .. l) /\ Cardinality(1 .. l) = l
    <3>1. 1 \in Int /\ l \in Int /\ (IF 1 > l THEN 0 ELSE l - 1 + 1) = l
      BY SMT
    <3> QED BY <3>1, FS_Interval
  <2>2. IsFiniteSet(SUBSET (1 .. l)) /\ Cardinality(SUBSET (1 .. l)) = 2 ^ l
    BY <2>1, FS_SUBSET
  <2>3. 2 ^ l \in Nat
    BY <2>2, FS_CardinalityType
  <2>4. 2 ^ l # 0
    <3>1. SUBSET (1 .. l) # {}
      OBVIOUS
    <3> QED BY <2>2, <3>1, FS_EmptySet
  <2> QED BY <2>1, <2>2, <2>3, <2>4, SMT
<1>2. 2 ^ 0 = 1
  <2>1. 1 .. 0 = {} /\ 0 \in Nat
    BY SMT
  <2>2. SUBSET {} = {{}}
    OBVIOUS
  <2>3. Cardinality({{}}) = 1
    BY FS_Singleton
  <2>4. Cardinality(SUBSET (1 .. 0)) = 2 ^ 0
    BY <1>1, <2>1
  <2> QED BY <2>1, <2>2, <2>3, <2>4
<1>3. ASSUME NEW l \in Nat PROVE 2 ^ (l + 1) = 2 * 2 ^ l
  <2> DEFINE A == SUBSET (1 .. l)
             new == l + 1
             B == {X \cup {new} : X \in A}
             f == [X \in A |-> X \cup {new}]
  <2>1. l + 1 \in Nat /\ 1 .. (l + 1) = (1 .. l) \cup {new} /\ new \notin 1 .. l
    BY SMT
  <2> HIDE DEF new
  <2>2. SUBSET (1 .. (l + 1)) = A \cup B
    <3>1. ASSUME NEW Y \in SUBSET (1 .. (l + 1)) PROVE Y \in A \cup B
      <4>1. CASE new \in Y
        <5>1. Y = (Y \ {new}) \cup {new} /\ Y \ {new} \in A
          BY <2>1, <4>1
        <5> QED BY <5>1
      <4>2. CASE new \notin Y
        BY <2>1, <4>2
      <4> QED BY <4>1, <4>2
    <3>2. \A Y \in A \cup B : Y \in SUBSET (1 .. (l + 1))
      BY <2>1
    <3> QED BY <3>1, <3>2
  <2>3. A \cap B = {}
    BY <2>1
  <2>4. f \in Bijection(A, B)
    <3>1. f \in [A -> B]
      OBVIOUS
    <3>2. \A X \in A, Y \in A : f[X] = f[Y] => X = Y
      <4> SUFFICES ASSUME NEW X \in A, NEW Y \in A, X \cup {new} = Y \cup {new} PROVE X = Y
        OBVIOUS
      <4>1. new \notin X /\ new \notin Y
        BY <2>1
      <4> QED BY <4>1
    <3>3. \A Z \in B : \E X \in A : f[X] = Z
      OBVIOUS
    <3> QED BY <3>1, <3>2, <3>3 DEF Bijection, Injection, Surjection, IsInjective
  <2>5. ExistsBijection(A, B)
    BY <2>4 DEF ExistsBijection
  <2>6. IsFiniteSet(A) /\ Cardinality(A) = 2 ^ l /\ 2 ^ l \in Nat
    BY <1>1
  <2>7. IsFiniteSet(B) /\ Cardinality(B) = 2 ^ l
    BY <2>5, <2>6, FS_Bijection
  <2>8. Cardinality(A \cup B) = Cardinality(A) + Cardinality(B) - Cardinality(A \cap B)
    BY <2>6, <2>7, FS_Union
  <2>9. Cardinality(A \cap B) = 0
    BY <2>3, FS_EmptySet
  <2>10. Cardinality(SUBSET (1 .. (l + 1))) = 2 ^ (l + 1)
    BY <1>1, <2>1
  <2> DEFINE p == 2 ^ l
             q == 2 ^ (l + 1)
  <2>11. q = p + p - 0 /\ p \in Nat
    BY <2>2, <2>6, <2>7, <2>8, <2>9, <2>10
  <2> HIDE DEF p, q
  <2>12. q = 2 * p
    BY <2>11, SMT
  <2> QED BY <2>12 DEF p, q
<1> QED BY <1>1, <1>2, <1>3

\* f holds the reversals of the lowest bits of num.
IsReversed(f, num, levels) ==
    f = [l \in 0 .. levels |->
           IF l = 0 THEN 0 ELSE 2 * f[l - 1] + ((num \div 2 ^ (l - 1)) % 2)]

\* The recursive function of ReverseBits exists.
LEMMA ReversedExists ==
    ASSUME NEW num
    PROVE  \A levels \in Nat : \E f : IsReversed(f, num, levels)
<1> DEFINE bit(l) == (num \div 2 ^ l) % 2
           T == {top \in Nat : \E f : IsReversed(f, num, top)}
<1>1. 0 \in T
  <2> DEFINE f == [k \in 0 .. 0 |-> 0]
  <2>1. \A k \in 0 .. 0 : k = 0
    BY SMT
  <2>2. IsReversed(f, num, 0)
    BY <2>1 DEF IsReversed
  <2> QED BY <2>2
<1>2. ASSUME NEW top \in Nat, top \in T PROVE top + 1 \in T
  <2>1. PICK f : IsReversed(f, num, top)
    BY <1>2
  <2> DEFINE g == [k \in 0 .. top + 1 |->
                     IF k <= top THEN f[k] ELSE 2 * f[top] + bit(top)]
             h == [k \in 0 .. top + 1 |-> IF k = 0 THEN 0 ELSE 2 * g[k - 1] + bit(k - 1)]
  <2>2. ASSUME NEW k \in 0 .. top + 1 PROVE g[k] = h[k]
    <3>1. CASE k = 0
      <4>1. 0 \in 0 .. top /\ 0 <= top
        BY <1>2, SMT
      <4>2. f[0] = 0
        BY <2>1, <4>1 DEF IsReversed
      <4> QED BY <3>1, <4>1, <4>2
    <3>2. CASE k # 0 /\ k <= top
      <4>1. k \in 0 .. top /\ k - 1 \in 0 .. top + 1 /\ k - 1 <= top
        BY <1>2, <3>2, SMT
      <4>2. f[k] = 2 * f[k - 1] + bit(k - 1)
        BY <2>1, <3>2, <4>1 DEF IsReversed
      <4>3. g[k] = f[k] /\ g[k - 1] = f[k - 1]
        BY <3>2, <4>1
      <4> QED BY <3>2, <4>2, <4>3
    <3>3. CASE k # 0 /\ ~ (k <= top)
      <4>1. k - 1 = top /\ top \in 0 .. top + 1 /\ top <= top
        BY <1>2, <3>3, SMT
      <4>2. g[k] = 2 * f[top] + bit(top) /\ g[top] = f[top]
        BY <3>3, <4>1
      <4> QED BY <3>3, <4>1, <4>2
    <3> QED BY <3>1, <3>2, <3>3
  <2>3. g = h
    BY <2>2
  <2>4. IsReversed(g, num, top + 1)
    BY <2>3 DEF IsReversed
  <2>5. top + 1 \in Nat
    BY <1>2, SMT
  <2> QED BY <2>4, <2>5
<1>3. \A top \in Nat : top \in T
  <2> HIDE DEF T
  <2> QED BY <1>1, <1>2, InductiveSet
<1> QED BY <1>3

\* It is determined by its recursion.
LEMMA ReversedUnique ==
    ASSUME NEW num, NEW f, NEW g, NEW l \in Nat, NEW m1 \in Nat,
           IsReversed(f, num, l), IsReversed(g, num, m1)
    PROVE  \A k \in Nat : k <= l /\ k <= m1 => f[k] = g[k]
<1> DEFINE T == {k \in Nat : k <= l /\ k <= m1 => f[k] = g[k]}
<1>1. 0 \in T
  <2>1. 0 \in 0 .. l /\ 0 \in 0 .. m1
    BY SMT
  <2> QED BY <2>1 DEF IsReversed
<1>2. ASSUME NEW k \in Nat, k \in T PROVE k + 1 \in T
  <2> SUFFICES ASSUME k + 1 <= l, k + 1 <= m1 PROVE f[k + 1] = g[k + 1]
    BY <1>2, SMT
  <2>1. k + 1 \in 0 .. l /\ k + 1 \in 0 .. m1 /\ k + 1 # 0 /\ (k + 1) - 1 = k
    BY <1>2, SMT
  <2>2. /\ f[k + 1] = 2 * f[k] + ((num \div 2 ^ k) % 2)
        /\ g[k + 1] = 2 * g[k] + ((num \div 2 ^ k) % 2)
    BY <2>1 DEF IsReversed
  <2>3. k <= l /\ k <= m1
    BY <1>2, <2>1, SMT
  <2> QED BY <1>2, <2>2, <2>3
<1>3. \A k \in Nat : k \in T
  <2> HIDE DEF T
  <2> QED BY <1>1, <1>2, InductiveSet
<1> QED BY <1>3

\* ReverseBits is its last value.
LEMMA ReverseIs ==
    ASSUME NEW num, NEW levels \in Nat
    PROVE  \E f : IsReversed(f, num, levels) /\ ReverseBits(num, levels) = f[levels]
<1> DEFINE f == CHOOSE f : IsReversed(f, num, levels)
<1>1. IsReversed(f, num, levels)
  BY ReversedExists
<1>2. ReverseBits(num, levels) = f[levels]
  BY DEF ReverseBits, IsReversed
<1> QED BY <1>1, <1>2

\* The loop of reverseBits, one more bit.
LEMMA ReverseStep ==
    ASSUME NEW num
    PROVE  /\ ReverseBits(num, 0) = 0
           /\ \A l \in Nat : ReverseBits(num, l + 1)
                               = 2 * ReverseBits(num, l) + ((num \div 2 ^ l) % 2)
<1>1. ReverseBits(num, 0) = 0
  <2>1. PICK f : IsReversed(f, num, 0) /\ ReverseBits(num, 0) = f[0]
    BY ReverseIs
  <2>2. 0 \in 0 .. 0
    BY SMT
  <2> QED BY <2>1, <2>2 DEF IsReversed
<1>2. ASSUME NEW l \in Nat
      PROVE  ReverseBits(num, l + 1) = 2 * ReverseBits(num, l) + ((num \div 2 ^ l) % 2)
  <2>1. PICK f : IsReversed(f, num, l) /\ ReverseBits(num, l) = f[l]
    BY ReverseIs
  <2>2. l + 1 \in Nat /\ l + 1 \in 0 .. l + 1 /\ l + 1 # 0 /\ (l + 1) - 1 = l
        /\ l <= l + 1 /\ l <= l
    BY SMT
  <2>3. PICK g : IsReversed(g, num, l + 1) /\ ReverseBits(num, l + 1) = g[l + 1]
    BY <2>2, ReverseIs
  <2>4. g[l + 1] = 2 * g[l] + ((num \div 2 ^ l) % 2)
    BY <2>2, <2>3 DEF IsReversed
  <2>5. f[l] = g[l]
    BY <2>1, <2>2, <2>3, ReversedUnique
  <2> QED BY <2>1, <2>3, <2>4, <2>5
<1> QED BY <1>1, <1>2

\* Reversing l bits gives a number of l bits.
LEMMA ReverseType ==
    ASSUME NEW num \in Nat
    PROVE  \A l \in Nat : ReverseBits(num, l) \in 0 .. 2 ^ l - 1
<1> DEFINE T == {l \in Nat : ReverseBits(num, l) \in 0 .. 2 ^ l - 1}
<1>1. 0 \in T
  <2>1. ReverseBits(num, 0) = 0 /\ 2 ^ 0 = 1
    BY ReverseStep, PowerStep
  <2>2. 0 \in 0 .. 1 - 1
    BY SMT
  <2> QED BY <2>1, <2>2
<1>2. ASSUME NEW l \in Nat, l \in T PROVE l + 1 \in T
  <2> DEFINE p == 2 ^ l
             q == 2 ^ (l + 1)
             b == (num \div p) % 2
             a == ReverseBits(num, l)
  <2>1. p \in Nat /\ p > 0 /\ q = 2 * p
    BY <1>2, PowerStep
  <2>2. ReverseBits(num, l + 1) = 2 * a + b /\ a \in 0 .. p - 1
    BY <1>2, ReverseStep
  <2>3. b \in 0 .. 1
    <3> HIDE DEF p
    <3>1. num \div p \in Int
      BY <2>1, SMT
    <3> QED BY <3>1, SMT
  <2> HIDE DEF p, q, b, a
  <2>4. 2 * a + b \in 0 .. q - 1
    BY <2>1, <2>2, <2>3, SMT
  <2>5. ReverseBits(num, l + 1) \in 0 .. 2 ^ (l + 1) - 1
    BY <2>2, <2>4 DEF q
  <2> QED BY <1>2, <2>5
<1>3. \A l \in Nat : l \in T
  <2> HIDE DEF T
  <2> QED BY <1>1, <1>2, InductiveSet
<1> QED BY <1>3

\* The lowest bit becomes the highest.
LEMMA ReverseLow ==
    ASSUME NEW x \in Nat, NEW c \in {0, 1}
    PROVE  \A l \in Nat : ReverseBits(2 * x + c, l + 1) = c * 2 ^ l + ReverseBits(x, l)
<1> DEFINE T == {l \in Nat : ReverseBits(2 * x + c, l + 1) = c * 2 ^ l + ReverseBits(x, l)}
           y == 2 * x + c
<1>0. y \in Nat /\ c \in Nat
  BY SMT
<1>1. 0 \in T
  <2>1. ReverseBits(y, 0 + 1) = 2 * ReverseBits(y, 0) + ((y \div 2 ^ 0) % 2)
        /\ ReverseBits(y, 0) = 0 /\ ReverseBits(x, 0) = 0 /\ 2 ^ 0 = 1
    BY ReverseStep, PowerStep
  <2>2. y \div 1 = y /\ y % 2 = c
    <3>1. y = 1 * y + 0 /\ 0 \in 0 .. 1 - 1 /\ 1 \in Nat /\ y \in Int
      BY <1>0, SMT
    <3>2. y \div 1 = y
      BY <3>1, DivModAre
    <3>3. c \in 0 .. 2 - 1 /\ 2 \in Nat /\ x \in Int /\ y \in Int
      BY <1>0, SMT
    <3>4. y % 2 = c
      BY <3>3, DivModAre
    <3> QED BY <3>2, <3>4
  <2>3. 2 * 0 + c = c /\ c * 1 + 0 = c
    BY <1>0, SMT
  <2> QED BY <2>1, <2>2, <2>3
<1>2. ASSUME NEW l \in Nat, l \in T PROVE l + 1 \in T
  <2> DEFINE p == 2 ^ l
             q == 2 ^ (l + 1)
             e == x \div p
             d == x % p
             a == ReverseBits(x, l)
  <2>1. l + 1 \in Nat /\ p \in Nat /\ p > 0 /\ q = 2 * p
    BY <1>2, PowerStep
  <2>2. /\ ReverseBits(y, (l + 1) + 1) = 2 * ReverseBits(y, l + 1) + ((y \div q) % 2)
        /\ ReverseBits(x, l + 1) = 2 * a + (e % 2)
    BY <1>2, <2>1, ReverseStep
  <2>3. ReverseBits(y, l + 1) = c * p + a
    BY <1>2
  <2>4. e \in Int /\ d \in 0 .. p - 1 /\ x = p * e + d
    <3> HIDE DEF p
    <3>1. x \in Int
      BY SMT
    <3> QED BY <2>1, <3>1, DivMod
  <2>5. a \in Int
    BY <1>2, ReverseType, SMT
  <2> HIDE DEF p, q, e, d, a
  <2>6. y \div q = e
    <3>1. y = q * e + (2 * d + c)
      <4> DEFINE pe == p * e
      <4>1. pe \in Int /\ q * e = 2 * pe
        BY <2>1, <2>4, SMT
      <4>2. x = pe + d
        BY <2>4
      <4> HIDE DEF pe
      <4>3. 2 * x + c = 2 * pe + (2 * d + c)
        BY <1>0, <2>4, <4>1, <4>2, SMT
      <4> QED BY <4>1, <4>3
    <3>2. 2 * d + c \in 0 .. q - 1 /\ q \in Nat /\ y \in Int
      BY <1>0, <2>1, <2>4, SMT
    <3> QED BY <2>4, <3>1, <3>2, DivModAre
  <2>7. 2 * (c * p + a) + (e % 2) = c * q + (2 * a + (e % 2))
    <3>1. CASE c = 0
      <4>1. c * p = 0 /\ c * q = 0 /\ e % 2 \in Int
        BY <2>1, <2>4, <3>1, SMT
      <4> QED BY <2>5, <4>1, SMT
    <3>2. CASE c = 1
      <4>1. c * p = p /\ c * q = q /\ e % 2 \in Int
        BY <2>1, <2>4, <3>2, SMT
      <4> QED BY <2>1, <2>5, <4>1, SMT
    <3> QED BY <3>1, <3>2
  <2>8. ReverseBits(y, (l + 1) + 1) = c * q + ReverseBits(x, l + 1)
    BY <2>2, <2>3, <2>6, <2>7
  <2> QED BY <2>1, <2>8 DEF q
<1>3. \A l \in Nat : l \in T
  <2> HIDE DEF T
  <2> QED BY <1>1, <1>2, InductiveSet
<1> QED BY <1>3

\* Every number is twice another and its lowest bit.
LEMMA LowBit ==
    ASSUME NEW p \in Nat, NEW x \in 0 .. 2 * p - 1
    PROVE  \E y \in 0 .. p - 1, c \in {0, 1} : x = 2 * y + c
<1>1. x \in Int /\ x \div 2 \in Int /\ x % 2 \in 0 .. 1 /\ x = 2 * (x \div 2) + (x % 2)
  BY SMT
<1>2. x \div 2 \in 0 .. p - 1 /\ x % 2 \in {0, 1}
  BY <1>1, SMT
<1> QED BY <1>1, <1>2

\* The highest bit becomes the lowest.
LEMMA ReverseHigh ==
    ASSUME NEW c \in {0, 1}
    PROVE  \A l \in Nat : \A z \in 0 .. 2 ^ l - 1 :
              ReverseBits(c * 2 ^ l + z, l + 1) = 2 * ReverseBits(z, l) + c
<1> DEFINE T == {l \in Nat : \A z \in 0 .. 2 ^ l - 1 :
                    ReverseBits(c * 2 ^ l + z, l + 1) = 2 * ReverseBits(z, l) + c}
<1>1. 0 \in T
  <2> SUFFICES ASSUME NEW z \in 0 .. 2 ^ 0 - 1
               PROVE  ReverseBits(c * 2 ^ 0 + z, 0 + 1) = 2 * ReverseBits(z, 0) + c
    OBVIOUS
  <2>1. z = 0 /\ 2 ^ 0 = 1
    <3>1. z \in 0 .. 1 - 1
      BY PowerStep
    <3> QED BY <3>1, PowerStep, SMT
  <2>2. c * 1 + 0 = 2 * 0 + c /\ c * 1 + 0 = c /\ 0 \in Nat /\ 2 * 0 + c = c
    BY SMT
  <2>3. ReverseBits(2 * 0 + c, 0 + 1) = c * 2 ^ 0 + ReverseBits(0, 0)
    BY <2>2, ReverseLow
  <2>4. ReverseBits(0, 0) = 0
    BY ReverseStep
  <2> QED BY <2>1, <2>2, <2>3, <2>4
<1>2. ASSUME NEW l \in Nat, l \in T PROVE l + 1 \in T
  <2> DEFINE p == 2 ^ l
             q == 2 ^ (l + 1)
  <2>1. l + 1 \in Nat /\ p \in Nat /\ p > 0 /\ q = 2 * p
    BY <1>2, PowerStep
  <2>2. ASSUME NEW z \in 0 .. q - 1
        PROVE  ReverseBits(c * q + z, (l + 1) + 1) = 2 * ReverseBits(z, l + 1) + c
    <3>1. PICK y \in 0 .. p - 1, d \in {0, 1} : z = 2 * y + d
      <4>1. z \in 0 .. 2 * p - 1
        BY <2>1, <2>2
      <4> QED BY <2>1, <4>1, LowBit
    <3> DEFINE u == c * p + y
               a == ReverseBits(y, l)
    <3>2. ReverseBits(u, l + 1) = 2 * a + c
      BY <1>2
    <3>3. a \in Int /\ y \in Nat
      <4>1. y \in Nat
        BY <2>1, <3>1, SMT
      <4>2. a \in 0 .. p - 1
        BY <1>2, <4>1, ReverseType
      <4> QED BY <2>1, <4>1, <4>2, SMT
    <3>4. ReverseBits(z, l + 1) = d * p + a
      BY <1>2, <3>1, <3>3, ReverseLow
    <3> HIDE DEF p, q
    <3>5. u \in Nat /\ c * q + z = 2 * u + d /\ c \in Int /\ d \in Int
      <4>1. CASE c = 0
        <5>1. c * p = 0 /\ c * q = 0
          BY <2>1, <4>1, SMT
        <5> QED BY <3>1, <3>3, <4>1, <5>1, SMT
      <4>2. CASE c = 1
        <5>1. c * p = p /\ c * q = q
          BY <2>1, <4>2, SMT
        <5> QED BY <2>1, <3>1, <3>3, <4>2, <5>1, SMT
      <4> QED BY <4>1, <4>2
    <3> HIDE DEF u
    <3>6. ReverseBits(2 * u + d, (l + 1) + 1) = d * q + ReverseBits(u, l + 1)
      BY <2>1, <3>5, ReverseLow DEF q
    <3>7. d * q + (2 * a + c) = 2 * (d * p + a) + c
      <4> HIDE DEF a
      <4>1. CASE d = 0
        <5>1. d * p = 0 /\ d * q = 0
          BY <2>1, <4>1, SMT
        <5> QED BY <3>3, <3>5, <5>1, SMT
      <4>2. CASE d = 1
        <5>1. d * p = p /\ d * q = q
          BY <2>1, <4>2, SMT
        <5> QED BY <2>1, <3>3, <3>5, <5>1, SMT
      <4> QED BY <4>1, <4>2
    <3> QED BY <3>2, <3>4, <3>5, <3>6, <3>7
  <2> QED BY <2>1, <2>2
<1>3. \A l \in Nat : l \in T
  <2> HIDE DEF T
  <2> QED BY <1>1, <1>2, InductiveSet
<1> QED BY <1>3

\* Reversing twice changes nothing.
LEMMA ReverseTwice ==
    \A l \in Nat : \A x \in 0 .. 2 ^ l - 1 : ReverseBits(ReverseBits(x, l), l) = x
<1> DEFINE T == {l \in Nat : \A x \in 0 .. 2 ^ l - 1 : ReverseBits(ReverseBits(x, l), l) = x}
<1>1. 0 \in T
  <2> SUFFICES ASSUME NEW x \in 0 .. 2 ^ 0 - 1 PROVE ReverseBits(ReverseBits(x, 0), 0) = x
    OBVIOUS
  <2>1. x = 0
    <3>1. x \in 0 .. 1 - 1
      BY PowerStep
    <3> QED BY <3>1, SMT
  <2> QED BY <2>1, ReverseStep
<1>2. ASSUME NEW l \in Nat, l \in T PROVE l + 1 \in T
  <2> DEFINE p == 2 ^ l
             q == 2 ^ (l + 1)
  <2>1. l + 1 \in Nat /\ p \in Nat /\ p > 0 /\ q = 2 * p
    BY <1>2, PowerStep
  <2>2. ASSUME NEW x \in 0 .. q - 1
        PROVE  ReverseBits(ReverseBits(x, l + 1), l + 1) = x
    <3>1. PICK y \in 0 .. p - 1, c \in {0, 1} : x = 2 * y + c
      <4>1. x \in 0 .. 2 * p - 1
        BY <2>1, <2>2
      <4> QED BY <2>1, <4>1, LowBit
    <3> DEFINE z == ReverseBits(y, l)
    <3>2. y \in Nat
      BY <2>1, <3>1, SMT
    <3>3. z \in 0 .. p - 1 /\ ReverseBits(z, l) = y
      BY <1>2, <3>2, ReverseType
    <3>4. ReverseBits(x, l + 1) = c * p + z
      BY <1>2, <3>1, <3>2, ReverseLow
    <3>5. ReverseBits(c * p + z, l + 1) = 2 * ReverseBits(z, l) + c
      BY <1>2, <3>3, ReverseHigh
    <3> QED BY <3>1, <3>3, <3>4, <3>5
  <2> QED BY <2>1, <2>2
<1>3. \A l \in Nat : l \in T
  <2> HIDE DEF T
  <2> QED BY <1>1, <1>2, InductiveSet
<1> QED BY <1>3

-------------------------------------------------------------------------------
(* Types *)

\* The sizes and inputs that are assumed.
LEMMA InputFacts ==
    /\ M = 2 ^ Levels /\ Levels \in Nat /\ Inputs \subseteq [0 .. M - 1 -> Complex]
    /\ Junk \subseteq Scalar
    /\ \E e \in Nat : Order = (2 * M) * e
<1>1. Levels \in Nat /\ M \in Nat /\ M > 1
  BY SizeAssumption
<1>2. Order % (2 * M) = 0 /\ M = 2 ^ Levels /\ Inputs \subseteq [0 .. M - 1 -> Complex]
      /\ Junk \subseteq Scalar
  BY InputAssumption
<1> DEFINE d == 2 * M
           e == Order \div d
<1>3. d \in Nat /\ d > 0 /\ Order \in Int
  BY <1>1, OrderFacts, SMT
<1>4. Order % d = 0
  BY <1>2
<1> HIDE DEF d
<1>5. e \in Int /\ Order = d * e + (Order % d)
  BY <1>3, DivMod
<1> HIDE DEF e
<1>6. Order = d * e
  <2> DEFINE de == d * e
  <2>1. de \in Int /\ Order = de + 0
    BY <1>3, <1>4, <1>5, SMT
  <2> HIDE DEF de
  <2>2. Order = de
    BY <2>1, SMT
  <2> QED BY <2>2 DEF de
<1>7. e \in Nat
  <2>1. CASE e < 0
    <3>1. PICK h \in Nat : e = 0 - h /\ h > 0
      <4>1. 0 - e \in Nat /\ e = 0 - (0 - e) /\ 0 - e > 0
        BY <1>5, <2>1, SMT
      <4> QED BY <4>1
    <3>2. d * e = 0 - d * h /\ d * h \in Nat
      BY <1>3, <3>1, SMT
    <3> QED BY <1>6, <3>2, OrderFacts, SMT
  <2> QED BY <1>5, <2>1, SMT
<1> QED BY <1>1, <1>2, <1>6, <1>7 DEF d

\* Remainders modulo P are scalars.
LEMMA ScalarFacts == (\A x \in Int : x % P \in Scalar) /\ Scalar \subseteq Int
  BY PFacts, DivMod, SMT DEF Scalar

\* The types at the beginning.
LEMMA TypeInit == Init => TypeOK
<1> SUFFICES ASSUME Init PROVE TypeOK
  OBVIOUS
<1>1. input \in Inputs /\ input \in [0 .. M - 1 -> Complex]
  BY InputFacts DEF Init
<1>2. real \in [0 .. M - 1 -> Scalar] /\ imag \in [0 .. M - 1 -> Scalar]
  BY <1>1, PairFacts DEF Init
<1>3. data \in [0 .. n - 1 -> Scalar]
  BY InputFacts DEF Init
<1>4. rev \in 0 .. M /\ mmax \in 2 .. n /\ m \in Nat /\ i \in Nat
  BY SizeFacts, SMT DEF Init
<1>5. w \in Complex /\ touched \subseteq 0 .. n - 1 /\ isign \in {-1, 1}
      /\ pc \in {"reverse", "stage", "butterfly", "done"}
  BY PairFacts DEF Init
<1> QED BY <1>1, <1>2, <1>3, <1>4, <1>5 DEF TypeOK

\* Bit reversal permutes within the arrays: its values are indexes.
LEMMA ReversalInRange == \A k \in 0 .. M - 1 : ReverseBits(k, Levels) \in 0 .. M - 1
<1> SUFFICES ASSUME NEW k \in 0 .. M - 1 PROVE ReverseBits(k, Levels) \in 0 .. M - 1
  OBVIOUS
<1>1. k \in Nat
  BY SizeFacts, SMT
<1> QED BY <1>1, InputFacts, ReverseType

\* A phasor is a pair, whether len divides the circle or not.
LEMMA PhasorType ==
    ASSUME NEW k \in Int, NEW len \in Nat, len > 0
    PROVE  Phasor(k, len) \in Complex
<1>1. Order \div len \in Int
  BY OrderFacts, SMT
<1>2. k * (Order \div len) \in Int
  BY <1>1, SMT
<1> DEFINE r == (k * (Order \div len)) % Order
<1>3. r \in 0 .. Order - 1
  BY <1>2, OrderFacts, DivMod
<1>4. r \in Nat /\ r < Order
  BY <1>3, OrderFacts, SMT
<1>5. Circle[r] \in Complex
  BY <1>4, CircleType
<1> QED BY <1>5 DEF Phasor

\* The constants of the twiddle recurrence are integers.
LEMMA TwiddleTypes ==
    ASSUME mmax \in 2 .. n, isign \in {-1, 1}
    PROVE  HalfSine \in Int /\ Wpi \in Int
<1>1. mmax \in Nat /\ mmax > 0 /\ 2 * mmax \in Nat /\ 2 * mmax > 0 /\ isign \in Int
  BY SizeFacts, SMT
<1>2. Phasor(isign, 2 * mmax) \in Complex
  BY <1>1, PhasorType
<1>3. Phasor(isign, mmax) \in Complex
  BY <1>1, PhasorType
<1> QED BY <1>2, <1>3, PairFacts DEF HalfSine, Wpi

\* Every action keeps the types.
LEMMA TypeStep == TypeOK /\ LoopInv /\ LoopInv' /\ [Next]_vars => TypeOK'
<1> SUFFICES ASSUME TypeOK, LoopInv, LoopInv', [Next]_vars PROVE TypeOK'
  OBVIOUS
<1>n. n' = n
  BY DEF n
<1>l. mmax' \in 2 .. n /\ m' \in Nat /\ i' \in Nat /\ touched' \subseteq 0 .. n - 1
  <2>1. mmax' \in Nat /\ mmax' >= 2 /\ mmax' <= n' /\ m' \in Nat /\ i' \in Nat
        /\ touched' \subseteq 0 .. n' - 1
    BY DEF LoopInv, LoopTypes, BlocksDivide
  <2> QED BY <1>n, <2>1, SizeFacts, SMT
<1>1. CASE BitReversal
  <2> DEFINE to == ReverseBits(rev, Levels)
  <2>1. rev \in 0 .. M - 1 /\ rev' \in 0 .. M
    BY <1>1, SizeFacts, SMT DEF BitReversal, TypeOK
  <2>2. to \in 0 .. M - 1
    BY <2>1, ReversalInRange
  <2>3. /\ real' = IF to > rev THEN SwapArray(real, rev, to) ELSE real
        /\ imag' = IF to > rev THEN SwapArray(imag, rev, to) ELSE imag
    BY <1>1 DEF BitReversal
  <2> HIDE DEF to
  <2>4. \A f \in [0 .. M - 1 -> Scalar] : SwapArray(f, rev, to) \in [0 .. M - 1 -> Scalar]
    BY <2>1, <2>2 DEF SwapArray
  <2>5. real' \in [0 .. M - 1 -> Scalar] /\ imag' \in [0 .. M - 1 -> Scalar]
    BY <2>3, <2>4 DEF TypeOK
  <2> QED BY <1>1, <1>l, <1>n, <2>1, <2>5 DEF TypeOK, BitReversal
<1>2. CASE ConcatArrays
  <2>1. ASSUME NEW k \in 0 .. n - 1 PROVE k \div 2 \in 0 .. M - 1
    <3>1. k \in 0 .. 2 * M - 1 /\ M \in Nat
      BY SizeFacts
    <3> QED BY <3>1, SMT
  <2>2. data' \in [0 .. n - 1 -> Scalar]
    BY <1>2, <2>1 DEF ConcatArrays, TypeOK
  <2> QED BY <1>2, <1>l, <1>n, <2>2 DEF TypeOK, ConcatArrays
<1>3. CASE StartStage
  BY <1>3, <1>l, <1>n, PairFacts DEF TypeOK, StartStage
<1>4. CASE Butterfly
  <2> DEFINE tempr == w[1] * data[j - 1] - w[2] * data[j]
             tempi == w[1] * data[j] + w[2] * data[j - 1]
  <2>1. 0 <= i - 1 /\ i < j - 1 /\ j <= n - 1
    BY <1>4, ButterflyBounds DEF Butterfly
  <2>2. i \in Int /\ j \in Int
    BY SMT DEF TypeOK, j
  <2>3. i - 1 \in 0 .. n - 1 /\ i \in 0 .. n - 1 /\ j - 1 \in 0 .. n - 1 /\ j \in 0 .. n - 1
    BY <2>1, <2>2, SizeFacts, SMT
  <2>4. data[i - 1] \in Int /\ data[i] \in Int /\ data[j - 1] \in Int /\ data[j] \in Int
        /\ w[1] \in Int /\ w[2] \in Int
    BY <2>3, ScalarFacts, PairFacts DEF TypeOK
  <2>5. tempr \in Int /\ tempi \in Int
    BY <2>4, SMT
  <2>6. data' = [data EXCEPT
                      ![j - 1] = (data[i - 1] - tempr) % P,
                      ![j]     = (data[i] - tempi) % P,
                      ![i - 1] = (data[i - 1] + tempr) % P,
                      ![i]     = (data[i] + tempi) % P]
    BY <1>4 DEF Butterfly
  <2> HIDE DEF tempr, tempi
  <2>7. /\ (data[i - 1] - tempr) % P \in Scalar /\ (data[i] - tempi) % P \in Scalar
        /\ (data[i - 1] + tempr) % P \in Scalar /\ (data[i] + tempi) % P \in Scalar
    <3>1. /\ data[i - 1] - tempr \in Int /\ data[i] - tempi \in Int
          /\ data[i - 1] + tempr \in Int /\ data[i] + tempi \in Int
      BY <2>4, <2>5, SMT
    <3> QED BY <3>1, ScalarFacts
  <2>8. data' \in [0 .. n - 1 -> Scalar]
    BY <2>6, <2>7 DEF TypeOK
  <2> QED BY <1>4, <1>l, <1>n, <2>8 DEF TypeOK, Butterfly
<1>5. CASE NextTwiddle
  <2>1. w' \in Complex
    <3>1. w[1] \in Int /\ w[2] \in Int
      BY PairFacts DEF TypeOK
    <3>2. HalfSine \in Int /\ Wpi \in Int
      BY TwiddleTypes DEF TypeOK
    <3>3. Wpr \in Int
      <4>1. 0 - 2 * HalfSine * HalfSine \in Int
        BY <3>2, SMT
      <4> QED BY <4>1, ScalarFacts DEF Wpr
    <3>4. /\ w[1] + w[1] * Wpr - w[2] * Wpi \in Int
          /\ w[2] + w[2] * Wpr + w[1] * Wpi \in Int
      BY <3>1, <3>2, <3>3, SMT
    <3> QED BY <1>5, <3>4, PairFacts DEF NextTwiddle
  <2>2. pc' \in {"reverse", "stage", "butterfly", "done"}
    BY <1>5 DEF NextTwiddle, TypeOK
  <2> QED BY <1>5, <1>l, <1>n, <2>1, <2>2 DEF TypeOK, NextTwiddle
<1>6. CASE SeparateArrays
  <2>1. ASSUME NEW k \in 0 .. M - 1 PROVE 2 * k \in 0 .. n - 1 /\ 2 * k + 1 \in 0 .. n - 1
    BY SizeFacts, SMT
  <2>2. real' \in [0 .. M - 1 -> Scalar] /\ imag' \in [0 .. M - 1 -> Scalar]
    BY <1>6, <2>1 DEF SeparateArrays, TypeOK
  <2> QED BY <1>6, <1>l, <1>n, <2>2 DEF TypeOK, SeparateArrays
<1>7. CASE UNCHANGED vars
  BY <1>7, <1>n, <1>l DEF TypeOK, vars
<1> QED BY <1>1, <1>2, <1>3, <1>4, <1>5, <1>6, <1>7 DEF Next

\* Every variable of radix2 keeps its type: the arrays stay within the field,
\* whatever the scratch array held.
THEOREM TypeCorrect == Spec => []TypeOK
<1> QED BY TypeInit, TypeStep, LoopInvariance, PTL DEF Spec

-------------------------------------------------------------------------------
(* What the array holds, stage by stage *)

\* The complex number at index k of the interleaved array d.
EntryOf(d, k) == << d[2 * k], d[2 * k + 1] >>

\* The elements of x whose index has the reversal of b in its lowest bits, and
\* their transform.
PartOf(x, len, bits, b) == [t \in 0 .. len - 1 |-> x[t * 2 ^ bits + ReverseBits(b, bits)]]
SpectrumOf(x, sign, len, bits, b) == Dft(PartOf(x, len, bits, b), len, sign)

\* An index in a block of a partition lies in the whole.
LEMMA BlockIndex ==
    ASSUME NEW len \in Nat, NEW blocks \in Nat, NEW b \in 0 .. blocks - 1, NEW k \in 0 .. len - 1
    PROVE  b * len + k \in 0 .. len * blocks - 1 /\ b * len + k \in Nat
<1>1. b + 1 \in Nat /\ b + 1 <= blocks /\ b \in Nat /\ k \in Nat /\ k <= len - 1
  BY SMT
<1>2. (b + 1) * len <= blocks * len
  BY <1>1, MulMonotone
<1>3. (b + 1) * len = b * len + len /\ blocks * len = len * blocks /\ b * len \in Nat
      /\ len * blocks \in Nat
  BY <1>1, SMT
<1> DEFINE bl == b * len
           all == len * blocks
<1>4. bl + len <= all /\ bl \in Nat /\ all \in Nat
  BY <1>2, <1>3
<1> HIDE DEF bl, all
<1>5. bl + k \in 0 .. all - 1 /\ bl + k \in Nat
  BY <1>1, <1>4, SMT
<1> QED BY <1>5 DEF bl, all

\* The parts of a stage are the even and the odd elements of the next one's.
LEMMA PartsSplit ==
    ASSUME NEW x \in [0 .. M - 1 -> Complex], NEW len \in Nat, NEW bits \in Nat,
           M = (2 * len) * 2 ^ bits, NEW b \in 0 .. 2 ^ bits - 1
    PROVE  IsSplit(PartOf(x, 2 * len, bits, b), PartOf(x, len, bits + 1, 2 * b),
                   PartOf(x, len, bits + 1, 2 * b + 1), len)
<1> DEFINE p == 2 ^ bits
           q == 2 ^ (bits + 1)
           r == ReverseBits(b, bits)
           whole == PartOf(x, 2 * len, bits, b)
           even  == PartOf(x, len, bits + 1, 2 * b)
           odd   == PartOf(x, len, bits + 1, 2 * b + 1)
<1>1. p \in Nat /\ p > 0 /\ q = 2 * p /\ b \in Nat /\ 2 * len \in Nat /\ M = (2 * len) * p
  BY PowerStep, SMT
<1>2. r \in 0 .. p - 1
  BY <1>1, ReverseType
<1>3. /\ ReverseBits(2 * b, bits + 1) = r
      /\ ReverseBits(2 * b + 1, bits + 1) = p + r
  <2>1. ReverseBits(2 * b + 0, bits + 1) = 0 * p + r
    BY <1>1, ReverseLow
  <2>2. ReverseBits(2 * b + 1, bits + 1) = 1 * p + r
    BY <1>1, ReverseLow
  <2>3. 2 * b + 0 = 2 * b
    BY <1>1, SMT
  <2> HIDE DEF p, r
  <2>4. 0 * p + r = r /\ 1 * p + r = p + r
    BY <1>1, <1>2, SMT
  <2> QED BY <2>1, <2>2, <2>3, <2>4 DEF p, r
<1>4. /\ whole = [t \in 0 .. 2 * len - 1 |-> x[t * p + r]]
      /\ even  = [t \in 0 .. len - 1 |-> x[t * q + r]]
      /\ odd   = [t \in 0 .. len - 1 |-> x[t * q + (p + r)]]
  BY <1>3, Zenon DEF PartOf
<1> HIDE DEF p, q, r, whole, even, odd
<1>5. \A t \in 0 .. 2 * len - 1 : whole[t] \in Complex
  <2> SUFFICES ASSUME NEW t \in 0 .. 2 * len - 1 PROVE whole[t] \in Complex
    OBVIOUS
  <2>1. t * p + r \in 0 .. p * (2 * len) - 1
    BY <1>1, <1>2, BlockIndex
  <2>2. p * (2 * len) = M
    BY <1>1, SMT
  <2> QED BY <1>4, <2>1, <2>2
<1>6. \A t \in 0 .. len - 1 : even[t] = whole[2 * t] /\ odd[t] = whole[2 * t + 1]
  <2> SUFFICES ASSUME NEW t \in 0 .. len - 1
               PROVE  even[t] = whole[2 * t] /\ odd[t] = whole[2 * t + 1]
    OBVIOUS
  <2>1. 2 * t \in 0 .. 2 * len - 1 /\ 2 * t + 1 \in 0 .. 2 * len - 1 /\ t \in Nat
    BY SMT
  <2>2. (2 * t) * p = t * q /\ (2 * t + 1) * p = t * q + p /\ t * q \in Nat
    BY <1>1, <2>1, SMT
  <2>3. (2 * t + 1) * p + r = t * q + (p + r)
    <3> DEFINE tq == t * q
    <3>1. tq \in Nat /\ (2 * t + 1) * p = tq + p
      BY <2>2
    <3> HIDE DEF tq
    <3>2. (tq + p) + r = tq + (p + r)
      BY <1>1, <1>2, <3>1, SMT
    <3> QED BY <3>1, <3>2 DEF tq
  <2> QED BY <1>4, <2>1, <2>2, <2>3
<1> QED BY <1>5, <1>6 DEF IsSplit, whole, even, odd

\* The lengths of the stages divide the circle, and twice over.
LEMMA StageParts ==
    ASSUME NEW len \in Nat, NEW bits \in Nat, M = (2 * len) * 2 ^ bits
    PROVE  PartsOfCircle(2 * len) /\ \E e \in Nat : Order = (2 * (2 * len)) * e
<1>1. PICK e \in Nat : Order = (2 * M) * e
  BY InputFacts
<1> DEFINE p == 2 ^ bits
<1>2. p \in Nat /\ M = (2 * len) * p
  BY PowerStep
<1> HIDE DEF p
<1>3. /\ (2 * ((2 * len) * p)) * e = (2 * len) * (2 * p * e) /\ 2 * p * e \in Nat
      /\ (2 * ((2 * len) * p)) * e = (2 * (2 * len)) * (p * e) /\ p * e \in Nat
  BY <1>2, SMT
<1> QED BY <1>1, <1>2, <1>3 DEF PartsOfCircle

\* What a butterfly has to compute.
LEMMA SpectrumStep ==
    ASSUME NEW x \in [0 .. M - 1 -> Complex], NEW sign \in {-1, 1},
           NEW len \in Nat, NEW bits \in Nat, M = (2 * len) * 2 ^ bits,
           NEW b \in 0 .. 2 ^ bits - 1, NEW k \in 0 .. len - 1
    PROVE  LET a == SpectrumOf(x, sign, len, bits + 1, 2 * b)[k]
               o == SpectrumOf(x, sign, len, bits + 1, 2 * b + 1)[k]
               c == Mul(Phasor(sign * k, 2 * len), o)
           IN  /\ a \in Complex /\ o \in Complex
               /\ SpectrumOf(x, sign, 2 * len, bits, b)[k] = Add(a, c)
               /\ SpectrumOf(x, sign, 2 * len, bits, b)[k + len] = Add(a, Neg(c))
<1> DEFINE whole == PartOf(x, 2 * len, bits, b)
           even  == PartOf(x, len, bits + 1, 2 * b)
           odd   == PartOf(x, len, bits + 1, 2 * b + 1)
<1>1. IsSplit(whole, even, odd, len)
  BY PartsSplit
<1>3. PartsOfCircle(2 * len)
  BY StageParts
<1> HIDE DEF whole, even, odd
<1>4. LET a == Dft(even, len, sign)[k]
          c == Mul(Phasor(sign * k, 2 * len), Dft(odd, len, sign)[k])
      IN  /\ a \in Complex /\ c \in Complex /\ Dft(odd, len, sign)[k] \in Complex
          /\ Dft(whole, 2 * len, sign)[k] = Add(a, c)
          /\ Dft(whole, 2 * len, sign)[k + len] = Add(a, Neg(c))
  BY <1>1, <1>3, DftButterfly
<1> QED BY <1>4 DEF SpectrumOf, whole, even, odd

-------------------------------------------------------------------------------
(* The inductive invariant of the transform *)

\* In the loop of bitReversal an entry is in its place when it or its partner
\* was the turn of an earlier iteration.
ReversalInv ==
    pc = "reverse" =>
        \A k \in 0 .. M - 1 :
           LET r == ReverseBits(k, Levels) IN
           << real[k], imag[k] >> = IF k < rev \/ r < rev THEN input[r] ELSE input[k]

StageHolds(len, bits) ==
    \A b \in 0 .. 2 ^ bits - 1, k \in 0 .. len - 1 :
       EntryOf(data, b * len + k) = SpectrumOf(input, isign, len, bits, b)[k]

StageInv ==
    pc = "stage" =>
        \E len \in Nat, bits \in Nat :
           mmax = 2 * len /\ M = len * 2 ^ bits /\ StageHolds(len, bits)

\* The two entries of a butterfly, before and after it.
PairBefore(d, len, bits, b, k) ==
    /\ EntryOf(d, b * (2 * len) + k) = SpectrumOf(input, isign, len, bits + 1, 2 * b)[k]
    /\ EntryOf(d, b * (2 * len) + k + len) = SpectrumOf(input, isign, len, bits + 1, 2 * b + 1)[k]

PairAfter(d, len, bits, b, k) ==
    /\ EntryOf(d, b * (2 * len) + k) = SpectrumOf(input, isign, 2 * len, bits, b)[k]
    /\ EntryOf(d, b * (2 * len) + k + len) = SpectrumOf(input, isign, 2 * len, bits, b)[k + len]

\* Within a stage, with the loops at offset turn and block at, the pairs of an
\* earlier offset, and those of this offset in an earlier block, are done.
PairsHold(d, len, bits, turn, at) ==
    \A b \in 0 .. 2 ^ bits - 1, k \in 0 .. len - 1 :
       IF k < turn \/ (k = turn /\ b < at)
       THEN PairAfter(d, len, bits, b, k) ELSE PairBefore(d, len, bits, b, k)

InStage(len, bits, turn, at) ==
    /\ mmax = 2 * len /\ M = (2 * len) * 2 ^ bits
    /\ turn < len /\ m = 2 * turn + 1 /\ i = m + at * (4 * len)
    /\ w = Phasor(isign * turn, 2 * len)
    /\ PairsHold(data, len, bits, turn, at)

ButterflyInv ==
    pc = "butterfly" =>
        \E len \in Nat, bits \in Nat, turn \in Nat, at \in Nat : InStage(len, bits, turn, at)

TransformInv ==
    TypeOK /\ LoopInv /\ ReversalInv /\ StageInv /\ ButterflyInv /\ ReturnsTransform

-------------------------------------------------------------------------------
(* It holds initially and is kept by every action *)

\* The arrays handed to radix2 are arrays of field elements.
LEMMA InputType == TypeOK => /\ input \in [0 .. M - 1 -> Complex]
                             /\ isign \in {-1, 1} /\ isign \in Int
  BY InputFacts DEF TypeOK

\* At the beginning no entry is exchanged, and of the stages nothing is claimed.
LEMMA TransformInit == Init => ReversalInv /\ StageInv /\ ButterflyInv /\ ReturnsTransform
<1> SUFFICES ASSUME Init PROVE ReversalInv /\ StageInv /\ ButterflyInv /\ ReturnsTransform
  OBVIOUS
<1>1. pc = "reverse" /\ rev = 0 /\ input \in [0 .. M - 1 -> Complex]
  BY InputFacts DEF Init
<1>2. ReversalInv
  <2> SUFFICES ASSUME NEW k \in 0 .. M - 1
               PROVE  LET r == ReverseBits(k, Levels) IN
                      << real[k], imag[k] >> = IF k < rev \/ r < rev THEN input[r] ELSE input[k]
    BY DEF ReversalInv
  <2> DEFINE r == ReverseBits(k, Levels)
  <2>1. ~ (k < rev) /\ ~ (r < rev)
    BY <1>1, ReversalInRange, SMT
  <2>2. << real[k], imag[k] >> = << input[k][1], input[k][2] >>
    BY DEF Init
  <2>3. input[k] = << input[k][1], input[k][2] >>
    BY <1>1, PairFacts
  <2> QED BY <2>1, <2>2, <2>3
<1> QED BY <1>1, <1>2 DEF StageInv, ButterflyInv, ReturnsTransform

\* After the bit reversal entry k is the input of the reversed index.
LEMMA ReversalKeeps == TransformInv /\ BitReversal => ReversalInv'
<1> SUFFICES ASSUME TransformInv, BitReversal,
                    NEW k \in 0 .. M - 1
             PROVE  << real'[k], imag'[k] >>
                      = IF k < rev' \/ ReverseBits(k, Levels) < rev'
                        THEN input[ReverseBits(k, Levels)] ELSE input[k]
  BY DEF ReversalInv, BitReversal
<1> DEFINE to == ReverseBits(rev, Levels)
           r  == ReverseBits(k, Levels)
<1>1. rev \in 0 .. M - 1 /\ rev' = rev + 1 /\ k \in Int /\ rev \in Int
  BY SizeFacts, SMT DEF BitReversal, TransformInv, TypeOK
<1>2. /\ to \in 0 .. M - 1 /\ r \in 0 .. M - 1 /\ to \in Int /\ r \in Int
      /\ ReverseBits(to, Levels) = rev /\ ReverseBits(r, Levels) = k
  BY <1>1, ReversalInRange, ReverseTwice, InputFacts, SMT
<1>3. /\ real' = IF to > rev THEN SwapArray(real, rev, to) ELSE real
      /\ imag' = IF to > rev THEN SwapArray(imag, rev, to) ELSE imag
  BY DEF BitReversal
<1>4. /\ real \in [0 .. M - 1 -> Scalar] /\ imag \in [0 .. M - 1 -> Scalar]
  BY DEF TransformInv, TypeOK
<1>5. \A x \in 0 .. M - 1 :
        << real[x], imag[x] >> = IF x < rev \/ ReverseBits(x, Levels) < rev
                                 THEN input[ReverseBits(x, Levels)] ELSE input[x]
  BY DEF TransformInv, ReversalInv, BitReversal
<1>6. r = rev => k = to
  BY <1>2
<1>7. k = rev => r = to
  OBVIOUS
<1> HIDE DEF to, r
<1>8. CASE to > rev
  <2>1. \A x \in 0 .. M - 1 :
          << real'[x], imag'[x] >> = IF x = to THEN << real[rev], imag[rev] >>
                                     ELSE IF x = rev THEN << real[to], imag[to] >>
                                     ELSE << real[x], imag[x] >>
    BY <1>1, <1>2, <1>3, <1>4, <1>8 DEF SwapArray
  <2>2. CASE k = to
    <3>1. << real'[k], imag'[k] >> = << real[rev], imag[rev] >>
      BY <2>1, <2>2
    <3>2. ~ (rev < rev) /\ ~ (to < rev)
      BY <1>1, <1>2, <1>8, SMT
    <3>3. << real[rev], imag[rev] >> = input[rev]
      BY <1>1, <1>5, <3>2 DEF to
    <3>4. r = rev /\ r < rev + 1
      BY <1>1, <1>2, <2>2, SMT DEF r
    <3> QED BY <1>1, <3>1, <3>3, <3>4 DEF r
  <2>3. CASE k = rev
    <3>1. << real'[k], imag'[k] >> = << real[to], imag[to] >>
      BY <1>2, <1>8, <2>1, <2>3, SMT
    <3>2. ~ (rev < rev) /\ ~ (to < rev)
      BY <1>1, <1>2, <1>8, SMT
    <3>3. << real[to], imag[to] >> = input[to]
      BY <1>2, <1>5, <3>2
    <3>4. r = to /\ k < rev + 1
      BY <1>1, <1>7, <2>3, SMT
    <3> QED BY <1>1, <3>1, <3>3, <3>4 DEF r
  <2>4. CASE k # to /\ k # rev
    <3>1. << real'[k], imag'[k] >> = << real[k], imag[k] >>
      BY <2>1, <2>4
    <3>2. r # rev
      BY <1>6, <2>4
    <3>3. (k < rev + 1 <=> k < rev) /\ (r < rev + 1 <=> r < rev)
      BY <1>1, <1>2, <2>4, <3>2, SMT
    <3> QED BY <1>1, <1>5, <3>1, <3>3 DEF r
  <2> QED BY <2>2, <2>3, <2>4
<1>9. CASE ~ (to > rev)
  <2>1. << real'[k], imag'[k] >> = << real[k], imag[k] >>
    BY <1>3, <1>9
  <2>2. << real[k], imag[k] >> = IF k < rev \/ r < rev THEN input[r] ELSE input[k]
    BY <1>5 DEF r
  <2>3. CASE k = rev
    <3>1. r = to /\ k < rev + 1
      BY <1>1, <1>7, <2>3, SMT
    <3>2. CASE to = rev
      BY <1>1, <2>1, <2>2, <2>3, <3>1, <3>2 DEF r
    <3>3. CASE to # rev
      <4>1. r < rev
        BY <1>1, <1>2, <1>9, <3>1, <3>3, SMT
      <4> QED BY <1>1, <2>1, <2>2, <3>1, <4>1 DEF r
    <3> QED BY <3>2, <3>3
  <2>4. CASE k # rev /\ r # rev
    <3>1. (k < rev + 1 <=> k < rev) /\ (r < rev + 1 <=> r < rev)
      BY <1>1, <1>2, <2>4, SMT
    <3> QED BY <1>1, <2>1, <2>2, <3>1 DEF r
  <2>5. CASE k # rev /\ r = rev
    <3>1. k = to /\ k < rev /\ r < rev + 1
      BY <1>1, <1>2, <1>6, <1>9, <2>5, SMT
    <3> QED BY <1>1, <2>1, <2>2, <3>1 DEF r
  <2> QED BY <2>3, <2>4, <2>5
<1> QED BY <1>8, <1>9

\* A transform of length one leaves its element alone.
LEMMA DftOfOne ==
    ASSUME NEW x, NEW sign \in {-1, 1}, x[0] \in Complex
    PROVE  Dft(x, 1, sign)[0] = x[0]
<1> DEFINE f == [t \in 0 .. 1 - 1 |-> Mul(x[t], Phasor(sign * 0 * t, 1))]
<1>1. 0 \in 0 .. 1 - 1 /\ 1 \in Nat /\ sign * 0 * 0 = 0 /\ 0 + 1 = 1 /\ 0 \in Nat /\ 0 \in Int
  BY SMT
<1>2. Dft(x, 1, sign)[0] = Total(f, 1)
  BY <1>1, DftIs
<1>3. f[0] = Mul(x[0], Phasor(0, 1))
  BY <1>1
<1>4. Phasor(0, 1) = One
  <2>1. Order \in Nat /\ Order = 1 * Order
    BY OrderFacts, SMT
  <2> QED BY <1>1, <2>1, PhasorLaws
<1> HIDE DEF f
<1>5. Total(f, 0 + 1) = Add(Total(f, 0), f[0]) /\ Total(f, 0) = Zero
  BY <1>1, TotalStep
<1>6. Mul(x[0], One) = x[0] /\ Add(Zero, x[0]) = x[0]
  BY PairFacts, MulLaws, AddLaws
<1> QED BY <1>1, <1>2, <1>3, <1>4, <1>5, <1>6

\* The interleaved data are the transforms of length 1.
LEMMA ConcatKeeps == TransformInv /\ ConcatArrays => StageInv'
<1> SUFFICES ASSUME TransformInv, ConcatArrays PROVE StageInv'
  OBVIOUS
<1>1. /\ mmax' = 2 /\ input' = input /\ isign' = isign /\ rev = M /\ pc = "reverse"
      /\ data' = [k \in 0 .. n - 1 |-> IF k % 2 = 0 THEN real[k \div 2] ELSE imag[k \div 2]]
  BY DEF ConcatArrays
<1>2. input \in [0 .. M - 1 -> Complex] /\ isign \in {-1, 1}
  BY InputType DEF TransformInv
<1>3. \A k \in 0 .. M - 1 : EntryOf(data', k) = input[ReverseBits(k, Levels)]
  <2> SUFFICES ASSUME NEW k \in 0 .. M - 1
               PROVE  EntryOf(data', k) = input[ReverseBits(k, Levels)]
    OBVIOUS
  <2>1. /\ 2 * k \in 0 .. n - 1 /\ 2 * k + 1 \in 0 .. n - 1
        /\ (2 * k) % 2 = 0 /\ (2 * k + 1) % 2 = 1
        /\ (2 * k) \div 2 = k /\ (2 * k + 1) \div 2 = k /\ k < M
    BY SizeFacts, SMT
  <2>2. data'[2 * k] = real[k] /\ data'[2 * k + 1] = imag[k]
    BY <1>1, <2>1
  <2>3. << real[k], imag[k] >> = input[ReverseBits(k, Levels)]
    BY <1>1, <2>1 DEF TransformInv, ReversalInv
  <2> QED BY <2>2, <2>3 DEF EntryOf
<1>4. ASSUME NEW b \in 0 .. 2 ^ Levels - 1, NEW k \in 0 .. 1 - 1
      PROVE  EntryOf(data', b * 1 + k) = SpectrumOf(input, isign, 1, Levels, b)[k]
  <2>1. k = 0 /\ b \in 0 .. M - 1 /\ b \in Nat /\ b * 1 + k = b
    <3>1. b \in 0 .. M - 1
      BY InputFacts
    <3> QED BY <3>1, SMT
  <2> DEFINE part == PartOf(input, 1, Levels, b)
             r == ReverseBits(b, Levels)
  <2>2. r \in 0 .. M - 1
    BY <2>1, ReversalInRange
  <2>3. part[0] = input[r]
    <3>1. 0 \in 0 .. 1 - 1
      BY SMT
    <3>2. part[0] = input[0 * 2 ^ Levels + r]
      BY <3>1 DEF PartOf
    <3>3. 0 * 2 ^ Levels + r = r
      <4>1. 0 * M + r = r
        <5> HIDE DEF r
        <5> QED BY <2>2, SizeFacts, SMT
      <4> QED BY <4>1, InputFacts
    <3> QED BY <3>2, <3>3
  <2>4. part[0] \in Complex
    BY <1>2, <2>2, <2>3
  <2>5. Dft(part, 1, isign)[0] = part[0]
    <3> HIDE DEF part
    <3> QED BY <1>2, <2>4, DftOfOne
  <2>6. EntryOf(data', b) = input[r]
    BY <1>3, <2>1
  <2> QED BY <2>1, <2>3, <2>5, <2>6 DEF SpectrumOf
<1>5. StageHolds(1, Levels)'
  BY <1>1, <1>4 DEF StageHolds
<1>6. 1 \in Nat /\ Levels \in Nat /\ 2 = 2 * 1 /\ M = 1 * 2 ^ Levels
  <2>1. M = 1 * M /\ 1 \in Nat /\ 2 = 2 * 1
    BY SizeFacts, SMT
  <2> QED BY <2>1, InputFacts
<1>7. mmax' = 2 * 1 /\ M = 1 * 2 ^ Levels /\ StageHolds(1, Levels)'
  BY <1>1, <1>5, <1>6
<1> QED BY <1>6, <1>7 DEF StageInv

\* The sizes of the stages divide M.
LEMMA StageSizes ==
    ASSUME NEW len \in Nat, NEW bits \in Nat, M = len * 2 ^ bits
    PROVE  /\ len > 0 /\ len <= M /\ (bits = 0 => M = len)
           /\ (bits # 0 => \E below \in Nat : bits = below + 1 /\ M = (2 * len) * 2 ^ below
                                              /\ len < M)
<1> DEFINE p == 2 ^ bits
<1>1. p \in Nat /\ p > 0 /\ M = len * p
  BY PowerStep
<1> HIDE DEF p
<1>2. len > 0
  <2>1. len = 0 => len * p = 0
    BY <1>1, SMT
  <2> QED BY <1>1, <2>1, SizeFacts, SMT
<1>3. len <= M
  <2>1. 1 * len <= p * len
    BY <1>1, MulMonotone
  <2>2. 1 * len = len /\ p * len = len * p
    BY <1>1, SMT
  <2> QED BY <1>1, <2>1, <2>2
<1>4. bits = 0 => M = len
  <2>1. len * 1 = len
    BY SMT
  <2> QED BY <2>1, PowerStep
<1>5. ASSUME bits # 0
      PROVE  \E below \in Nat : bits = below + 1 /\ M = (2 * len) * 2 ^ below /\ len < M
  <2> DEFINE below == bits - 1
             q == 2 ^ below
  <2>1. below \in Nat /\ bits = below + 1
    BY <1>5, SMT
  <2> HIDE DEF below
  <2>2. q \in Nat /\ q > 0 /\ p = 2 * q
    BY <2>1, PowerStep DEF p
  <2> HIDE DEF q
  <2>3. len * p = (2 * len) * q
    BY <2>2, SMT
  <2>4. 1 * (2 * len) <= q * (2 * len)
    <3>1. 2 * len \in Nat /\ 1 <= q /\ 1 \in Nat
      BY <2>2, SMT
    <3> QED BY <2>2, <3>1, MulMonotone
  <2>5. 1 * (2 * len) = 2 * len /\ q * (2 * len) = (2 * len) * q
    BY <2>2, SMT
  <2>6. 2 * len <= M
    BY <1>1, <2>3, <2>4, <2>5
  <2>7. len < M
    BY <1>2, <2>6, SizeFacts, SMT
  <2> QED BY <1>1, <2>1, <2>3, <2>7 DEF q
<1> QED BY <1>2, <1>3, <1>4, <1>5

\* At the start of a stage no butterfly is done.
LEMMA StartStageKeeps == TransformInv /\ StartStage => ButterflyInv'
<1> SUFFICES ASSUME TransformInv, StartStage PROVE ButterflyInv'
  OBVIOUS
<1>1. /\ pc = "stage" /\ n > mmax /\ w' = One /\ m' = 1 /\ i' = 1 /\ mmax' = mmax
      /\ data' = data /\ input' = input /\ isign' = isign
  BY DEF StartStage
<1>2. PICK len \in Nat, bits \in Nat :
        mmax = 2 * len /\ M = len * 2 ^ bits /\ StageHolds(len, bits)
  BY <1>1 DEF TransformInv, StageInv
<1>3. bits # 0 /\ len > 0
  <2>1. M # len
    BY <1>1, <1>2, SizeFacts, SMT
  <2> QED BY <1>2, <2>1, StageSizes
<1>4. PICK below \in Nat : bits = below + 1 /\ M = (2 * len) * 2 ^ below
  BY <1>2, <1>3, StageSizes
<1> DEFINE p == 2 ^ below
<1>5. p \in Nat /\ 2 ^ bits = 2 * p
  BY <1>4, PowerStep
<1>6. ASSUME NEW b \in 0 .. p - 1, NEW k \in 0 .. len - 1
      PROVE  PairBefore(data, len, below, b, k)
  <2>1. 2 * b \in 0 .. 2 * p - 1 /\ 2 * b + 1 \in 0 .. 2 * p - 1
    <3> HIDE DEF p
    <3> QED BY <1>5, SMT
  <2>2. /\ EntryOf(data, (2 * b) * len + k) = SpectrumOf(input, isign, len, below + 1, 2 * b)[k]
        /\ EntryOf(data, (2 * b + 1) * len + k)
             = SpectrumOf(input, isign, len, below + 1, 2 * b + 1)[k]
    BY <1>2, <1>4, <1>5, <2>1 DEF StageHolds
  <2>3. b \in Int /\ k \in Int
    <3> HIDE DEF p
    <3> QED BY <1>5, SMT
  <2>4. (2 * b) * len + k = b * (2 * len) + k /\ (2 * b + 1) * len + k = b * (2 * len) + k + len
    <3> DEFINE bl == b * len
    <3>1. bl \in Int /\ (2 * b) * len = 2 * bl /\ (2 * b + 1) * len = 2 * bl + len
          /\ b * (2 * len) = 2 * bl
      BY <2>3, SMT
    <3> HIDE DEF bl
    <3> QED BY <2>3, <3>1, SMT
  <2> QED BY <2>2, <2>4 DEF PairBefore
<1>7. PairsHold(data, len, below, 0, 0)
  <2> SUFFICES ASSUME NEW b \in 0 .. p - 1, NEW k \in 0 .. len - 1
               PROVE  ~ (k < 0 \/ (k = 0 /\ b < 0))
    BY <1>6 DEF PairsHold
  <2> HIDE DEF p
  <2> QED BY <1>5, SMT
<1>8. 0 < len /\ 1 = 2 * 0 + 1 /\ 1 = 1 + 0 * (4 * len) /\ 0 \in Nat
  BY <1>3, SMT
<1>9. One = Phasor(isign * 0, 2 * len)
  <2>1. isign * 0 = 0 /\ 0 \in Int /\ 2 * len \in Nat
    BY InputType, SMT DEF TransformInv
  <2>2. PartsOfCircle(2 * len)
    BY <1>4, StageParts
  <2>3. PICK e \in Nat : Order = (2 * len) * e
    BY <2>2 DEF PartsOfCircle
  <2> QED BY <2>1, <2>3, PhasorLaws
<1>10. InStage(len, below, 0, 0)'
  <2>1. PairsHold(data, len, below, 0, 0)'
    BY <1>1, <1>7 DEF PairsHold, PairBefore, PairAfter
  <2> QED BY <1>1, <1>2, <1>4, <1>8, <1>9, <2>1 DEF InStage
<1> QED BY <1>8, <1>10 DEF ButterflyInv

-------------------------------------------------------------------------------
(* The butterfly loops *)

\* The entry below of the butterfly that is due, and the sizes of the stage.
LowEntry(len, turn, at) == at * (2 * len) + turn

\* Where the loop variables stand within a stage.
LEMMA StagePosition ==
    ASSUME NEW len \in Nat, NEW bits \in Nat, NEW turn \in Nat, NEW at \in Nat,
           InStage(len, bits, turn, at)
    PROVE  /\ len > 0 /\ turn \in 0 .. len - 1
           /\ (i <= n) = (at <= 2 ^ bits - 1)
           /\ at <= 2 ^ bits - 1 =>
                 LET lo == LowEntry(len, turn, at) IN
                 /\ lo \in Nat /\ lo \in 0 .. M - 1 /\ lo + len \in 0 .. M - 1
                 /\ i = 2 * lo + 1 /\ j = 2 * (lo + len) + 1
<1> DEFINE p  == 2 ^ bits
           c  == at * len
           pl == p * len
<1>1. p \in Nat /\ p > 0
  BY PowerStep
<1>2. mmax = 2 * len /\ M = (2 * len) * p /\ turn < len /\ m = 2 * turn + 1
      /\ i = m + at * (4 * len)
  BY DEF InStage
<1> HIDE DEF p
<1>3. /\ c \in Nat /\ pl \in Nat /\ (2 * len) * p = 2 * pl /\ at * (4 * len) = 4 * c
      /\ at * (2 * len) = 2 * c /\ (at + 1) * len = c + len
  BY <1>1, SMT
<1>4. p <= at => pl <= c
  BY <1>1, MulMonotone
<1>5. at + 1 <= p => c + len <= pl
  <2>1. at + 1 <= p => (at + 1) * len <= p * len
    BY <1>1, MulMonotone, SMT
  <2> QED BY <1>3, <2>1
<1> HIDE DEF c, pl
<1>6. n = 4 * pl /\ M = 2 * pl /\ i = 2 * turn + 1 + 4 * c /\ len > 0
      /\ turn \in 0 .. len - 1
  BY <1>2, <1>3, SizeFacts, SMT
<1>7. (i <= n) = (at <= p - 1)
  BY <1>1, <1>3, <1>4, <1>5, <1>6, SMT
<1>8. ASSUME at <= p - 1
      PROVE  /\ 2 * c + turn \in Nat /\ 2 * c + turn \in 0 .. M - 1
             /\ 2 * c + turn + len \in 0 .. M - 1
             /\ i = 2 * (2 * c + turn) + 1 /\ j = 2 * (2 * c + turn + len) + 1
  BY <1>1, <1>2, <1>3, <1>5, <1>6, <1>8, SMT DEF j
<1> QED BY <1>3, <1>6, <1>7, <1>8 DEF LowEntry, p

\* A butterfly changes its two entries and no other.
LEMMA ButterflyEffect ==
    ASSUME TypeOK, Butterfly, NEW lo \in 0 .. M - 1, NEW hi \in 0 .. M - 1, lo # hi,
           i = 2 * lo + 1, j = 2 * hi + 1
    PROVE  LET a == EntryOf(data, lo)
               c == Mul(w, EntryOf(data, hi))
           IN  /\ EntryOf(data', lo) = Add(a, c)
               /\ EntryOf(data', hi) = Add(a, Neg(c))
               /\ \A k \in 0 .. M - 1 : k # lo /\ k # hi => EntryOf(data', k) = EntryOf(data, k)
<1> DEFINE tempr == w[1] * data[j - 1] - w[2] * data[j]
           tempi == w[1] * data[j] + w[2] * data[j - 1]
           a == EntryOf(data, lo)
           d == EntryOf(data, hi)
<1>1. data' = [data EXCEPT
                      ![j - 1] = (data[i - 1] - tempr) % P,
                      ![j]     = (data[i] - tempi) % P,
                      ![i - 1] = (data[i - 1] + tempr) % P,
                      ![i]     = (data[i] + tempi) % P]
  BY DEF Butterfly
<1>2. data \in [0 .. 2 * M - 1 -> Scalar] /\ w \in Complex
  BY SizeFacts DEF TypeOK
<1>3. /\ i - 1 = 2 * lo /\ i = 2 * lo + 1 /\ j - 1 = 2 * hi /\ j = 2 * hi + 1
      /\ lo \in Int /\ hi \in Int
  BY SizeFacts, SMT
<1>4. \A k \in 0 .. M - 1 : 2 * k \in 0 .. 2 * M - 1 /\ 2 * k + 1 \in 0 .. 2 * M - 1
  BY SizeFacts, SMT
<1>5. a \in Complex /\ d \in Complex /\ a[1] = data[2 * lo] /\ a[2] = data[2 * lo + 1]
      /\ d[1] = data[2 * hi] /\ d[2] = data[2 * hi + 1]
  <2>1. ASSUME NEW k \in 0 .. M - 1
        PROVE  /\ EntryOf(data, k) \in Complex
               /\ EntryOf(data, k)[1] = data[2 * k] /\ EntryOf(data, k)[2] = data[2 * k + 1]
    <3>1. data[2 * k] \in Scalar /\ data[2 * k + 1] \in Scalar
      BY <1>2, <1>4
    <3> QED BY <3>1 DEF EntryOf, Complex
  <2> HIDE DEF tempr, tempi
  <2> QED BY <2>1
<1>6. tempr = w[1] * d[1] - w[2] * d[2] /\ tempi = w[1] * d[2] + w[2] * d[1]
  BY <1>3, <1>5
<1>7. /\ << (a[1] + tempr) % P, (a[2] + tempi) % P >> = Add(a, Mul(w, d))
      /\ << (a[1] - tempr) % P, (a[2] - tempi) % P >> = Add(a, Neg(Mul(w, d)))
  <2> HIDE DEF tempr, tempi, a, d
  <2> QED BY <1>2, <1>5, <1>6, ButterflyValues
<1>8. data' = [data EXCEPT
                      ![2 * hi]     = (a[1] - tempr) % P,
                      ![2 * hi + 1] = (a[2] - tempi) % P,
                      ![2 * lo]     = (a[1] + tempr) % P,
                      ![2 * lo + 1] = (a[2] + tempi) % P]
  BY <1>1, <1>3, <1>5
<1> HIDE DEF tempr, tempi
<1>9. \A k \in 0 .. 2 * M - 1 :
        data'[k] = IF k = 2 * lo + 1 THEN (a[2] + tempi) % P
                   ELSE IF k = 2 * lo THEN (a[1] + tempr) % P
                   ELSE IF k = 2 * hi + 1 THEN (a[2] - tempi) % P
                   ELSE IF k = 2 * hi THEN (a[1] - tempr) % P ELSE data[k]
  <2> DEFINE dl == (a[1] - tempr) % P
             dh == (a[2] - tempi) % P
             al == (a[1] + tempr) % P
             ah == (a[2] + tempi) % P
  <2>1. data' = [data EXCEPT ![2 * hi] = dl, ![2 * hi + 1] = dh, ![2 * lo] = al, ![2 * lo + 1] = ah]
    BY <1>8
  <2> HIDE DEF a, d, dl, dh, al, ah
  <2>2. \A k \in 0 .. 2 * M - 1 :
          data'[k] = IF k = 2 * lo + 1 THEN ah ELSE IF k = 2 * lo THEN al
                     ELSE IF k = 2 * hi + 1 THEN dh ELSE IF k = 2 * hi THEN dl ELSE data[k]
    BY <1>2, <2>1, SMT
  <2> QED BY <2>2, Zenon DEF dl, dh, al, ah
<1> HIDE DEF a, d
<1>10. EntryOf(data', lo) = Add(a, Mul(w, d))
  <2>1. 2 * lo # 2 * lo + 1
    BY <1>3, SMT
  <2>2. data'[2 * lo] = (a[1] + tempr) % P /\ data'[2 * lo + 1] = (a[2] + tempi) % P
    BY <1>4, <1>9, <2>1
  <2> QED BY <1>7, <2>2 DEF EntryOf
<1>11. EntryOf(data', hi) = Add(a, Neg(Mul(w, d)))
  <2>1. /\ 2 * hi # 2 * lo + 1 /\ 2 * hi # 2 * lo /\ 2 * hi # 2 * hi + 1
        /\ 2 * hi + 1 # 2 * lo + 1 /\ 2 * hi + 1 # 2 * lo
    BY <1>3, SMT
  <2>2. data'[2 * hi] = (a[1] - tempr) % P /\ data'[2 * hi + 1] = (a[2] - tempi) % P
    BY <1>4, <1>9, <2>1
  <2> QED BY <1>7, <2>2 DEF EntryOf
<1>12. ASSUME NEW k \in 0 .. M - 1, k # lo, k # hi PROVE EntryOf(data', k) = EntryOf(data, k)
  <2>1. /\ 2 * k # 2 * lo + 1 /\ 2 * k # 2 * lo /\ 2 * k # 2 * hi + 1 /\ 2 * k # 2 * hi
        /\ 2 * k + 1 # 2 * lo + 1 /\ 2 * k + 1 # 2 * lo
        /\ 2 * k + 1 # 2 * hi + 1 /\ 2 * k + 1 # 2 * hi
    BY <1>3, <1>12, SizeFacts, SMT
  <2>2. data'[2 * k] = data[2 * k] /\ data'[2 * k + 1] = data[2 * k + 1]
    BY <1>4, <1>9, <2>1
  <2> QED BY <2>2 DEF EntryOf
<1> QED BY <1>10, <1>11, <1>12 DEF a, d

SizesMatch(len, bits) == M = (2 * len) * 2 ^ bits

ButterflyOf(x, sign, len, bits, b, k) ==
    LET a == SpectrumOf(x, sign, len, bits + 1, 2 * b)[k]
        o == SpectrumOf(x, sign, len, bits + 1, 2 * b + 1)[k]
        c == Mul(Phasor(sign * k, 2 * len), o)
    IN  /\ SpectrumOf(x, sign, 2 * len, bits, b)[k] = Add(a, c)
        /\ SpectrumOf(x, sign, 2 * len, bits, b)[k + len] = Add(a, Neg(c))

\* The identity of a butterfly: two transforms of half the length give two
\* entries of the whole.
LEMMA ButterfliesOf ==
    \A x \in [0 .. M - 1 -> Complex], sign \in {-1, 1}, len \in Nat, bits \in Nat :
       SizesMatch(len, bits) =>
          \A b \in 0 .. 2 ^ bits - 1, k \in 0 .. len - 1 : ButterflyOf(x, sign, len, bits, b, k)
<1> SUFFICES ASSUME NEW x \in [0 .. M - 1 -> Complex], NEW sign \in {-1, 1},
                    NEW len \in Nat, NEW bits \in Nat, SizesMatch(len, bits),
                    NEW b \in 0 .. 2 ^ bits - 1, NEW k \in 0 .. len - 1
             PROVE  ButterflyOf(x, sign, len, bits, b, k)
  OBVIOUS
<1>1. M = (2 * len) * 2 ^ bits
  BY DEF SizesMatch
<1>2. LET a == SpectrumOf(x, sign, len, bits + 1, 2 * b)[k]
          o == SpectrumOf(x, sign, len, bits + 1, 2 * b + 1)[k]
          c == Mul(Phasor(sign * k, 2 * len), o)
      IN  /\ a \in Complex /\ o \in Complex
          /\ SpectrumOf(x, sign, 2 * len, bits, b)[k] = Add(a, c)
          /\ SpectrumOf(x, sign, 2 * len, bits, b)[k + len] = Add(a, Neg(c))
  BY <1>1, SpectrumStep
<1> QED BY <1>2 DEF ButterflyOf

\* Two different pairs of a stage have no entry in common.
LEMMA PairsApart ==
    ASSUME NEW len \in Nat, NEW blocks \in Nat, len > 0,
           NEW b \in 0 .. blocks - 1, NEW k \in 0 .. len - 1,
           NEW at \in 0 .. blocks - 1, NEW turn \in 0 .. len - 1, b # at \/ k # turn
    PROVE  LET e  == b * (2 * len) + k
               lo == LowEntry(len, turn, at)
           IN  /\ e \in 0 .. (2 * len) * blocks - 1 /\ e + len \in 0 .. (2 * len) * blocks - 1
               /\ e # lo /\ e # lo + len /\ e + len # lo /\ e + len # lo + len
<1> DEFINE d == 2 * len
           bd == b * d
           ad == at * d
<1>1. /\ d \in Nat /\ b \in Nat /\ at \in Nat
      /\ k \in 0 .. d - 1 /\ k + len \in 0 .. d - 1 /\ turn \in 0 .. d - 1
      /\ turn + len \in 0 .. d - 1 /\ k # turn + len /\ k + len # turn
      /\ (k + len = turn + len => k = turn)
  BY SMT
<1>2. bd \in Nat /\ ad \in Nat
  BY <1>1, SMT
<1>3. \A s \in 0 .. d - 1, t \in 0 .. d - 1 : bd + s = ad + t => b = at /\ s = t
  <2> HIDE DEF d
  <2> QED BY <1>1, DivisionUnique
<1>4. \A s \in 0 .. d - 1 : bd + s \in 0 .. d * blocks - 1
  <2> HIDE DEF d
  <2> QED BY <1>1, BlockIndex
<1> HIDE DEF bd, ad, d
<1>5. /\ bd + k # ad + turn /\ bd + k # ad + (turn + len) /\ bd + (k + len) # ad + turn
      /\ bd + (k + len) # ad + (turn + len)
  BY <1>1, <1>3
<1>6. /\ bd + (k + len) = (bd + k) + len /\ ad + (turn + len) = (ad + turn) + len
  BY <1>2, SMT
<1>7. bd + k \in 0 .. d * blocks - 1 /\ bd + (k + len) \in 0 .. d * blocks - 1
  BY <1>1, <1>4
<1> QED BY <1>5, <1>6, <1>7 DEF bd, ad, d, LowEntry

\* A butterfly puts the two entries of the next stage in place.
LEMMA ButterflyKeeps == TransformInv /\ Butterfly => ButterflyInv'
<1> SUFFICES ASSUME TransformInv, Butterfly PROVE ButterflyInv'
  OBVIOUS
<1>1. /\ pc = "butterfly" /\ i <= n /\ pc' = pc /\ mmax' = mmax /\ m' = m /\ w' = w
      /\ i' = i + istep /\ input' = input /\ isign' = isign
  BY DEF Butterfly
<1>2. PICK len \in Nat, bits \in Nat, turn \in Nat, at \in Nat : InStage(len, bits, turn, at)
  BY <1>1 DEF TransformInv, ButterflyInv
<1> DEFINE p  == 2 ^ bits
           lo == LowEntry(len, turn, at)
           hi == lo + len
<1>3. p \in Nat /\ M = (2 * len) * p /\ mmax = 2 * len /\ m = 2 * turn + 1
      /\ i = m + at * (4 * len) /\ w = Phasor(isign * turn, 2 * len)
      /\ PairsHold(data, len, bits, turn, at)
  BY <1>2, PowerStep DEF InStage
<1>4. /\ len > 0 /\ turn \in 0 .. len - 1 /\ at <= p - 1
      /\ lo \in Nat /\ lo \in 0 .. M - 1 /\ hi \in 0 .. M - 1 /\ i = 2 * lo + 1 /\ j = 2 * hi + 1
  BY <1>1, <1>2, StagePosition
<1>5. at \in 0 .. p - 1 /\ lo # hi /\ ~ (turn < turn) /\ ~ (at < at)
  <2> HIDE DEF p, lo
  <2> QED BY <1>3, <1>4, SMT
<1>6. /\ EntryOf(data', lo) = Add(EntryOf(data, lo), Mul(w, EntryOf(data, hi)))
      /\ EntryOf(data', hi) = Add(EntryOf(data, lo), Neg(Mul(w, EntryOf(data, hi))))
      /\ \A k \in 0 .. M - 1 : k # lo /\ k # hi => EntryOf(data', k) = EntryOf(data, k)
  <2> HIDE DEF lo, hi
  <2> QED BY <1>4, <1>5, ButterflyEffect DEF TransformInv
<1>7. PairAfter(data', len, bits, at, turn)
  <2>1. PairBefore(data, len, bits, at, turn)
    BY <1>3, <1>4, <1>5 DEF PairsHold
  <2>2. input \in [0 .. M - 1 -> Complex] /\ isign \in {-1, 1}
    BY InputType DEF TransformInv
  <2>3. LET a == SpectrumOf(input, isign, len, bits + 1, 2 * at)[turn]
            o == SpectrumOf(input, isign, len, bits + 1, 2 * at + 1)[turn]
            c == Mul(Phasor(isign * turn, 2 * len), o)
        IN  /\ SpectrumOf(input, isign, 2 * len, bits, at)[turn] = Add(a, c)
            /\ SpectrumOf(input, isign, 2 * len, bits, at)[turn + len] = Add(a, Neg(c))
    <3>1. at \in 0 .. 2 ^ bits - 1 /\ SizesMatch(len, bits)
      BY <1>3, <1>5 DEF SizesMatch
    <3>2. ButterflyOf(input, isign, len, bits, at, turn)
      <4> HIDE DEF p, lo, hi
      <4> QED BY <1>4, <2>2, <3>1, ButterfliesOf
    <3> QED BY <3>2 DEF ButterflyOf
  <2> QED BY <1>3, <1>6, <2>1, <2>3 DEF PairBefore, PairAfter, LowEntry
<1>8. ASSUME NEW b \in 0 .. p - 1, NEW k \in 0 .. len - 1, b # at \/ k # turn
      PROVE  /\ EntryOf(data', b * (2 * len) + k) = EntryOf(data, b * (2 * len) + k)
             /\ EntryOf(data', b * (2 * len) + k + len) = EntryOf(data, b * (2 * len) + k + len)
  <2> DEFINE e == b * (2 * len) + k
  <2>1. /\ e \in 0 .. M - 1 /\ e + len \in 0 .. M - 1
        /\ e # lo /\ e # hi /\ e + len # lo /\ e + len # hi
    <3> HIDE DEF p
    <3> QED BY <1>3, <1>4, <1>5, <1>8, PairsApart
  <2> HIDE DEF e, lo, hi
  <2>2. EntryOf(data', e) = EntryOf(data, e) /\ EntryOf(data', e + len) = EntryOf(data, e + len)
    BY <1>6, <2>1
  <2> QED BY <2>2 DEF e
<1>9. PairsHold(data', len, bits, turn, at + 1)
  <2> SUFFICES ASSUME NEW b \in 0 .. p - 1, NEW k \in 0 .. len - 1
               PROVE  IF k < turn \/ (k = turn /\ b < at + 1)
                      THEN PairAfter(data', len, bits, b, k) ELSE PairBefore(data', len, bits, b, k)
    BY DEF PairsHold
  <2>1. CASE b = at /\ k = turn
    <3>1. b < at + 1
      <4> HIDE DEF p
      <4> QED BY <1>5, <2>1, SMT
    <3> QED BY <1>7, <2>1, <3>1
  <2>2. CASE b # at \/ k # turn
    <3>1. k = turn => (b < at + 1 <=> b < at)
      <4> HIDE DEF p
      <4> QED BY <1>3, <1>5, <2>2, SMT
    <3>2. IF k < turn \/ (k = turn /\ b < at)
          THEN PairAfter(data, len, bits, b, k) ELSE PairBefore(data, len, bits, b, k)
      BY <1>3 DEF PairsHold
    <3>3. /\ PairAfter(data', len, bits, b, k) <=> PairAfter(data, len, bits, b, k)
          /\ PairBefore(data', len, bits, b, k) <=> PairBefore(data, len, bits, b, k)
      BY <1>8, <2>2 DEF PairAfter, PairBefore
    <3> QED BY <3>1, <3>2, <3>3
  <2> QED BY <2>1, <2>2
<1>10. i' = m + (at + 1) * (4 * len) /\ at + 1 \in Nat
  <2> DEFINE c == at * len
  <2>1. c \in Nat /\ at * (4 * len) = 4 * c /\ (at + 1) * (4 * len) = 4 * c + 4 * len
    BY SMT
  <2>2. istep = 4 * len /\ m \in Nat
    BY <1>3, SMT DEF istep
  <2> HIDE DEF c
  <2> QED BY <1>1, <1>3, <2>1, <2>2, SMT
<1>11. InStage(len, bits, turn, at + 1)'
  <2>1. PairsHold(data, len, bits, turn, at + 1)'
    BY <1>1, <1>9 DEF PairsHold, PairBefore, PairAfter
  <2>2. turn < len
    BY <1>2 DEF InStage
  <2> QED BY <1>1, <1>3, <1>10, <2>1, <2>2 DEF InStage
<1> QED BY <1>10, <1>11 DEF ButterflyInv

\* The point z at half the angle squares to the point at the angle.
LEMMA HalfAngle ==
    ASSUME NEW d \in Nat, NEW e \in Nat, Order = (2 * d) * e, NEW k \in Int, NEW l \in Int
    PROVE  /\ Phasor(k, 2 * d) \in Complex
           /\ Mul(Phasor(k, 2 * d), Conj(Phasor(k, 2 * d))) = One
           /\ Mul(Phasor(k, 2 * d), Phasor(k, 2 * d)) = Phasor(k, d)
           /\ Phasor(l + k, d) = Mul(Phasor(l, d), Phasor(k, d))
<1>1. /\ 2 * d \in Nat /\ 0 - k \in Int /\ k + (0 - k) = 0 /\ k + k = 2 * k /\ 2 * e \in Nat
  BY SMT
<1>2. Order = d * (2 * e) /\ Phasor(2 * k, 2 * d) = Phasor(k, d)
  BY PhasorHalf
<1>3. Phasor(l + k, d) = Mul(Phasor(l, d), Phasor(k, d))
  BY <1>1, <1>2, PhasorLaws
<1> DEFINE dd == 2 * d
<1>4. dd \in Nat /\ Order = dd * e
  BY <1>1
<1> HIDE DEF dd
<1>5. /\ Phasor(k, dd) \in Complex /\ Conj(Phasor(k, dd)) = Phasor(0 - k, dd)
      /\ Phasor(0, dd) = One
  BY <1>4, PhasorLaws
<1>6. Phasor(k + (0 - k), dd) = Mul(Phasor(k, dd), Phasor(0 - k, dd))
  BY <1>1, <1>4, PhasorLaws
<1>7. Phasor(k + k, dd) = Mul(Phasor(k, dd), Phasor(k, dd))
  BY <1>4, PhasorLaws
<1> QED BY <1>1, <1>2, <1>3, <1>5, <1>6, <1>7 DEF dd

\* The twiddle factor of the next offset.
LEMMA TwiddleTurned ==
    ASSUME TransformInv, NextTwiddle,
           NEW len \in Nat, NEW bits \in Nat, NEW turn \in Nat, NEW at \in Nat,
           InStage(len, bits, turn, at)
    PROVE  w' = Phasor(isign * (turn + 1), 2 * len)
<1> DEFINE d == 2 * len
           z == Phasor(isign, 2 * d)
           l == isign * turn
<1>1. mmax = d /\ M = d * 2 ^ bits /\ w = Phasor(l, d) /\ d \in Nat
  BY SMT DEF InStage
<1>2. PICK e \in Nat : Order = (2 * d) * e
  BY <1>1, StageParts
<1>3. isign \in Int /\ l \in Int /\ l + isign = isign * (turn + 1)
  <2>1. isign \in Int
    BY InputType DEF TransformInv
  <2>2. isign * turn \in Int /\ isign * turn + isign = isign * (turn + 1)
    BY <2>1, SMT
  <2> QED BY <2>1, <2>2
<1>4. w' = << (w[1] + w[1] * Wpr - w[2] * Wpi) % P, (w[2] + w[2] * Wpr + w[1] * Wpi) % P >>
  BY DEF NextTwiddle
<1> HIDE DEF d, l
<1>5. /\ z \in Complex /\ Mul(z, Conj(z)) = One /\ Mul(z, z) = Phasor(isign, d)
      /\ Phasor(l + isign, d) = Mul(Phasor(l, d), Phasor(isign, d))
  BY <1>1, <1>2, <1>3, HalfAngle
<1>6. Wpr = (0 - 2 * z[2] * z[2]) % P
  BY <1>1 DEF Wpr, HalfSine
<1>7. Wpi = Mul(z, z)[2]
  BY <1>1, <1>5 DEF Wpi
<1>8. w \in Complex
  BY DEF TransformInv, TypeOK
<1> HIDE DEF z
<1>9. << (w[1] + w[1] * Wpr - w[2] * Wpi) % P, (w[2] + w[2] * Wpr + w[1] * Wpi) % P >>
        = Mul(w, Mul(z, z))
  BY <1>5, <1>6, <1>7, <1>8, TwiddleRecurrence
<1>10. w' = Phasor(l + isign, d)
  BY <1>1, <1>4, <1>5, <1>9
<1> QED BY <1>3, <1>10 DEF d

\* The twiddle recurrence multiplies by the angle of the stage, and the last
\* twiddle ends it.
LEMMA NextTwiddleKeeps == TransformInv /\ NextTwiddle => ButterflyInv' /\ StageInv'
<1> SUFFICES ASSUME TransformInv, NextTwiddle PROVE ButterflyInv' /\ StageInv'
  OBVIOUS
<1>1. /\ pc = "butterfly" /\ i > n /\ data' = data /\ input' = input /\ isign' = isign
      /\ m' = m + 2 /\ i' = m + 2
  BY DEF NextTwiddle
<1>2. PICK len \in Nat, bits \in Nat, turn \in Nat, at \in Nat : InStage(len, bits, turn, at)
  BY <1>1 DEF TransformInv, ButterflyInv
<1> DEFINE p  == 2 ^ bits
<1>3. p \in Nat /\ M = (2 * len) * p /\ mmax = 2 * len /\ m = 2 * turn + 1
      /\ PairsHold(data, len, bits, turn, at)
  BY <1>2, PowerStep DEF InStage
<1>4. /\ len > 0 /\ turn \in 0 .. len - 1 /\ (i <= n) = (at <= p - 1)
  BY <1>2, StagePosition
<1>5. \A b \in 0 .. p - 1 : b < at
  <2>1. ~ (i <= n)
    <3>1. i \in Int /\ n \in Int
      BY SizeFacts, SMT DEF TransformInv, TypeOK
    <3> QED BY <1>1, <3>1, SMT
  <2>2. ~ (at <= p - 1)
    BY <1>4, <2>1
  <2> HIDE DEF p
  <2> QED BY <1>3, <2>2, SMT
<1>6. PairsHold(data, len, bits, turn + 1, 0)
  <2> SUFFICES ASSUME NEW b \in 0 .. p - 1, NEW k \in 0 .. len - 1
               PROVE  IF k < turn + 1 \/ (k = turn + 1 /\ b < 0)
                      THEN PairAfter(data, len, bits, b, k) ELSE PairBefore(data, len, bits, b, k)
    BY DEF PairsHold
  <2>1. IF k < turn \/ (k = turn /\ b < at)
        THEN PairAfter(data, len, bits, b, k) ELSE PairBefore(data, len, bits, b, k)
    BY <1>3 DEF PairsHold
  <2>2. (k < turn + 1 \/ (k = turn + 1 /\ b < 0)) <=> (k < turn \/ (k = turn /\ b < at))
    <3>1. b < at /\ ~ (b < 0)
      <4>1. b >= 0
        <5> HIDE DEF p
        <5> QED BY <1>3, SMT
      <4>2. ~ (b < 0)
        <5> HIDE DEF p
        <5> QED BY <1>3, SMT
      <4> QED BY <1>5, <4>2
    <3>2. k < turn + 1 <=> k < turn \/ k = turn
      BY <1>4, SMT
    <3> QED BY <3>1, <3>2
  <2> QED BY <2>1, <2>2
<1>7. w' = Phasor(isign * (turn + 1), 2 * len)
  BY <1>2, TwiddleTurned
<1>8. CASE m + 2 < mmax
  <2>1. pc' = pc /\ mmax' = mmax
    BY <1>8 DEF NextTwiddle
  <2>2. /\ turn + 1 \in Nat /\ turn + 1 < len /\ m + 2 = 2 * (turn + 1) + 1
        /\ m + 2 = (m + 2) + 0 * (4 * len) /\ 0 \in Nat
    BY <1>3, <1>8, SMT
  <2>3. PairsHold(data, len, bits, turn + 1, 0)'
    BY <1>1, <1>6 DEF PairsHold, PairBefore, PairAfter
  <2>4. InStage(len, bits, turn + 1, 0)'
    BY <1>1, <1>3, <1>7, <2>1, <2>2, <2>3 DEF InStage
  <2>5. ButterflyInv'
    BY <2>2, <2>4 DEF ButterflyInv
  <2> QED BY <1>1, <2>1, <2>5 DEF StageInv
<1>9. CASE ~ (m + 2 < mmax)
  <2>1. pc' = "stage" /\ mmax' = istep
    BY <1>9 DEF NextTwiddle
  <2>2. turn + 1 = len /\ 2 * len \in Nat /\ istep = 2 * (2 * len)
    BY <1>3, <1>4, <1>9, SMT DEF istep
  <2>3. ASSUME NEW b \in 0 .. p - 1, NEW k \in 0 .. len - 1
        PROVE  PairAfter(data, len, bits, b, k)
    <3>1. k < turn + 1
      BY <2>2, SMT
    <3> QED BY <1>6, <3>1 DEF PairsHold
  <2>4. ASSUME NEW b \in 0 .. p - 1, NEW k \in 0 .. 2 * len - 1
        PROVE  EntryOf(data, b * (2 * len) + k) = SpectrumOf(input, isign, 2 * len, bits, b)[k]
    <3>1. CASE k < len
      <4>1. k \in 0 .. len - 1
        BY <3>1, SMT
      <4> QED BY <2>3, <4>1 DEF PairAfter
    <3>2. CASE ~ (k < len)
      <4> DEFINE h  == k - len
                 bl == b * (2 * len)
      <4>1. h \in 0 .. len - 1 /\ k = h + len /\ h \in Int
        BY <3>2, SMT
      <4>2. bl \in Int
        <5>1. b \in Int
          <6> HIDE DEF p
          <6> QED BY <1>3, SMT
        <5> QED BY <5>1, SMT
      <4> HIDE DEF h, bl
      <4>3. bl + k = bl + h + len
        BY <4>1, <4>2, SMT
      <4> QED BY <2>3, <4>1, <4>3 DEF PairAfter, bl
    <3> QED BY <3>1, <3>2
  <2>5. StageHolds(2 * len, bits)'
    BY <1>1, <2>4 DEF StageHolds
  <2>6. StageInv'
    BY <1>3, <2>1, <2>2, <2>5 DEF StageInv
  <2> QED BY <2>1, <2>6 DEF ButterflyInv
<1> QED BY <1>8, <1>9

\* The last stage is the transform of the input.
LEMMA SeparateKeeps == TransformInv /\ SeparateArrays => ReturnsTransform'
<1> SUFFICES ASSUME TransformInv, SeparateArrays PROVE ReturnsTransform'
  OBVIOUS
<1>1. /\ pc = "stage" /\ n <= mmax /\ input' = input /\ isign' = isign
      /\ real' = [k \in 0 .. M - 1 |-> data[2 * k]]
      /\ imag' = [k \in 0 .. M - 1 |-> data[2 * k + 1]]
  BY DEF SeparateArrays
<1>2. PICK len \in Nat, bits \in Nat :
        mmax = 2 * len /\ M = len * 2 ^ bits /\ StageHolds(len, bits)
  BY <1>1 DEF TransformInv, StageInv
<1>3. len = M /\ bits = 0
  <2>1. mmax \in 2 .. n
    BY DEF TransformInv, TypeOK
  <2>2. len = M
    BY <1>1, <1>2, <2>1, SizeFacts, SMT
  <2>3. len < M => FALSE
    BY <2>2, SMT
  <2> QED BY <1>2, <2>2, <2>3, StageSizes
<1>4. PartOf(input, M, 0, 0) = input
  <2>1. ReverseBits(0, 0) = 0
    <3>1. 0 \in Nat /\ 0 .. 1 - 1 = {0}
      BY SMT
    <3>2. ReverseBits(0, 0) \in 0 .. 2 ^ 0 - 1
      BY <3>1, ReverseType
    <3>3. 2 ^ 0 = 1
      BY PowerStep
    <3> QED BY <3>1, <3>2, <3>3
  <2>2. \A t \in 0 .. M - 1 : t * 2 ^ 0 + ReverseBits(0, 0) = t
    <3>1. \A t \in 0 .. M - 1 : t * 1 + 0 = t
      BY SizeFacts, SMT
    <3> QED BY <2>1, <3>1, PowerStep
  <2>3. PartOf(input, M, 0, 0) = [t \in 0 .. M - 1 |-> input[t]]
    BY <2>2, Zenon DEF PartOf
  <2> QED BY <2>3, InputType DEF TransformInv
<1>5. ASSUME NEW k \in 0 .. M - 1
      PROVE  << real'[k], imag'[k] >> = Dft(input, M, isign)[k]
  <2>1. 0 \in 0 .. 2 ^ 0 - 1 /\ 0 * M + k = k
    <3>1. 0 \in 0 .. 1 - 1 /\ 0 * M + k = k
      BY SizeFacts, SMT
    <3> QED BY <3>1, PowerStep
  <2>2. EntryOf(data, 0 * M + k) = SpectrumOf(input, isign, M, 0, 0)[k]
    BY <1>2, <1>3, <2>1 DEF StageHolds
  <2>3. << real'[k], imag'[k] >> = EntryOf(data, k)
    BY <1>1 DEF EntryOf
  <2> QED BY <1>4, <2>1, <2>2, <2>3 DEF SpectrumOf
<1> QED BY <1>1, <1>5 DEF ReturnsTransform

\* Every action keeps what data holds.
LEMMA TransformStep == TransformInv /\ TypeOK' /\ LoopInv' /\ [Next]_vars => TransformInv'
<1> SUFFICES ASSUME TransformInv, TypeOK', LoopInv', [Next]_vars
             PROVE  ReversalInv' /\ StageInv' /\ ButterflyInv' /\ ReturnsTransform'
  BY DEF TransformInv
<1>1. CASE BitReversal
  <2>1. pc' = "reverse"
    BY <1>1 DEF BitReversal
  <2> QED BY <1>1, <2>1, ReversalKeeps DEF StageInv, ButterflyInv, ReturnsTransform
<1>2. CASE ConcatArrays
  <2>1. pc' = "stage"
    BY <1>2 DEF ConcatArrays
  <2> QED BY <1>2, <2>1, ConcatKeeps DEF ReversalInv, ButterflyInv, ReturnsTransform
<1>3. CASE StartStage
  <2>1. pc' = "butterfly"
    BY <1>3 DEF StartStage
  <2> QED BY <1>3, <2>1, StartStageKeeps DEF ReversalInv, StageInv, ReturnsTransform
<1>4. CASE Butterfly
  <2>1. pc' = "butterfly"
    BY <1>4 DEF Butterfly
  <2> QED BY <1>4, <2>1, ButterflyKeeps DEF ReversalInv, StageInv, ReturnsTransform
<1>5. CASE NextTwiddle
  <2>1. pc' \in {"butterfly", "stage"}
    BY <1>5 DEF NextTwiddle
  <2> QED BY <1>5, <2>1, NextTwiddleKeeps DEF ReversalInv, ReturnsTransform
<1>6. CASE SeparateArrays
  <2>1. pc' = "done"
    BY <1>6 DEF SeparateArrays
  <2> QED BY <1>6, <2>1, SeparateKeeps DEF ReversalInv, StageInv, ButterflyInv
<1>7. CASE UNCHANGED vars
  <2> USE <1>7 DEF vars
  <2>1. ReversalInv'
    BY DEF TransformInv, ReversalInv
  <2>2. StageInv'
    BY DEF TransformInv, StageInv, StageHolds
  <2>3. ButterflyInv'
    BY DEF TransformInv, ButterflyInv, InStage, PairsHold, PairBefore, PairAfter
  <2>4. ReturnsTransform'
    BY DEF TransformInv, ReturnsTransform
  <2> QED BY <2>1, <2>2, <2>3, <2>4
<1> QED BY <1>1, <1>2, <1>3, <1>4, <1>5, <1>6, <1>7 DEF Next

\* The state of the transform in every one of its loops.
THEOREM TransformInvariance == Spec => []TransformInv
<1>1. Init => TransformInv
  BY TransformInit, TypeInit, LoopInvInit DEF TransformInv
<1>2. TransformInv /\ [Next]_vars => TransformInv'
  BY TransformStep, TypeStep, LoopInvStep DEF TransformInv
<1> QED BY <1>1, <1>2, PTL DEF Spec

\* radix2 returns the discrete Fourier transform of the signal it was given,
\* for every power of two the array can have as its size, in both directions
\* and whatever the scratch array held.
THEOREM RadixTwoReturnsTransform == Spec => []ReturnsTransform
<1>1. TransformInv => ReturnsTransform
  BY DEF TransformInv
<1> QED BY <1>1, TransformInvariance, PTL

\* The powers of two are strictly monotone.
LEMMA PowerMonotone == \A k \in Nat, l \in Nat : k < l => 2 ^ k < 2 ^ l
<1> DEFINE T == {d \in Nat : \A k \in Nat : 2 ^ k < 2 ^ (k + d + 1)}
<1>1. 0 \in T
  <2> SUFFICES ASSUME NEW k \in Nat PROVE 2 ^ k < 2 ^ (k + 0 + 1)
    BY SMT
  <2>1. k + 0 + 1 = k + 1
    BY SMT
  <2> DEFINE p == 2 ^ k
             q == 2 ^ (k + 1)
  <2>2. p \in Nat /\ p > 0 /\ q = 2 * p
    BY PowerStep
  <2> HIDE DEF p, q
  <2>3. p < q
    BY <2>2, SMT
  <2> QED BY <2>1, <2>3 DEF p, q
<1>2. ASSUME NEW d \in Nat, d \in T PROVE d + 1 \in T
  <2> SUFFICES ASSUME NEW k \in Nat PROVE 2 ^ k < 2 ^ (k + (d + 1) + 1)
    BY SMT
  <2> DEFINE s == k + d + 1
             o == 2 ^ k
             p == 2 ^ s
             q == 2 ^ (s + 1)
  <2>1. k + (d + 1) + 1 = s + 1 /\ s \in Nat
    BY SMT
  <2>2. o < p
    BY <1>2
  <2> HIDE DEF s
  <2>3. p \in Nat /\ p > 0 /\ q = 2 * p /\ o \in Nat
    BY <2>1, PowerStep
  <2> HIDE DEF o, p, q
  <2>4. o < q
    BY <2>2, <2>3, SMT
  <2> QED BY <2>1, <2>4 DEF o, q
<1> HIDE DEF T
<1>3. \A d \in Nat : d \in T
  BY <1>1, <1>2, InductiveSet
<1> SUFFICES ASSUME NEW k \in Nat, NEW l \in Nat, k < l PROVE 2 ^ k < 2 ^ l
  OBVIOUS
<1>4. l - k - 1 \in Nat /\ k + (l - k - 1) + 1 = l
  BY SMT
<1> QED BY <1>3, <1>4 DEF T

\* Between two stages the blocks of data are the transforms of the decimated
\* input: Danielson and Lanczos, for every power of two.
THEOREM StagesTransform == Spec => []StageTransforms
<1>1. TransformInv => StageTransforms
  <2> SUFFICES ASSUME TransformInv, pc = "stage" PROVE StageTransforms
    BY DEF StageTransforms
  <2>1. PICK len \in Nat, bits \in Nat :
          mmax = 2 * len /\ M = len * 2 ^ bits /\ StageHolds(len, bits)
    BY DEF TransformInv, StageInv
  <2> DEFINE p == 2 ^ bits
  <2>2. p \in Nat /\ p > 0 /\ len > 0 /\ M \in Nat
    BY <2>1, PowerStep, StageSizes, SizeFacts
  <2>3. mmax \div 2 = len
    BY <2>1, SMT
  <2>4. M \div len = p
    <3> HIDE DEF p
    <3>1. 0 \in 0 .. len - 1 /\ M \in Int /\ p \in Int /\ len * p \in Nat
      BY <2>2, SMT
    <3>2. M = len * p + 0
      <4> DEFINE lp == len * p
      <4>1. lp \in Nat /\ M = lp
        BY <2>1, <3>1 DEF p
      <4> HIDE DEF lp
      <4>2. M = lp + 0
        BY <4>1, SMT
      <4> QED BY <4>2 DEF lp
    <3> QED BY <3>1, <3>2, DivModAre
  <2>5. bits \in 0 .. Levels
    <3>1. p <= 2 ^ Levels
      <4> HIDE DEF p
      <4>1. 1 * p <= len * p
        BY <2>2, MulMonotone, SMT
      <4>2. 1 * p = p
        BY <2>2, SMT
      <4> QED BY <2>1, <4>1, <4>2, InputFacts DEF p
    <3>2. Levels < bits => 2 ^ Levels < p
      BY InputFacts, PowerMonotone
    <3>3. 2 ^ Levels \in Nat /\ Levels \in Nat
      BY InputFacts, PowerStep
    <3> DEFINE q == 2 ^ Levels
    <3> HIDE DEF p, q
    <3>4. ~ (q < p)
      BY <2>2, <3>1, <3>3, SMT DEF q
    <3>5. ~ (Levels < bits)
      BY <3>2, <3>4 DEF q
    <3> QED BY <3>3, <3>5, SMT
  <2>6. \A l \in 0 .. Levels : 2 ^ l = p => l = bits
    <3> SUFFICES ASSUME NEW l \in 0 .. Levels, 2 ^ l = p, l # bits PROVE FALSE
      OBVIOUS
    <3>1. l \in Nat /\ (l < bits \/ bits < l)
      BY InputFacts, SMT
    <3>2. p < p
      BY <3>1, PowerMonotone
    <3> HIDE DEF p
    <3> QED BY <2>2, <3>2, SMT
  <2>7. (CHOOSE l \in 0 .. Levels : 2 ^ l = p) = bits
    BY <2>5, <2>6
  <2>8. ASSUME NEW b \in 0 .. p - 1, NEW k \in 0 .. len - 1
        PROVE  << data[2 * (b * len + k)], data[2 * (b * len + k) + 1] >>
                 = Dft([t \in 0 .. len - 1 |-> input[t * p + ReverseBits(b, bits)]], len, isign)[k]
    BY <2>1 DEF StageHolds, EntryOf, SpectrumOf, PartOf
  <2> DEFINE Holds(ln, bl, bt) ==
               \A b \in 0 .. bl - 1 : \A k \in 0 .. ln - 1 :
                  << data[2 * (b * ln + k)], data[2 * (b * ln + k) + 1] >>
                    = Dft([t \in 0 .. ln - 1 |-> input[t * bl + ReverseBits(b, bt)]], ln, isign)[k]
  <2>9. Holds(len, p, bits)
    BY <2>8
  <2>10. Holds(mmax \div 2, M \div (mmax \div 2),
               CHOOSE l \in 0 .. Levels : 2 ^ l = M \div (mmax \div 2)) => StageTransforms
    BY Zenon DEF StageTransforms
  <2> HIDE DEF Holds, p
  <2> QED BY <2>3, <2>4, <2>7, <2>9, <2>10
<1> QED BY <1>1, TransformInvariance, PTL
===============================================================================
