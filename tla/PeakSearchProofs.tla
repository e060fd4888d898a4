--------------------------- MODULE PeakSearchProofs ---------------------------
(***************************************************************************)
(* computeMaxValue finds the first maximum, for matrices of every size.     *)
(***************************************************************************)
EXTENDS PeakSearch, TLAPS

\* What the entry at hand adds to the entries looked at.
LEMMA ScannedByEntry ==
    ASSUME TypeOK, ScanEntry
    PROVE  /\ <<f, n>> \in (0 .. freqCount - 1) \X (0 .. sampleCount - 1)
           /\ Scanned' = Scanned \cup {<<f, n>>}
           /\ \A c \in Scanned : Precedes(c, <<f, n>>)
<1>1. f \in 0 .. freqCount - 1 /\ n \in 0 .. sampleCount - 1
  BY SMT DEF TypeOK, Inputs, ScanEntry
<1>2. f' = f /\ n' = n + 1 /\ freqCount' = freqCount /\ sampleCount' = sampleCount
  BY DEF ScanEntry, inputs
<1>3. ASSUME NEW g \in 0 .. freqCount - 1, NEW k \in 0 .. sampleCount - 1
      PROVE  Precedes(<<g, k>>, <<f, n + 1>>)
               <=> Precedes(<<g, k>>, <<f, n>>) \/ <<g, k>> = <<f, n>>
  BY <1>1, SMT DEF Precedes
<1>4. Scanned' = {c \in (0 .. freqCount - 1) \X (0 .. sampleCount - 1) :
                      Precedes(c, <<f, n + 1>>)}
  BY <1>2 DEF Scanned
<1>5. Scanned' = Scanned \cup {<<f, n>>}
  BY <1>1, <1>3, <1>4, SMT DEF Scanned
<1> QED BY <1>1, <1>5 DEF Scanned

\* The types before the search.
LEMMA TypeInit == Inputs /\ Start => TypeOK
  BY SMT DEF Inputs, Start, TypeOK

\* Every step of the search keeps the types.
LEMMA TypeStep == TypeOK /\ [Search]_vars => TypeOK'
<1> SUFFICES ASSUME TypeOK, [Search]_vars PROVE TypeOK'
  OBVIOUS
<1>1. CASE ScanEntry
  <2>1. f \in 0 .. freqCount - 1 /\ n \in 0 .. sampleCount - 1
    BY <1>1, SMT DEF TypeOK, Inputs, ScanEntry
  <2>2. power[f][n] \in Nat /\ frequencies[f] \in Int
    BY <2>1 DEF TypeOK, Inputs
  <2>3. codePhase' \in Int /\ dopplerFrequency' \in Int /\ sMax' \in Nat
    BY <1>1, <2>1, <2>2, SMT DEF TypeOK, Inputs, ScanEntry
  <2> QED BY <1>1, <2>1, <2>3, SMT DEF TypeOK, Inputs, ScanEntry, inputs
<1>2. CASE NextRow
  BY <1>2, SMT DEF TypeOK, Inputs, NextRow, inputs
<1>3. CASE Return
  BY <1>3 DEF TypeOK, Inputs, Return, inputs
<1>4. CASE UNCHANGED vars
  BY <1>4 DEF TypeOK, Inputs, vars, inputs
<1> QED BY <1>1, <1>2, <1>3, <1>4 DEF Search

\* The loop variables and the maximum keep their ranges in every search.
THEOREM TypeCorrect == Spec => []TypeOK
<1> QED BY TypeInit, TypeStep, PTL DEF Spec

-------------------------------------------------------------------------------
\* A step that looks at no entry leaves the set of entries looked at alone.
LEMMA ScannedByOthers ==
    ASSUME TypeOK, NextRow \/ Return
    PROVE  Scanned' = Scanned
<1>1. CASE NextRow
  <2>1. /\ f' = f + 1 /\ n' = 0 /\ n = sampleCount
        /\ freqCount' = freqCount /\ sampleCount' = sampleCount
    BY <1>1, SMT DEF TypeOK, Inputs, NextRow, inputs
  <2>2. ASSUME NEW g \in 0 .. freqCount - 1, NEW k \in 0 .. sampleCount - 1
        PROVE  Precedes(<<g, k>>, <<f + 1, 0>>) <=> Precedes(<<g, k>>, <<f, n>>)
    BY <2>1, SMT DEF Precedes, TypeOK, Inputs
  <2>3. Scanned' = {c \in (0 .. freqCount - 1) \X (0 .. sampleCount - 1) :
                      Precedes(c, <<f + 1, 0>>)}
    BY <2>1 DEF Scanned
  <2> QED BY <2>2, <2>3, SMT DEF Scanned
<1>2. CASE Return
  BY <1>2 DEF Return, inputs, Scanned
<1> QED BY <1>1, <1>2

\* Looking at one entry keeps the record of the first largest power.
LEMMA PeakByEntry ==
    ASSUME TypeOK, PeakOfScanned, ScanEntry
    PROVE  PeakOfScanned'
<1>1. /\ <<f, n>> \in (0 .. freqCount - 1) \X (0 .. sampleCount - 1)
      /\ Scanned' = Scanned \cup {<<f, n>>}
      /\ \A c \in Scanned : Precedes(c, <<f, n>>)
  BY ScannedByEntry
<1>2. power' = power /\ frequencies' = frequencies
  BY DEF ScanEntry, inputs
<1>3. \A c \in Scanned \cup {<<f, n>>} : Power(c) \in Nat
  BY <1>1 DEF TypeOK, Inputs, Power, Scanned
<1>4. sMax \in Nat
  BY DEF TypeOK
<1>5. \A c \in Scanned : Power(c) <= sMax
  BY DEF PeakOfScanned
<1>6. ~ Precedes(<<f, n>>, <<f, n>>)
  BY SMT DEF Precedes, TypeOK, Inputs
<1>7. \A c \in Scanned : ~ Precedes(<<f, n>>, c)
  <2> SUFFICES ASSUME NEW c \in Scanned PROVE ~ Precedes(<<f, n>>, c)
    OBVIOUS
  <2>1. c[1] \in Int /\ c[2] \in Int /\ f \in Int /\ n \in Int
    BY SMT DEF Scanned, TypeOK, Inputs
  <2>2. c[1] < f \/ (c[1] = f /\ c[2] < n)
    BY <1>1 DEF Precedes
  <2> QED BY <2>1, <2>2, SMT DEF Precedes
<1>8. CASE power[f][n] > sMax
  <2>1. sMax' = Power(<<f, n>>) /\ codePhase' = n /\ dopplerFrequency' = frequencies[f]
    BY <1>8 DEF ScanEntry, Power
  <2>2. \A d \in Scanned : Power(d) < Power(<<f, n>>)
    <3> SUFFICES ASSUME NEW d \in Scanned PROVE Power(d) < Power(<<f, n>>)
      OBVIOUS
    <3>1. Power(<<f, n>>) = power[f][n]
      BY DEF Power
    <3>2. Power(d) \in Nat /\ Power(d) <= sMax /\ Power(<<f, n>>) \in Nat
      BY <1>3, <1>5
    <3> QED BY <1>4, <1>8, <3>1, <3>2, SMT
  <2>3. \A c \in Scanned \cup {<<f, n>>} : Power(c) <= Power(<<f, n>>)
    BY <1>3, <2>2, SMT
  <2>4. \A d \in Scanned \cup {<<f, n>>} :
            Precedes(d, <<f, n>>) => Power(d) < Power(<<f, n>>)
    BY <1>6, <2>2
  <2>5. \A c : Power(c)' = Power(c)
    BY <1>2 DEF Power
  <2>6. \E c \in Scanned' :
            /\ Power(c) = sMax'
            /\ codePhase' = c[2] /\ dopplerFrequency' = frequencies[c[1]]
            /\ \A d \in Scanned' : Precedes(d, c) => Power(d) < sMax'
    <3>1. <<f, n>> \in Scanned' /\ <<f, n>>[1] = f /\ <<f, n>>[2] = n
      BY <1>1
    <3> QED BY <1>1, <2>1, <2>4, <3>1
  <2> QED BY <1>1, <1>2, <2>1, <2>3, <2>5, <2>6 DEF PeakOfScanned, Power
<1>9. CASE ~ (power[f][n] > sMax)
  <2>1. UNCHANGED <<sMax, codePhase, dopplerFrequency>>
    BY <1>9 DEF ScanEntry
  <2>2. Power(<<f, n>>) <= sMax
    BY <1>1, <1>3, <1>4, <1>9, SMT DEF Power
  <2>3. \A c \in Scanned' : Power(c) <= sMax
    BY <1>1, <1>5, <2>2
  <2>4. ASSUME sMax > 0
        PROVE  \E c \in Scanned' :
                  /\ Power(c) = sMax
                  /\ codePhase = c[2] /\ dopplerFrequency = frequencies[c[1]]
                  /\ \A d \in Scanned' : Precedes(d, c) => Power(d) < sMax
    <3>1. PICK c \in Scanned :
              /\ Power(c) = sMax
              /\ codePhase = c[2] /\ dopplerFrequency = frequencies[c[1]]
              /\ \A d \in Scanned : Precedes(d, c) => Power(d) < sMax
      BY <2>4 DEF PeakOfScanned
    <3> QED BY <1>1, <1>7, <3>1
  <2> QED BY <1>2, <2>1, <2>3, <2>4 DEF PeakOfScanned, Power
<1> QED BY <1>8, <1>9

\* Every step keeps it.
LEMMA PeakStep == TypeOK /\ PeakOfScanned /\ [Search]_vars => PeakOfScanned'
<1> SUFFICES ASSUME TypeOK, PeakOfScanned, [Search]_vars PROVE PeakOfScanned'
  OBVIOUS
<1>1. CASE ScanEntry
  BY <1>1, PeakByEntry
<1>2. CASE NextRow \/ Return
  <2>1. Scanned' = Scanned
    BY <1>2, ScannedByOthers
  <2>2. UNCHANGED <<power, frequencies, sMax, codePhase, dopplerFrequency>>
    BY <1>2 DEF NextRow, Return, inputs
  <2> QED BY <2>1, <2>2 DEF PeakOfScanned, Power
<1>3. CASE UNCHANGED vars
  BY <1>3 DEF PeakOfScanned, Power, Scanned, vars, inputs
<1> QED BY <1>1, <1>2, <1>3 DEF Search

\* With nothing scanned there is nothing to record.
LEMMA PeakInit == Inputs /\ Start => PeakOfScanned
<1> SUFFICES ASSUME Inputs, Start PROVE PeakOfScanned
  OBVIOUS
<1>1. Scanned = {}
  BY SMT DEF Scanned, Precedes, Inputs, Start
<1> QED BY <1>1, SMT DEF PeakOfScanned, Start

\* The search keeps its maximum, the code phase and the frequency in step: they
\* always describe the first largest entry it has looked at.
THEOREM PeakFound == Spec => []PeakOfScanned
<1> QED BY PeakInit, TypeCorrect, PeakStep, PTL DEF Spec

\* No entry of the matrix is skipped.
THEOREM WholeMatrixScanned == Spec => []ReturnsAfterAll
<1> DEFINE Finished == pc = "estimate" => f = freqCount
<1>1. Inputs /\ Start => Finished
  BY DEF Start
<1>2. TypeOK /\ Finished /\ [Search]_vars => Finished'
  <2> SUFFICES ASSUME TypeOK, Finished, [Search]_vars PROVE Finished'
    OBVIOUS
  <2>1. CASE Return
    BY <2>1, SMT DEF Return, TypeOK, Inputs, inputs
  <2> QED BY <2>1 DEF Search, ScanEntry, NextRow, vars, inputs
<1>3. TypeOK /\ Finished => ReturnsAfterAll
  BY SMT DEF TypeOK, Inputs, ReturnsAfterAll, Scanned, Precedes
<1> QED BY <1>1, <1>2, <1>3, TypeCorrect, PTL DEF Spec

\* A search only ever raises its maximum, and a matrix without power leaves the
\* caller the code phase and the frequency of an earlier search.
THEOREM SilenceKeeps == Spec => SilenceKeepsOldAnswer
<1> DEFINE Raises == /\ sMax' >= sMax
                     /\ sMax' = 0 => UNCHANGED <<codePhase, dopplerFrequency>>
<1>1. TypeOK /\ [Search]_vars => [Raises]_vars
  <2> SUFFICES ASSUME TypeOK, Search PROVE Raises
    OBVIOUS
  <2>1. sMax \in Nat
    BY DEF TypeOK
  <2>2. CASE ScanEntry
    <3>1. f \in 0 .. freqCount - 1 /\ n \in 0 .. sampleCount - 1
      BY <2>2, SMT DEF TypeOK, Inputs, ScanEntry
    <3>2. power[f][n] \in Nat
      BY <3>1 DEF TypeOK, Inputs
    <3>3. CASE power[f][n] > sMax
      BY <2>1, <2>2, <3>2, <3>3, SMT DEF ScanEntry
    <3>4. CASE ~ (power[f][n] > sMax)
      BY <2>1, <2>2, <3>4, SMT DEF ScanEntry
    <3> QED BY <3>3, <3>4
  <2>3. CASE NextRow \/ Return
    BY <2>1, <2>3, SMT DEF NextRow, Return
  <2> QED BY <2>2, <2>3 DEF Search
<1> QED BY <1>1, TypeCorrect, PTL DEF Spec, SilenceKeepsOldAnswer
===============================================================================
