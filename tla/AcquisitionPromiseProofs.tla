----------------------- MODULE AcquisitionPromiseProofs -----------------------
(***************************************************************************)
(* The acquisition object keeps what AcquisitionSpec promises its caller,   *)
(* for all samples, codes, frequencies and sizes the transforms support.    *)
(*                                                                          *)
(* ResultsKept follows the matrix R from the product of the spectra to the  *)
(* correlation (by the theorem CrossCorrelation), SearchKept the maximum    *)
(* over its rows (by the step lemmas of PeakSearchProofs); when a start     *)
(* returns, what the search has left is therefore the answer promised.      *)
(* Every other step of the object is a step of the promise, or one that the *)
(* caller does not see.                                                     *)
(***************************************************************************)
EXTENDS AcquisitionProofs, SequenceTheorems

-------------------------------------------------------------------------------
(* The correlation *)

\* Row g of the product of the spectra, of its inverse transform as inverseFft
\* obtains it, and of the circular correlation of the samples with the codes.
ProductRow(g) == [k \in 0 .. sampleCount - 1 |->
                    Mul(Dft(LoweredRow(g), sampleCount, -1)[k], CodeSpectrum[k])]
ResultRow(g)  == SwapAll(Dft(SwapAll(ProductRow(g)), sampleCount, -1))
CorrelationRow(g) == [k \in 0 .. sampleCount - 1 |->
                        Scale(CircularCorrelation(LoweredRow(g), CodeRow, k, sampleCount),
                              Recip(sampleCount))]

ResultsKept ==
    /\ legal /\ pc = "inverseFft" =>
         \A g \in 0 .. testFreqCount - 1 :
            RowIs(rMatrix, sampleCount, g, IF g < f THEN ResultRow(g) ELSE ProductRow(g))
    /\ legal /\ pc \in {"max", "estimate"} =>
         \A g \in 0 .. testFreqCount - 1 : RowIs(rMatrix, sampleCount, g, CorrelationRow(g))

\* The rows the results are compared with depend on the inputs only.
LEMMA ResultsSame ==
    ASSUME UNCHANGED <<entered, tested>>
    PROVE  /\ \A g : ProductRow(g)' = ProductRow(g)
           /\ \A g : ResultRow(g)' = ResultRow(g)
           /\ \A g : CorrelationRow(g)' = CorrelationRow(g)
<1>1. /\ \A g : LoweredRow(g)' = LoweredRow(g)
      /\ CodeRow' = CodeRow /\ CodeSpectrum' = CodeSpectrum /\ sampleCount' = sampleCount
  BY RowsSame DEF entered
<1>2. \A g : ProductRow(g)' = ProductRow(g)
  BY <1>1 DEF ProductRow
<1>3. \A g : ResultRow(g)' = ResultRow(g)
  BY <1>1, <1>2 DEF ResultRow, SwapAll
<1>4. \A g : CorrelationRow(g)' = CorrelationRow(g)
  BY <1>1 DEF CorrelationRow, CircularCorrelation
<1> QED BY <1>2, <1>3, <1>4

\* What the contract gives a running start.
LEMMA ContractLength ==
    ASSUME TypeOK, ContractKept, legal, Running
    PROVE  /\ sampleCount \in Nat /\ sampleCount > 0 /\ sampleCount <= N_SAMPLES
           /\ LengthSupported(sampleCount) /\ codesCount = sampleCount
           /\ PartsOfCircle(sampleCount) /\ sampleCount % P # 0
           /\ RowsFit(sampleCount)
<1>1. /\ sampleCount \in Nat /\ sampleCount <= N_SAMPLES
      /\ LengthSupported(sampleCount) /\ codesCount = sampleCount
  BY AcquisitionAssumption, SMT DEF TypeOK, ContractKept
<1>2. sampleCount > 0
  <2>1. CASE PowerOfTwo(sampleCount)
    <3>1. sampleCount = M /\ M > 0
      BY <1>1, <2>1, SupportedFacts
    <3> QED BY <3>1
  <2>2. CASE ~ PowerOfTwo(sampleCount)
    BY <1>1, <2>2, SupportedFacts
  <2> QED BY <2>1, <2>2
<1>3. PartsOfCircle(sampleCount) /\ sampleCount % P # 0
  BY <1>1, <1>2, SupportedFacts
<1> QED BY <1>1, <1>2, <1>3, ContractFits

\* The two spectra of a product are of field elements.
LEMMA ProductTypes ==
    ASSUME TypeOK, InputsKept, ContractKept, legal, Running,
           NEW g \in 0 .. testFreqCount - 1, NEW k \in 0 .. sampleCount - 1
    PROVE  /\ Dft(LoweredRow(g), sampleCount, -1)[k] \in Complex
           /\ CodeSpectrum[k] \in Complex
           /\ ProductRow(g)[k] \in Complex /\ Swap(ProductRow(g)[k]) \in Complex
<1>1. sampleCount \in Nat /\ codesCount = sampleCount /\ PartsOfCircle(sampleCount)
  BY ContractLength
<1>2. PICK e \in Nat : Order = sampleCount * e
  BY <1>1 DEF PartsOfCircle
<1>3. /\ \A t \in 0 .. sampleCount - 1 : LoweredRow(g)[t] \in Complex
      /\ \A t \in 0 .. sampleCount - 1 : CodeRow[t] \in Complex
  BY <1>1, InputTypes
<1>4. Dft(LoweredRow(g), sampleCount, -1)[k] \in Complex
  BY <1>1, <1>2, <1>3, DftType
<1>5. Dft(CodeRow, sampleCount, -1)[k] \in Complex
  BY <1>1, <1>2, <1>3, DftType
<1>6. CodeSpectrum[k] \in Complex
  BY <1>5, PairTypes DEF CodeSpectrum
<1>7. ProductRow(g)[k] \in Complex
  BY <1>4, <1>6, Closed DEF ProductRow
<1> QED BY <1>4, <1>6, <1>7, PairTypes

\* The scaled inverse transform of the product is the correlation.
LEMMA ResultIsCorrelation ==
    ASSUME TypeOK, InputsKept, ContractKept, legal, Running,
           NEW g \in 0 .. testFreqCount - 1, NEW k \in 0 .. sampleCount - 1
    PROVE  Scale(ResultRow(g)[k], Recip(sampleCount * sampleCount)) = CorrelationRow(g)[k]
<1> DEFINE c == sampleCount
           x == LoweredRow(g)
           d == CodeRow
           r == ProductRow(g)
           y == SwapAll(r)
<1>1. c \in Nat /\ codesCount = c /\ PartsOfCircle(c) /\ c % P # 0
  BY ContractLength
<1>2. \A t \in 0 .. c - 1 : x[t] \in Complex /\ d[t] \in Complex
  BY <1>1, InputTypes
<1>3. \A j \in 0 .. c - 1 : r[j] = Mul(Dft(x, c, -1)[j], Conj(Dft(d, c, -1)[j]))
  BY DEF ProductRow, CodeSpectrum
<1>4. \A j \in 0 .. c - 1 : y[j] = Swap(r[j])
  BY DEF SwapAll, ProductRow
<1>5. ResultRow(g)[k] = Swap(Dft(y, c, -1)[k])
  BY DEF ResultRow, SwapAll, Dft
<1>6. CorrelationRow(g)[k]
        = Scale(CircularCorrelation(x, d, k, c), Recip(c))
  BY DEF CorrelationRow
<1>7. k \in 0 .. c - 1
  OBVIOUS
<1> HIDE DEF c, x, d, r, y
<1>8. Scale(Swap(Dft(y, c, -1)[k]), Recip(c * c))
        = Scale(CircularCorrelation(x, d, k, c), Recip(c))
  BY <1>1, <1>2, <1>3, <1>4, <1>7, CrossCorrelation
<1> QED BY <1>5, <1>6, <1>8 DEF c

\* computeR multiplies the spectra, row by row.
LEMMA ComputeRRows ==
    ASSUME TypeOK, InputsKept, SpectraKept, ContractKept, legal, ComputeR, RowsFit(sampleCount)
    PROVE  \A g \in 0 .. testFreqCount - 1 :
              \A k \in 0 .. sampleCount - 1 : rMatrix'[g * N_SAMPLES + k] = ProductRow(g)[k]
<1> SUFFICES ASSUME NEW g \in 0 .. testFreqCount - 1, NEW k \in 0 .. sampleCount - 1
             PROVE  rMatrix'[g * N_SAMPLES + k] = ProductRow(g)[k]
  OBVIOUS
<1> DEFINE e == g * N_SAMPLES + k
<1>0. pc = "fftX" /\ Running /\ f >= testFreqCount
  BY DEF ComputeR, Running
<1>1. /\ e \in 0 .. N_FREQ * nrOfSamples - 1 /\ g \in Nat /\ k \in 0 .. N_SAMPLES - 1
      /\ g < testFreqCount /\ k < sampleCount /\ g < f
  <2>1. g < testFreqCount /\ k < sampleCount /\ g < f
    BY <1>0, SMT DEF TypeOK
  <2> QED BY <2>1, RowInBlock
<1>2. e \div N_SAMPLES = g /\ e % N_SAMPLES = k
  BY <1>1, RowIndex
<1>3. e \in DOMAIN rMatrix
  BY <1>0, <1>1 DEF TypeOK
<1>4. codesCount = sampleCount /\ LengthSupported(sampleCount)
  BY <1>0, ContractLength
<1>5. rMatrix'[e] = IF e \div N_SAMPLES < testFreqCount /\ e % N_SAMPLES < sampleCount
                    THEN Mul(xMatrix[(e \div N_SAMPLES) * N_SAMPLES + (e % N_SAMPLES)],
                             codes[e % N_SAMPLES])
                    ELSE rMatrix[e]
  <2> HIDE DEF e
  <2> QED BY <1>3, <1>4 DEF ComputeR, FillRows
<1>6. rMatrix'[e] = Mul(xMatrix[g * N_SAMPLES + k], codes[k])
  <2> HIDE DEF e
  <2> QED BY <1>1, <1>2, <1>5
<1>7. xMatrix[g * N_SAMPLES + k] = Dft(LoweredRow(g), sampleCount, -1)[k]
  <2>1. RowIs(xMatrix, sampleCount, g, Dft(LoweredRow(g), sampleCount, -1))
    BY <1>0, <1>1, <1>4 DEF SpectraKept
  <2> QED BY <2>1 DEF RowIs
<1>8. codes[k] = CodeSpectrum[k]
  BY <1>0 DEF SpectraKept
<1> QED BY <1>6, <1>7, <1>8 DEF ProductRow

\* The scaling turns the inverse transforms into the correlation.
LEMMA ScaleRows ==
    ASSUME TypeOK, InputsKept, ContractKept, ResultsKept, legal, ScaleIdft, RowsFit(sampleCount)
    PROVE  \A g \in 0 .. testFreqCount - 1 :
              \A k \in 0 .. sampleCount - 1 : rMatrix'[g * N_SAMPLES + k] = CorrelationRow(g)[k]
<1> SUFFICES ASSUME NEW g \in 0 .. testFreqCount - 1, NEW k \in 0 .. sampleCount - 1
             PROVE  rMatrix'[g * N_SAMPLES + k] = CorrelationRow(g)[k]
  OBVIOUS
<1> DEFINE e == g * N_SAMPLES + k
           factor == Recip(sampleCount * sampleCount)
<1>0. pc = "inverseFft" /\ Running /\ f >= testFreqCount
  BY DEF ScaleIdft, Running
<1>1. /\ e \in 0 .. N_FREQ * nrOfSamples - 1 /\ g \in Nat /\ k \in 0 .. N_SAMPLES - 1
      /\ g < testFreqCount /\ k < sampleCount /\ g < f
  <2>1. g < testFreqCount /\ k < sampleCount /\ g < f
    BY <1>0, SMT DEF TypeOK
  <2> QED BY <2>1, RowInBlock
<1>2. e \div N_SAMPLES = g /\ e % N_SAMPLES = k
  BY <1>1, RowIndex
<1>3. e \in DOMAIN rMatrix
  BY <1>0, <1>1 DEF TypeOK
<1>5. rMatrix'[e] = IF e \div N_SAMPLES < testFreqCount /\ e % N_SAMPLES < sampleCount
                    THEN Scale(rMatrix[(e \div N_SAMPLES) * N_SAMPLES + (e % N_SAMPLES)], factor)
                    ELSE rMatrix[e]
  <2> HIDE DEF e
  <2> QED BY <1>3 DEF ScaleIdft, FillRows
<1> HIDE DEF factor
<1>6. rMatrix'[e] = Scale(rMatrix[g * N_SAMPLES + k], factor)
  <2> HIDE DEF e
  <2> QED BY <1>1, <1>2, <1>5
<1>7. rMatrix[g * N_SAMPLES + k] = ResultRow(g)[k]
  <2>1. RowIs(rMatrix, sampleCount, g, ResultRow(g))
    BY <1>0, <1>1 DEF ResultsKept
  <2> QED BY <2>1 DEF RowIs
<1>8. Scale(ResultRow(g)[k], factor) = CorrelationRow(g)[k]
  BY <1>0, ResultIsCorrelation DEF factor
<1> QED BY <1>6, <1>7, <1>8

\* Every stage after the spectra leaves the R-matrix as ResultsKept says.
LEMMA ResultsStep ==
    /\ TypeOK /\ InputsKept /\ TransformsKept /\ ContractKept /\ SpectraKept /\ ResultsKept
    /\ [Next]_vars
    => ResultsKept'
<1> SUFFICES ASSUME TypeOK, InputsKept, TransformsKept, ContractKept, SpectraKept, ResultsKept,
                    [Next]_vars, legal', pc' \in {"inverseFft", "max", "estimate"}
             PROVE  ResultsKept'
  BY DEF ResultsKept
\* A step outside a running start leads to none of these stages.
<1>1. ASSUME NEW capacity \in Capacities, AllocateAcquisition(capacity) PROVE ResultsKept'
  BY <1>1 DEF AllocateAcquisition
<1>2. ASSUME NEW v \in SampleValues, EnterSample(v) PROVE ResultsKept'
  BY <1>2 DEF EnterSample
<1>3. ASSUME NEW v \in CodeValues, EnterCode(v) PROVE ResultsKept'
  BY <1>3 DEF EnterCode
<1>4. ASSUME NEW freqs \in Frequencies, StartAcquisition(freqs) PROVE ResultsKept'
  BY <1>4 DEF StartAcquisition
<1>5. CASE DeleteAcquisition \/ ComputeX \/ Decide
  BY <1>5 DEF DeleteAcquisition, ComputeX, Decide, Undefined
<1>6. CASE UNCHANGED vars
  <2>1. UNCHANGED <<pc, entered, tested, rMatrix, f, legal>>
    BY <1>6 DEF vars, matrices, search, ghosts
  <2>2. /\ \A g : ProductRow(g)' = ProductRow(g)
        /\ \A g : ResultRow(g)' = ResultRow(g)
        /\ \A g : CorrelationRow(g)' = CorrelationRow(g)
    BY <2>1, ResultsSame
  <2>3. UNCHANGED <<sampleCount, testFreqCount>>
    BY <2>1 DEF entered, tested
  <2> QED BY <2>1, <2>2, <2>3 DEF ResultsKept, RowIs
<1>7. ASSUME Run, ~ (ComputeX \/ Decide) PROVE ResultsKept'
  <2>1. UNCHANGED <<nrOfSamples, entered, tested, starts, legal>> /\ Running
    BY <1>7, RunKeeps
  <2>2. /\ \A g : ProductRow(g)' = ProductRow(g)
        /\ \A g : ResultRow(g)' = ResultRow(g)
        /\ \A g : CorrelationRow(g)' = CorrelationRow(g)
    BY <2>1, ResultsSame
  <2>3. UNCHANGED <<sampleCount, codesCount, testFreqCount>> /\ legal
    BY <2>1 DEF entered, tested
  <2>4. /\ sampleCount \in Nat /\ sampleCount <= N_SAMPLES
        /\ LengthSupported(sampleCount) /\ codesCount = sampleCount /\ RowsFit(sampleCount)
    BY <2>1, <2>3, ContractLength
  <2> DEFINE c == sampleCount
             F == testFreqCount
  <2>5. F \in Nat /\ f \in Nat
    BY DEF TypeOK
  <2>6. CASE ComputeR
    <3>1. pc' = "inverseFft" /\ f' = 0
      BY <2>4, <2>6 DEF ComputeR
    <3>2. \A g \in 0 .. F - 1 : RowIs(rMatrix', c, g, ProductRow(g)) /\ ~ (g < 0)
      <4>1. \A g \in 0 .. F - 1 : ~ (g < 0)
        BY SMT
      <4> QED BY <2>3, <2>4, <2>6, <4>1, ComputeRRows DEF RowIs
    <3> QED BY <2>2, <2>3, <3>1, <3>2 DEF ResultsKept, RowIs
  <2>7. CASE ScaleIdft
    <3>1. pc' = "max"
      BY <2>4, <2>7 DEF ScaleIdft
    <3>2. \A g \in 0 .. F - 1 : RowIs(rMatrix', c, g, CorrelationRow(g))
      BY <2>3, <2>4, <2>7, ScaleRows DEF RowIs
    <3> QED BY <2>2, <2>3, <3>1, <3>2 DEF ResultsKept, RowIs
  <2>8. CASE ComputeMaxValue
    <3>1. pc = "max" /\ (pc' = pc \/ pc' = "estimate") /\ rMatrix' = rMatrix
      BY <2>8 DEF ComputeMaxValue, Peak!Search, Peak!ScanEntry, Peak!NextRow, Peak!Return,
                  matrices
    <3> QED BY <2>2, <2>3, <3>1 DEF ResultsKept, RowIs
  <2>9. CASE Fft
    <3>1. CASE Undefined
      BY <3>1 DEF Undefined
    <3>2. CASE UNCHANGED <<pc, codes, matrices, f>>
      BY <2>2, <2>3, <3>2 DEF ResultsKept, RowIs, matrices
    <3>3. ASSUME Transforming, MoreRows, TargetFits, FftLength = c, NEW v, Replace(v),
                 (\A k \in 0 .. c - 1 : Target[k] \in Complex) => v = Dft(Target, c, -1)
          PROVE  ResultsKept'
      <4>1. CASE pc # "inverseFft"
        BY <3>3, <4>1 DEF Replace
      <4>2. CASE pc = "inverseFft"
        <5>1. pc' = pc /\ f' = f + 1 /\ rMatrix' = PutRow(rMatrix, f, SwapAll(v))
          BY <3>3, <4>2 DEF Replace
        <5>2. f \in 0 .. F - 1
          BY <2>5, <3>3, <4>2, SMT DEF MoreRows
        <5>3. \A h \in 0 .. F - 1 :
                 RowIs(rMatrix, c, h, IF h < f THEN ResultRow(h) ELSE ProductRow(h))
          BY <2>3, <4>2 DEF ResultsKept
        <5>4. \A k \in 0 .. c - 1 : /\ Target[k] = SwapAll(ProductRow(f))[k]
                                    /\ Target[k] \in Complex
          <6> SUFFICES ASSUME NEW k \in 0 .. c - 1
                       PROVE  /\ Target[k] = SwapAll(ProductRow(f))[k]
                              /\ Target[k] \in Complex
            OBVIOUS
          <6>1. Target = SwapAll(Row(rMatrix, f, c))
            BY <3>3, <4>2 DEF Target
          <6>2. Target[k] = Swap(rMatrix[f * N_SAMPLES + k])
            BY <6>1 DEF Row, SwapAll
          <6>3. RowIs(rMatrix, c, f, ProductRow(f))
            <7>1. ~ (f < f)
              BY <2>5, SMT
            <7> QED BY <5>2, <5>3, <7>1
          <6>4. rMatrix[f * N_SAMPLES + k] = ProductRow(f)[k]
            BY <6>3 DEF RowIs
          <6>5. Swap(ProductRow(f)[k]) \in Complex
            BY <2>1, <2>3, <5>2, ProductTypes
          <6>6. SwapAll(ProductRow(f))[k] = Swap(ProductRow(f)[k])
            BY DEF SwapAll, ProductRow
          <6> QED BY <6>2, <6>4, <6>5, <6>6
        <5>5. SwapAll(v) = ResultRow(f)
          <6>1. v = Dft(Target, c, -1)
            BY <3>3, <5>4
          <6>2. Dft(Target, c, -1) = Dft(SwapAll(ProductRow(f)), c, -1)
            BY <5>4, DftSame
          <6> QED BY <6>1, <6>2 DEF ResultRow
        <5>6. DOMAIN ResultRow(f) = 0 .. c - 1
          BY DEF ResultRow, SwapAll, Dft
        <5>7. ASSUME NEW g \in 0 .. F - 1
              PROVE  RowIs(rMatrix', c, g, IF g < f + 1 THEN ResultRow(g) ELSE ProductRow(g))
          <6>1. g \in Nat
            BY <2>5, SMT
          <6>2. RowInside(rMatrix, c, g)
            <7>1. DOMAIN rMatrix = 0 .. N_FREQ * nrOfSamples - 1
              BY <4>2 DEF TypeOK
            <7> QED BY <2>4, <7>1, RowInBlock DEF RowInside
          <6> DEFINE row == IF g < f THEN ResultRow(g) ELSE ProductRow(g)
                     w == SwapAll(v)
          <6>3. RowIs(rMatrix, c, g, row)
            BY <5>3
          <6>4. DOMAIN w = 0 .. c - 1
            BY <5>5, <5>6
          <6> HIDE DEF row, w
          <6>5. RowIs(PutRow(rMatrix, f, w), c, g, IF g = f THEN w ELSE row)
            BY <2>4, <2>5, <6>1, <6>2, <6>3, <6>4, PutRowIs
          <6>6. /\ g = f => g < f + 1
                /\ g # f => (g < f + 1 <=> g < f)
            BY <2>5, <6>1, SMT
          <6>7. (IF g = f THEN w ELSE row)
                  = (IF g < f + 1 THEN ResultRow(g) ELSE ProductRow(g))
            BY <5>5, <6>6 DEF row, w
          <6> QED BY <5>1, <6>5, <6>7 DEF w
        <5>8. \A g \in 0 .. F - 1 :
                 RowIs(rMatrix', c, g, IF g < f' THEN ResultRow(g) ELSE ProductRow(g))
          BY <5>1, <5>7
        <5> QED BY <2>2, <2>3, <4>2, <5>1, <5>8 DEF ResultsKept, RowIs
      <4> QED BY <4>1, <4>2
    <3> QED BY <2>4, <2>9, <3>1, <3>2, <3>3, FftSteps
  <2> QED BY <1>7, <2>6, <2>7, <2>8, <2>9 DEF Run
<1> QED BY <1>1, <1>2, <1>3, <1>4, <1>5, <1>6, <1>7 DEF Next

-------------------------------------------------------------------------------
(* The search *)

\* computeMaxValue on the rows of the correlation, as PeakSearchProofs has it.
Scan == INSTANCE PeakSearchProofs WITH
          power <- [g \in 0 .. testFreqCount - 1 |->
                      [k \in 0 .. sampleCount - 1 |-> Norm(rMatrix[g * N_SAMPLES + k])]],
          frequencies <- [g \in 0 .. testFreqCount - 1 |-> testFrequencies[g]],
          freqCount <- testFreqCount

\* A search within the contract stands at the peak of the rows looked at, and it
\* reports the zeros of the allocation until it meets a positive power.
SearchKept ==
    /\ legal /\ pc \in {"max", "estimate"} => Scan!TypeOK /\ Scan!PeakOfScanned
    /\ legal /\ pc = "estimate" => f = testFreqCount
    /\ legal /\ Running /\ (pc \in {"max", "estimate"} => sMax = 0) =>
         codePhase = 0 /\ dopplerFrequency = 0

\* Only the search writes the two fields, only the decision the answer.
LEMMA RunKeepsFields ==
    ASSUME TypeOK, Run
    PROVE  /\ ~ ComputeMaxValue => UNCHANGED <<codePhase, dopplerFrequency>>
           /\ ~ Decide => UNCHANGED answer
<1> USE DEF search, ghosts
<1>1. CASE ChirpSignal
  <2>1. CASE TargetFits /\ sampleCount <= M
    BY <1>1, <2>1 DEF ChirpSignal
  <2>2. CASE ~ (TargetFits /\ sampleCount <= M)
    <3>1. Undefined
      BY <1>1, <2>2 DEF ChirpSignal
    <3> QED BY <3>1 DEF Undefined
  <2> QED BY <2>1, <2>2
<1>2. CASE ComputeX \/ FftByRadix2 \/ ConvolutionSpectra \/ ConvolutionProduct \/ UnchirpResult
  BY <1>2 DEF ComputeX, FftByRadix2, ConvolutionSpectra, ConvolutionProduct, UnchirpResult,
              Undefined
<1>3. CASE ComputeR \/ ScaleIdft
  BY <1>3 DEF ComputeR, ScaleIdft, Undefined
<1>4. CASE ComputeMaxValue
  <2>1. pc = "max" /\ UNCHANGED answer
    BY <1>4 DEF ComputeMaxValue, Peak!Search, Peak!ScanEntry, Peak!NextRow, Peak!Return
  <2> QED BY <1>4, <2>1
<1>5. CASE Decide
  BY <1>5 DEF Decide
<1> QED BY <1>1, <1>2, <1>3, <1>4, <1>5 DEF Run, Fft

\* The powers the search compares are numbers.
LEMMA CorrelationTypes ==
    ASSUME TypeOK, InputsKept, ContractKept, legal, Running,
           NEW g \in 0 .. testFreqCount - 1, NEW k \in 0 .. sampleCount - 1
    PROVE  /\ CorrelationRow(g)[k] \in Complex /\ Norm(CorrelationRow(g)[k]) \in Nat
<1> DEFINE c == sampleCount
           z == [s \in 0 .. c - 1 |-> Mul(LoweredRow(g)[(s + k) % c], Conj(CodeRow[s]))]
<1>1. c \in Nat /\ c > 0 /\ codesCount = c /\ c % P # 0
  BY ContractLength
<1>2. /\ \A t \in 0 .. c - 1 : LoweredRow(g)[t] \in Complex
      /\ \A t \in 0 .. c - 1 : CodeRow[t] \in Complex
  BY <1>1, InputTypes
<1>3. ASSUME NEW s \in 0 .. c - 1 PROVE z[s] \in Complex
  <2>1. s + k \in Int
    BY SMT
  <2>2. (s + k) % c \in 0 .. c - 1
    BY <1>1, <2>1, DivMod
  <2>3. Conj(CodeRow[s]) \in Complex
    BY <1>2, PairTypes
  <2> QED BY <1>2, <2>2, <2>3, Closed
<1> HIDE DEF z
<1>4. Total(z, c) \in Complex
  BY <1>1, <1>3, TotalType
<1>5. c \in Int /\ Recip(c) \in Int
  BY <1>1, RecipPair
<1>6. CorrelationRow(g)[k] = Scale(Total(z, c), Recip(c))
  BY DEF CorrelationRow, CircularCorrelation, z
<1>7. CorrelationRow(g)[k] \in Complex
  BY <1>4, <1>5, <1>6, PairTypes
<1>8. Norm(CorrelationRow(g)[k]) \in Scalar /\ P \in Nat
  BY <1>7, PairTypes, PFacts
<1> QED BY <1>7, <1>8, SMT DEF Scalar

\* What the search looks at are the powers of the correlation.
LEMMA SearchInputs ==
    /\ TypeOK /\ InputsKept /\ ContractKept /\ ResultsKept /\ legal
    /\ pc \in {"max", "estimate"}
    /\ codePhase \in Int /\ dopplerFrequency \in Int
    => Scan!Inputs
<1> SUFFICES ASSUME TypeOK, InputsKept, ContractKept, ResultsKept, legal,
                    pc \in {"max", "estimate"},
                    codePhase \in Int, dopplerFrequency \in Int
             PROVE  Scan!Inputs
  OBVIOUS
<1>1. Running /\ testFreqCount \in Nat /\ sampleCount \in Nat
  BY SMT DEF Running, TypeOK
<1>2. \A g \in 0 .. testFreqCount - 1 : testFrequencies[g] \in Int
  BY <1>1, InputTypes
<1>3. ASSUME NEW g \in 0 .. testFreqCount - 1, NEW k \in 0 .. sampleCount - 1
      PROVE  Norm(rMatrix[g * N_SAMPLES + k]) \in Nat
  <2>1. rMatrix[g * N_SAMPLES + k] = CorrelationRow(g)[k]
    BY DEF ResultsKept, RowIs
  <2>2. Norm(CorrelationRow(g)[k]) \in Nat
    BY <1>1, CorrelationTypes
  <2> QED BY <2>1, <2>2
<1> QED BY <1>1, <1>2, <1>3 DEF Scan!Inputs

\* The search finds the matrix it is specified for.
LEMMA SearchInputsNext ==
    (/\ TypeOK /\ InputsKept /\ ContractKept /\ ResultsKept /\ legal
     /\ pc \in {"max", "estimate"}
     /\ codePhase \in Int /\ dopplerFrequency \in Int)'
    => Scan!Inputs'
BY SearchInputs, PTL

\* The scan begins with nothing scanned.
LEMMA SearchStart == (Scan!Inputs /\ Scan!Start)' => (Scan!TypeOK /\ Scan!PeakOfScanned)'
BY Scan!TypeInit, Scan!PeakInit, PTL

\* A step of computeMaxValue is a step of the search.
LEMMA SearchIsScan ==
    ASSUME TypeOK, ComputeMaxValue
    PROVE  Scan!Search
<1>1. UNCHANGED <<sampleCount, testFreqCount, testFrequencies, rMatrix>> /\ Peak!Search
  BY DEF ComputeMaxValue, entered, tested, matrices
<1>2. UNCHANGED Scan!inputs
  BY <1>1 DEF Scan!inputs
<1>3. CASE Peak!ScanEntry
  <2>1. /\ pc = "max" /\ f < testFreqCount /\ n < sampleCount /\ n' = n + 1
        /\ UNCHANGED <<pc, f>>
    BY <1>3 DEF Peak!ScanEntry
  <2>2. f \in 0 .. testFreqCount - 1 /\ n \in 0 .. sampleCount - 1
    BY <2>1, SMT DEF TypeOK
  <2> DEFINE q == Norm(rMatrix[f * N_SAMPLES + n])
  <2>3. IF q > sMax
        THEN sMax' = q /\ codePhase' = n /\ dopplerFrequency' = testFrequencies[f]
        ELSE UNCHANGED <<sMax, codePhase, dopplerFrequency>>
    BY <1>3, <2>2 DEF Peak!ScanEntry
  <2>4. /\ [g \in 0 .. testFreqCount - 1 |->
              [k \in 0 .. sampleCount - 1 |-> Norm(rMatrix[g * N_SAMPLES + k])]][f][n] = q
        /\ [g \in 0 .. testFreqCount - 1 |-> testFrequencies[g]][f] = testFrequencies[f]
    BY <2>2
  <2> HIDE DEF q
  <2>5. Scan!ScanEntry
    BY <1>2, <2>1, <2>3, <2>4 DEF Scan!ScanEntry
  <2> QED BY <2>5 DEF Scan!Search
<1>4. CASE Peak!NextRow
  BY <1>2, <1>4 DEF Peak!NextRow, Scan!NextRow, Scan!Search
<1>5. CASE Peak!Return
  BY <1>2, <1>5 DEF Peak!Return, Scan!Return, Scan!Search
<1> QED BY <1>1, <1>3, <1>4, <1>5 DEF Peak!Search

\* The steps of computeMaxValue are steps of PeakSearch, whose invariant carries
\* over.
LEMMA SearchStep ==
    /\ TypeOK /\ InputsKept /\ ContractKept /\ FieldsAreCandidate /\ ResultsKept /\ SearchKept
    /\ TypeOK' /\ InputsKept' /\ ContractKept' /\ ResultsKept'
    /\ [Next]_vars
    => SearchKept'
<1> SUFFICES ASSUME TypeOK, InputsKept, ContractKept, FieldsAreCandidate, ResultsKept, SearchKept,
                    TypeOK', InputsKept', ContractKept', ResultsKept', [Next]_vars
             PROVE  SearchKept'
  OBVIOUS
\* A step that does not lead into a start within the contract.
<1>n. ASSUME ~ (legal' /\ Running') PROVE SearchKept'
  BY <1>n DEF SearchKept, Running
<1>1. ASSUME NEW capacity \in Capacities, AllocateAcquisition(capacity) PROVE SearchKept'
  BY <1>1, <1>n DEF AllocateAcquisition, Running
<1>2. ASSUME NEW v \in SampleValues, EnterSample(v) PROVE SearchKept'
  <2>1. pc' \in {"ready", "undefined"}
    BY <1>2 DEF EnterSample
  <2> QED BY <1>n, <2>1 DEF Running
<1>3. ASSUME NEW v \in CodeValues, EnterCode(v) PROVE SearchKept'
  <2>1. pc' \in {"ready", "undefined"}
    BY <1>3 DEF EnterCode
  <2> QED BY <1>n, <2>1 DEF Running
<1>4. ASSUME NEW freqs \in Frequencies, StartAcquisition(freqs) PROVE SearchKept'
  <2>1. /\ pc' \in {"computeX", "undefined"} /\ (legal' => starts = 0)
        /\ UNCHANGED <<codePhase, dopplerFrequency>>
    BY <1>4 DEF StartAcquisition, InContract, search
  <2> QED BY <2>1 DEF SearchKept, FieldsAreCandidate
<1>5. CASE DeleteAcquisition
  BY <1>5, <1>n DEF DeleteAcquisition, Running
<1>6. CASE Decide
  BY <1>6, <1>n DEF Decide, Running
<1>7. CASE ComputeMaxValue
  <2>1. SUFFICES ASSUME legal' PROVE SearchKept'
    BY <1>n
  <2>2. Run /\ pc = "max" /\ pc' \in {"max", "estimate"}
    BY <1>7 DEF Run, ComputeMaxValue, Peak!Search, Peak!ScanEntry, Peak!NextRow, Peak!Return
  <2>3. UNCHANGED <<nrOfSamples, entered, tested, starts, legal>> /\ Running
    BY <2>2, RunKeeps
  <2>4. legal /\ UNCHANGED <<sampleCount, testFreqCount>>
    BY <2>1, <2>3 DEF entered, tested
  <2>5. Scan!Search /\ Scan!TypeOK /\ Scan!PeakOfScanned
    BY <1>7, <2>2, <2>4, SearchIsScan DEF SearchKept
  <2>6. Scan!TypeOK' /\ Scan!PeakOfScanned'
    BY <2>5, Scan!TypeStep, Scan!PeakStep
  <2>7. pc' = "estimate" => f' = testFreqCount'
    <3>1. f \in 0 .. testFreqCount /\ testFreqCount \in Nat
      BY <2>5 DEF Scan!TypeOK, Scan!Inputs
    <3>2. pc' = "estimate" => f >= testFreqCount /\ f' = f
      BY <1>7, <2>2 DEF ComputeMaxValue, Peak!Search, Peak!ScanEntry, Peak!NextRow, Peak!Return
    <3>3. pc' = "estimate" => f' = testFreqCount
      BY <3>1, <3>2, SMT
    <3> QED BY <2>4, <3>3
  <2>8. sMax' = 0 => codePhase' = 0 /\ dopplerFrequency' = 0
    <3>1. sMax \in Nat /\ sMax' \in Nat
      BY <2>5, <2>6 DEF Scan!TypeOK
    <3>2. UNCHANGED <<sMax, codePhase, dopplerFrequency>> \/ sMax' > sMax
      BY <1>7 DEF ComputeMaxValue, Peak!Search, Peak!ScanEntry, Peak!NextRow, Peak!Return
    <3>3. CASE UNCHANGED <<sMax, codePhase, dopplerFrequency>>
      BY <2>3, <2>4, <3>3 DEF SearchKept
    <3>4. CASE sMax' > sMax
      <4>1. sMax' # 0
        BY <3>1, <3>4, SMT
      <4> QED BY <4>1
    <3> QED BY <3>2, <3>3, <3>4
  <2>9. pc' \in {"max", "estimate"}
    BY <2>2
  <2> QED BY <2>6, <2>7, <2>8, <2>9 DEF SearchKept
<1>8. ASSUME Run, ~ ComputeMaxValue, ~ Decide PROVE SearchKept'
  <2>1. SUFFICES ASSUME legal', Running' PROVE SearchKept'
    BY <1>n
  <2>2. UNCHANGED <<nrOfSamples, entered, tested, starts, legal>> /\ Running
    BY <1>8, RunKeeps
  <2>3. UNCHANGED <<codePhase, dopplerFrequency>>
    BY <1>8, RunKeepsFields
  <2>4. pc \notin {"max", "estimate"}
    <3>1. Transforming => pc \notin {"max", "estimate"}
      BY DEF Transforming
    <3>2. CASE ComputeX \/ ComputeR \/ ScaleIdft
      BY <3>2 DEF ComputeX, ComputeR, ScaleIdft
    <3>3. CASE Fft
      <4>1. Transforming
        BY <3>3 DEF Fft, FftByRadix2, ChirpSignal, ConvolutionSpectra, ConvolutionProduct,
                    UnchirpResult
      <4> QED BY <3>1, <4>1
    <3> QED BY <1>8, <3>2, <3>3 DEF Run
  <2>5. codePhase' = 0 /\ dopplerFrequency' = 0
    BY <2>1, <2>2, <2>3, <2>4 DEF SearchKept
  <2>6. CASE ScaleIdft
    <3>1. pc' = "max" /\ f' = 0 /\ n' = 0 /\ sMax' = 0
      <4>1. pc' # "undefined"
        BY <2>1 DEF Running
      <4> QED BY <2>6, <4>1 DEF ScaleIdft, Undefined
    <3>2. Scan!Inputs'
      BY <2>1, <2>5, <3>1, SearchInputsNext
    <3>3. Scan!Start'
      BY <3>1 DEF Scan!Start
    <3>4. Scan!TypeOK' /\ Scan!PeakOfScanned'
      BY <3>2, <3>3, SearchStart
    <3> QED BY <2>5, <3>1, <3>4 DEF SearchKept
  <2>7. CASE ~ ScaleIdft
    <3>1. CASE ComputeX \/ ComputeR
      <4>1. pc' \notin {"max", "estimate"}
        BY <3>1 DEF ComputeX, ComputeR, Undefined
      <4> QED BY <2>5, <4>1 DEF SearchKept
    <3>2. CASE Fft
      <4>1. pc' \notin {"max", "estimate"}
        <5>1. CASE Undefined
          BY <5>1 DEF Undefined
        <5>2. CASE UNCHANGED <<pc, codes, matrices, f>>
          BY <2>4, <5>2
        <5>3. ASSUME NEW v, Replace(v) PROVE pc' \notin {"max", "estimate"}
          BY <2>4, <5>3 DEF Replace
        <5>4. \/ Undefined \/ UNCHANGED <<pc, codes, matrices, f>>
              \/ \E v : Replace(v)
          <6> HIDE DEF SearchKept
          <6> QED BY <3>2 DEF Fft, FftByRadix2, ChirpSignal, ConvolutionSpectra,
                              ConvolutionProduct, UnchirpResult, search
        <5> QED BY <5>1, <5>2, <5>3, <5>4
      <4> QED BY <2>5, <4>1 DEF SearchKept
    <3> QED BY <1>8, <2>7, <3>1, <3>2 DEF Run
  <2> QED BY <2>6, <2>7
<1>9. CASE UNCHANGED vars
  <2>1. /\ UNCHANGED <<pc, f, n, sMax, codePhase, dopplerFrequency, legal>>
        /\ UNCHANGED <<sampleCount, testFreqCount, testFrequencies, rMatrix>>
    BY <1>9 DEF vars, entered, tested, matrices, search, ghosts
  <2>2. UNCHANGED Scan!vars
    BY <2>1 DEF Scan!vars, Scan!inputs
  <2>3. Scan!TypeOK /\ Scan!PeakOfScanned => Scan!TypeOK' /\ Scan!PeakOfScanned'
    BY <2>2, Scan!TypeStep, Scan!PeakStep
  <2> QED BY <2>1, <2>3 DEF SearchKept, Running
<1> QED BY <1>1, <1>2, <1>3, <1>4, <1>5, <1>6, <1>7, <1>8, <1>9 DEF Next, Run

-------------------------------------------------------------------------------
(* The promise *)

\* The cells of a search, its best ones and the first of them.
Cells(F, c) == (1 .. F) \X (0 .. c - 1)
Best(F, c, power) == {e \in Cells(F, c) : \A d \in Cells(F, c) : power[d] <= power[e]}
First(F, c, power) ==
    CHOOSE e \in Best(F, c, power) :
        \A d \in Best(F, c, power) : e[1] < d[1] \/ (e[1] = d[1] /\ e[2] <= d[2])

\* A cell that no other exceeds and no earlier one reaches is the first best one.
LEMMA FirstIs ==
    ASSUME NEW F \in Nat, NEW c \in Nat, NEW power, NEW b \in Cells(F, c),
           \A d \in Cells(F, c) : power[d] \in Nat /\ power[d] <= power[b],
           \A d \in Cells(F, c) : d[1] < b[1] \/ (d[1] = b[1] /\ d[2] < b[2])
                                    => power[d] < power[b]
    PROVE  First(F, c, power) = b
<1> DEFINE Before(e, d) == e[1] < d[1] \/ (e[1] = d[1] /\ e[2] <= d[2])
           S == Best(F, c, power)
<1>1. b \in S
  BY DEF Best
<1>2. \A e \in S : e \in Cells(F, c) /\ power[e] = power[b]
  <2> SUFFICES ASSUME NEW e \in S PROVE e \in Cells(F, c) /\ power[e] = power[b]
    OBVIOUS
  <2>1. e \in Cells(F, c) /\ power[b] <= power[e]
    BY DEF Best
  <2>2. power[e] \in Nat /\ power[b] \in Nat /\ power[e] <= power[b]
    BY <2>1
  <2> QED BY <2>1, <2>2, SMT
<1>3. \A e \in Cells(F, c) : e[1] \in Int /\ e[2] \in Int /\ e = <<e[1], e[2]>>
  BY SMT DEF Cells
<1>4. ASSUME NEW d \in S PROVE Before(b, d)
  <2>1. d \in Cells(F, c) /\ power[d] = power[b] /\ power[b] \in Nat
    BY <1>2
  <2>2. ~ (power[d] < power[b])
    BY <2>1, SMT
  <2>3. ~ (d[1] < b[1] \/ (d[1] = b[1] /\ d[2] < b[2]))
    BY <2>1, <2>2
  <2>4. d[1] \in Int /\ d[2] \in Int /\ b[1] \in Int /\ b[2] \in Int
    BY <1>3, <2>1
  <2> QED BY <2>3, <2>4, SMT
<1>5. ASSUME NEW e \in S, \A d \in S : Before(e, d) PROVE e = b
  <2>1. Before(e, b) /\ Before(b, e)
    BY <1>1, <1>4, <1>5
  <2>2. /\ e[1] \in Int /\ e[2] \in Int /\ b[1] \in Int /\ b[2] \in Int
        /\ e = <<e[1], e[2]>> /\ b = <<b[1], b[2]>>
    BY <1>2, <1>3
  <2>3. e[1] = b[1] /\ e[2] = b[2]
    <3> DEFINE e1 == e[1]
               e2 == e[2]
               b1 == b[1]
               b2 == b[2]
    <3>1. (e1 < b1 \/ (e1 = b1 /\ e2 <= b2)) /\ (b1 < e1 \/ (b1 = e1 /\ b2 <= e2))
      BY <2>1
    <3>2. e1 \in Int /\ e2 \in Int /\ b1 \in Int /\ b2 \in Int
      BY <2>2
    <3> HIDE DEF e1, e2, b1, b2
    <3>3. e1 = b1 /\ e2 = b2
      BY <3>1, <3>2, SMT
    <3> QED BY <3>3 DEF e1, e2, b1, b2
  <2> QED BY <2>2, <2>3
<1>6. First(F, c, power) = CHOOSE e \in S : \A d \in S : Before(e, d)
  BY DEF First
<1> HIDE DEF S, Before
<1> QED BY <1>1, <1>4, <1>5, <1>6

\* The promise computes with the arithmetic of the model.
LEMMA PromiseArithmetic ==
    /\ \A a, b : Promise!Mul(a, b) = Mul(a, b)
    /\ \A a : Promise!Conj(a) = Conj(a) /\ Promise!Norm(a) = Norm(a)
    /\ \A x : Promise!Recip(x) = Recip(x)
    /\ \A a, x : Promise!Scale(a, x) = Scale(a, x)
    /\ \A x, len : Promise!Total(x, len) = Total(x, len)
    /\ \A k, len : Promise!Phasor(k, len) = Phasor(k, len)
<1>1. /\ \A a, b : Promise!Mul(a, b) = Mul(a, b)
      /\ \A a : Promise!Conj(a) = Conj(a) /\ Promise!Norm(a) = Norm(a)
      /\ \A x : Promise!Recip(x) = Recip(x)
      /\ \A a, x : Promise!Scale(a, x) = Scale(a, x)
  BY Zenon DEF Promise!Mul, Mul, Promise!Conj, Conj, Promise!Norm, Norm, Promise!Recip, Recip,
               Promise!Scale, Scale
<1>2. \A x, len : Promise!Total(x, len) = Total(x, len)
  BY Zenon DEF Promise!Total, Total, Promise!Add, Add, Promise!Zero, Zero
<1>3. \A k, len : Promise!Phasor(k, len) = Phasor(k, len)
  BY Zenon DEF Promise!Phasor, Phasor, Promise!Circle, Circle, Promise!Mul, Mul, Promise!One, One
<1> QED BY <1>1, <1>2, <1>3

\* The samples the promise speaks of are those in the object.
LEMMA SamplesAre ==
    ASSUME TypeOK, InputsKept, legal
    PROVE  /\ SamplesEntered \in Seq(Complex) /\ Len(SamplesEntered) = sampleCount
           /\ \A k \in 0 .. sampleCount - 1 : SamplesEntered[k + 1] = samples[k]
<1>1. sampleCount \in Nat
  BY SMT DEF TypeOK
<1>2. \A k \in 1 .. sampleCount : samples[k - 1] \in Complex
  <2> SUFFICES ASSUME NEW k \in 1 .. sampleCount PROVE samples[k - 1] \in Complex
    OBVIOUS
  <2>1. k - 1 \in 0 .. sampleCount - 1
    BY <1>1, SMT
  <2> QED BY <2>1 DEF InputsKept
<1>3. SamplesEntered \in Seq(Complex) /\ Len(SamplesEntered) = sampleCount
  BY <1>1, <1>2, SMT DEF SamplesEntered
<1>4. ASSUME NEW k \in 0 .. sampleCount - 1 PROVE SamplesEntered[k + 1] = samples[k]
  <2>1. k + 1 \in 1 .. sampleCount /\ (k + 1) - 1 = k
    BY <1>1, SMT
  <2> QED BY <2>1 DEF SamplesEntered
<1> QED BY <1>3, <1>4

\* The correlation power of the promise is the power the search looks at.
LEMMA PowerPromised ==
    ASSUME TypeOK, InputsKept, ContractKept, legal, Running,
           NEW g \in 0 .. testFreqCount - 1, NEW k \in 0 .. sampleCount - 1
    PROVE  Promise!CorrelationPower(testFrequencies[g], k) = Norm(CorrelationRow(g)[k])
<1> DEFINE c == sampleCount
           x == LoweredRow(g)
           freq == testFrequencies[g]
           u == [s \in 0 .. c - 1 |-> Mul(Promise!Lowered(freq, (s + k) % c), Conj(given[s + 1]))]
           v == [s \in 0 .. c - 1 |-> Mul(x[(s + k) % c], Conj(CodeRow[s]))]
<1>1. c \in Nat /\ c > 0
  BY ContractLength
<1>2. Len(SamplesEntered) = c /\ \A t \in 0 .. c - 1 : SamplesEntered[t + 1] = samples[t]
  BY SamplesAre
<1>3. Promise!Correlation(freq, k) = Total(u, c)
  BY <1>2, PromiseArithmetic DEF Promise!Correlation, CodesEntered
<1>4. \A t \in 0 .. c - 1 : Promise!Lowered(freq, t) = x[t]
  <2> SUFFICES ASSUME NEW t \in 0 .. c - 1 PROVE Promise!Lowered(freq, t) = x[t]
    OBVIOUS
  <2>1. Promise!Lowered(freq, t) = Mul(SamplesEntered[t + 1], Conj(Phasor(freq * t, F_S)))
    BY PromiseArithmetic DEF Promise!Lowered
  <2> QED BY <1>2, <2>1 DEF LoweredRow
<1>5. \A s \in 0 .. c - 1 : u[s] = v[s]
  <2> SUFFICES ASSUME NEW s \in 0 .. c - 1 PROVE u[s] = v[s]
    OBVIOUS
  <2>1. s + k \in Int
    BY SMT
  <2>2. (s + k) % c \in 0 .. c - 1
    BY <1>1, <2>1, DivMod
  <2>3. CodeRow[s] = given[s + 1]
    BY DEF CodeRow
  <2> QED BY <1>4, <2>2, <2>3
<1>6. CorrelationRow(g)[k] = Scale(Total(v, c), Recip(c))
  BY DEF CorrelationRow, CircularCorrelation
<1> HIDE DEF u, v
<1>7. Total(u, c) = Total(v, c)
  BY <1>1, <1>5, TotalSame
<1>8. Promise!CorrelationPower(freq, k) = Norm(Scale(Promise!Correlation(freq, k), Recip(c)))
  BY <1>2, PromiseArithmetic DEF Promise!CorrelationPower
<1> QED BY <1>3, <1>6, <1>7, <1>8

\* estimatePIn computes the mean power of the promise.
LEMMA MeanPromised ==
    ASSUME TypeOK, InputsKept, ContractKept, legal, Running
    PROVE  Promise!MeanPower = EstimatePIn /\ EstimatePIn \in Nat
<1> DEFINE c == sampleCount
           u == [k \in 0 .. c - 1 |-> <<Norm(SamplesEntered[k + 1]), 0>>]
           v == [k \in 0 .. c - 1 |-> <<Norm(samples[k]), 0>>]
<1>1. c \in Nat /\ c > 0 /\ c % P # 0
  BY ContractLength
<1>2. Len(SamplesEntered) = c /\ \A t \in 0 .. c - 1 : SamplesEntered[t + 1] = samples[t]
  BY SamplesAre
<1>3. Promise!MeanPower = (Recip(c) * Total(u, c)[1]) % P
  BY <1>2, PromiseArithmetic DEF Promise!MeanPower
<1>4. EstimatePIn = (Recip(c) * Total(v, c)[1]) % P
  BY DEF EstimatePIn
<1>5. \A k \in 0 .. c - 1 : u[k] = v[k]
  BY <1>2
<1>6. \A k \in 0 .. c - 1 : v[k] \in Complex
  <2> SUFFICES ASSUME NEW k \in 0 .. c - 1 PROVE v[k] \in Complex
    OBVIOUS
  <2>1. samples[k] \in Complex
    BY DEF InputsKept
  <2>2. Norm(samples[k]) \in Scalar /\ 0 \in Scalar
    BY <2>1, PairTypes, PFacts, SMT DEF Scalar
  <2> QED BY <2>2 DEF Complex
<1> HIDE DEF u, v
<1>7. Total(u, c) = Total(v, c) /\ Total(v, c) \in Complex
  BY <1>1, <1>5, <1>6, TotalSame, TotalType
<1>8. Recip(c) \in Int /\ Total(v, c)[1] \in Int
  <2>1. c \in Int
    BY <1>1
  <2> QED BY <1>1, <1>7, <2>1, RecipPair, PairFacts
<1>9. EstimatePIn \in Nat
  <2> DEFINE m == Recip(c) * Total(v, c)[1]
  <2>1. m \in Int
    BY <1>8, SMT
  <2>2. EstimatePIn = m % P
    BY <1>4
  <2> HIDE DEF m
  <2>3. m % P \in 0 .. P - 1
    BY <2>1, PFacts, DivMod, SMT
  <2> QED BY <2>2, <2>3, PFacts, SMT
<1> QED BY <1>3, <1>4, <1>7, <1>9

\* What the search reports when it has seen every row is the answer promised.
LEMMA AnswerPromised ==
    ASSUME TypeOK, InputsKept, ContractKept, ResultsKept, SearchKept, legal, pc = "estimate",
           NEW freqs \in Frequencies, Len(freqs) = testFreqCount,
           \A g \in 0 .. testFreqCount - 1 : testFrequencies[g] = freqs[g + 1]
    PROVE  Promise!Answer(freqs)
             = [acquired |-> /\ sampleCount > 0
                             /\ ThresholdDen * sMax > ThresholdNum * EstimatePIn,
                codePhase |-> codePhase,
                dopplerFrequency |-> dopplerFrequency]
<1> DEFINE c == sampleCount
           F == testFreqCount
           power == [e \in Cells(F, c) |-> Promise!CorrelationPower(freqs[e[1]], e[2])]
           loud == ThresholdDen * sMax > ThresholdNum * EstimatePIn
<1>1. Running /\ c \in Nat /\ c > 0 /\ F \in Nat
  <2>1. Running /\ F \in Nat
    BY DEF Running, TypeOK
  <2> QED BY <2>1, ContractLength
<1>2. Len(SamplesEntered) = c
  BY SamplesAre
<1>3. Promise!MeanPower = EstimatePIn /\ EstimatePIn \in Nat
  BY <1>1, MeanPromised
<1>4. Promise!Answer(freqs)
        = IF \A e \in Cells(F, c) : power[e] = 0 THEN NoAnswer
          ELSE [acquired |-> ThresholdDen * power[First(F, c, power)] > ThresholdNum * EstimatePIn,
                codePhase |-> First(F, c, power)[2],
                dopplerFrequency |-> freqs[First(F, c, power)[1]]]
  BY <1>2, <1>3, Zenon DEF Promise!Answer, Promise!NoAnswer, NoAnswer, First, Best, Cells
\* The powers of the promise are those of the rows the search has looked at.
<1>5. Scan!TypeOK /\ Scan!PeakOfScanned /\ f = F
  BY DEF SearchKept
<1>6. sMax \in Nat
  BY <1>5 DEF Scan!TypeOK
<1>7. ASSUME NEW g \in 0 .. F - 1, NEW k \in 0 .. c - 1
      PROVE  /\ <<g + 1, k>> \in Cells(F, c)
             /\ power[<<g + 1, k>>] = Scan!Power(<<g, k>>)
             /\ Scan!Power(<<g, k>>) \in Nat
             /\ <<g, k>> \in Scan!Scanned
  <2>1. g + 1 \in 1 .. F /\ <<g + 1, k>> \in Cells(F, c)
    BY <1>1, SMT DEF Cells
  <2>2. power[<<g + 1, k>>] = Promise!CorrelationPower(freqs[g + 1], k)
    BY <2>1
  <2>3. freqs[g + 1] = testFrequencies[g]
    OBVIOUS
  <2>4. Promise!CorrelationPower(testFrequencies[g], k) = Norm(CorrelationRow(g)[k])
    BY <1>1, PowerPromised
  <2>5. Scan!Power(<<g, k>>) = Norm(rMatrix[g * N_SAMPLES + k])
    BY DEF Scan!Power
  <2>6. rMatrix[g * N_SAMPLES + k] = CorrelationRow(g)[k]
    BY DEF ResultsKept, RowIs
  <2>7. Norm(CorrelationRow(g)[k]) \in Nat
    BY <1>1, CorrelationTypes
  <2>8. <<g, k>> \in Scan!Scanned
    <3>1. Scan!Precedes(<<g, k>>, <<f, n>>)
      BY <1>1, <1>5, SMT DEF Scan!Precedes
    <3> QED BY <3>1 DEF Scan!Scanned
  <2> QED BY <2>1, <2>2, <2>3, <2>4, <2>5, <2>6, <2>7, <2>8
<1>8. ASSUME NEW e \in Cells(F, c)
      PROVE  \E g \in 0 .. F - 1, k \in 0 .. c - 1 : e = <<g + 1, k>>
  <2>1. e[1] \in 1 .. F /\ e[2] \in 0 .. c - 1 /\ e = <<e[1], e[2]>>
    BY SMT DEF Cells
  <2>2. e[1] - 1 \in 0 .. F - 1 /\ e[1] = (e[1] - 1) + 1
    BY <1>1, <2>1, SMT
  <2> QED BY <2>1, <2>2
<1> HIDE DEF power
<1>9. ASSUME NEW e \in Cells(F, c) PROVE power[e] \in Nat /\ power[e] <= sMax
  <2>1. PICK g \in 0 .. F - 1, k \in 0 .. c - 1 : e = <<g + 1, k>>
    BY <1>8
  <2> QED BY <1>5, <1>7, <2>1 DEF Scan!PeakOfScanned
<1>10. CASE sMax = 0
  <2>1. \A e \in Cells(F, c) : power[e] = 0
    BY <1>9, <1>10, SMT
  <2>2. codePhase = 0 /\ dopplerFrequency = 0
    BY <1>1, <1>10 DEF SearchKept
  <2>3. ~ loud
    <3> DEFINE q == ThresholdNum * EstimatePIn
    <3>1. ThresholdDen \in Nat /\ ThresholdNum \in Nat
      BY AcquisitionAssumption
    <3>2. q \in Nat
      BY <1>3, <3>1, SMT
    <3>3. ThresholdDen * 0 = 0
      BY <3>1, SMT
    <3> HIDE DEF q
    <3>4. ~ (0 > q)
      BY <3>2, SMT
    <3> QED BY <1>10, <3>3, <3>4 DEF q
  <2> HIDE DEF loud
  <2>4. Promise!Answer(freqs) = NoAnswer
    BY <1>4, <2>1
  <2> QED BY <2>2, <2>3, <2>4 DEF NoAnswer, loud
<1>11. CASE sMax # 0
  <2>1. sMax > 0
    BY <1>6, <1>11, SMT
  <2>2. PICK a \in Scan!Scanned :
          /\ Scan!Power(a) = sMax
          /\ codePhase = a[2]
          /\ dopplerFrequency = [g \in 0 .. testFreqCount - 1 |-> testFrequencies[g]][a[1]]
          /\ \A d \in Scan!Scanned : Scan!Precedes(d, a) => Scan!Power(d) < sMax
    BY <1>5, <2>1 DEF Scan!PeakOfScanned
  <2>3. PICK g \in 0 .. F - 1, k \in 0 .. c - 1 : a = <<g, k>>
    BY DEF Scan!Scanned
  <2> DEFINE b == <<g + 1, k>>
  <2>4. /\ b \in Cells(F, c) /\ power[b] = sMax /\ b[1] = g + 1 /\ b[2] = k
        /\ codePhase = b[2] /\ dopplerFrequency = freqs[b[1]]
    BY <1>7, <2>2, <2>3
  <2>5. ASSUME NEW d \in Cells(F, c), d[1] < b[1] \/ (d[1] = b[1] /\ d[2] < b[2])
        PROVE  power[d] < power[b]
    <3>1. PICK h \in 0 .. F - 1, l \in 0 .. c - 1 : d = <<h + 1, l>>
      BY <1>8
    <3>2. h < g \/ (h = g /\ l < k)
      <4>1. h + 1 < g + 1 \/ (h + 1 = g + 1 /\ l < k)
        BY <2>4, <2>5, <3>1
      <4> QED BY <1>1, <4>1, SMT
    <3>3. Scan!Precedes(<<h, l>>, a)
      BY <2>3, <3>2 DEF Scan!Precedes
    <3> QED BY <1>7, <2>2, <2>4, <3>1, <3>3
  <2>6. First(F, c, power) = b
    <3>1. \A d \in Cells(F, c) : power[d] \in Nat /\ power[d] <= power[b]
      BY <1>9, <2>4
    <3> HIDE DEF b
    <3> QED BY <1>1, <2>4, <2>5, <3>1, FirstIs
  <2>7. ~ \A e \in Cells(F, c) : power[e] = 0
    BY <1>11, <2>4
  <2> HIDE DEF b
  <2>8. Promise!Answer(freqs)
          = [acquired |-> loud, codePhase |-> codePhase, dopplerFrequency |-> dopplerFrequency]
    BY <1>4, <2>4, <2>6, <2>7
  <2>9. loud = (c > 0 /\ loud)
    <3> DEFINE u == ThresholdDen * sMax
               w == ThresholdNum * EstimatePIn
    <3> HIDE DEF u, w
    <3>1. (u > w) = (c > 0 /\ u > w)
      BY <1>1, SMT
    <3> QED BY <3>1 DEF u, w
  <2> QED BY <2>8, <2>9
<1> QED BY <1>10, <1>11

\* Before the allocation nothing has been handed over.
Untouched == pc = "none" => legal /\ starts = 0 /\ sampleCount = 0

\* Before the allocation nothing is entered, and no call comes back to it.
LEMMA UntouchedStep == TypeOK /\ NoStartYet /\ Untouched /\ [Next]_vars => Untouched'
<1> SUFFICES ASSUME TypeOK, Untouched, [Next]_vars, pc' = "none"
             PROVE  (legal /\ starts = 0 /\ sampleCount = 0)'
  BY DEF Untouched
<1>1. CASE UNCHANGED vars
  BY <1>1 DEF vars, entered, ghosts, Untouched
<1>2. ~ Run
  BY RunKeeps
<1>3. ~ \E capacity \in Capacities : AllocateAcquisition(capacity)
  BY DEF AllocateAcquisition
<1>4. ~ \E freqs \in Frequencies : StartAcquisition(freqs)
  BY DEF StartAcquisition
<1>5. /\ ~ \E v \in SampleValues : EnterSample(v)
      /\ ~ \E v \in CodeValues : EnterCode(v)
  BY DEF EnterSample, EnterCode
<1>6. ~ DeleteAcquisition
  BY DEF DeleteAcquisition
<1> QED BY <1>1, <1>2, <1>3, <1>4, <1>5, <1>6 DEF Next

\* The phases of the promise.
PhaseMatches ==
    /\ pc = "none" => Phase = "none"
    /\ pc = "deleted" => Phase = "deleted"
    /\ pc \notin {"none", "deleted"} /\ ~ legal => Phase = "unspecified"
    /\ pc \notin {"none", "deleted"} /\ legal /\ (starts = 0 \/ Running) => Phase = "open"
    /\ pc \notin {"none", "deleted"} /\ legal /\ ~ (starts = 0 \/ Running) => Phase = "answered"

\* The phase that the mapping gives each state of the object.
LEMMA PhaseIs == PhaseMatches
<1> USE DEF PhaseMatches
<1>1. CASE pc \in {"none", "deleted"}
  <2>1. Phase = pc
    BY <1>1, Zenon DEF Phase
  <2> QED BY <1>1, <2>1
<1>2. CASE pc \notin {"none", "deleted"}
  <2>1. CASE ~ legal
    BY <1>2, <2>1, Zenon DEF Phase
  <2>2. CASE legal /\ (starts = 0 \/ Running)
    BY <1>2, <2>2, Zenon DEF Phase
  <2>3. CASE legal /\ ~ (starts = 0 \/ Running)
    BY <1>2, <2>3, Zenon DEF Phase
  <2> QED BY <1>2, <2>1, <2>2, <2>3
<1> QED BY <1>1, <1>2

\* The same of the next state.
LEMMA PhaseIsNext == PhaseMatches'
BY PhaseIs, PTL

SamplesMatch == SamplesEntered \in Seq(Complex) /\ Len(SamplesEntered) = sampleCount

\* SamplesAre of the next state.
LEMMA SamplesAreNext == TypeOK' /\ InputsKept' /\ legal' => SamplesMatch'
<1>1. TypeOK /\ InputsKept /\ legal => SamplesMatch
  BY SamplesAre DEF SamplesMatch
<1> QED BY <1>1, PTL

\* An object outside the contract stays there until it is deleted.
LEMMA UnspecifiedStutters ==
    ASSUME ~ legal, ~ legal', pc \notin {"none", "deleted"}, pc' \notin {"none", "deleted"},
           nrOfSamples' = nrOfSamples
    PROVE  UNCHANGED Promise!absVars
BY PhaseIs, PhaseIsNext DEF PhaseMatches, Promise!absVars, SamplesEntered, CodesEntered, AnswerGiven

\* Leaving the contract.
LEMMA ContractLeft ==
    ASSUME ~ legal', pc' \notin {"none", "deleted"}, nrOfSamples' = nrOfSamples
    PROVE  Promise!Unspecified
BY PhaseIsNext DEF PhaseMatches, Promise!Unspecified, Promise!NoAnswer, NoAnswer, SamplesEntered, CodesEntered,
                   AnswerGiven

\* The calls of a caller.
LEMMA AllocateKeepsPromise ==
    ASSUME TypeOK, InputsKept, Untouched, NEW capacity \in Capacities,
           AllocateAcquisition(capacity)
    PROVE  Promise!AbsAllocate
<1>1. /\ pc = "none" /\ pc' = "ready" /\ nrOfSamples' = capacity
      /\ legal /\ legal' /\ starts' = 0 /\ sampleCount = 0 /\ sampleCount' = 0
      /\ UNCHANGED <<given, answer>>
  BY DEF AllocateAcquisition, Untouched
<1>2. capacity \in Nat
  BY AcquisitionAssumption
<1>3. Phase = "none" /\ Phase' = "open"
  BY <1>1, PhaseIs, PhaseIsNext DEF PhaseMatches
<1>4. SamplesEntered' = SamplesEntered
  <2>1. 1 .. sampleCount = {} /\ 1 .. sampleCount' = {}
    BY <1>1, SMT
  <2> QED BY <1>1, <2>1 DEF SamplesEntered
<1>5. CodesEntered' = CodesEntered /\ AnswerGiven' = AnswerGiven
  BY <1>1 DEF CodesEntered, AnswerGiven
<1> QED BY <1>1, <1>2, <1>3, <1>4, <1>5 DEF Promise!AbsAllocate

\* One more sample, or a call beyond the room, after which nothing is promised.
LEMMA EnterSampleKeepsPromise ==
    ASSUME TypeOK, InputsKept, TypeOK', InputsKept', NEW v \in SampleValues, EnterSample(v)
    PROVE  Promise!AbsEnterSample \/ UNCHANGED Promise!absVars
<1>1. pc = "ready" /\ nrOfSamples' = nrOfSamples
  BY DEF EnterSample
<1>2. CASE ~ legal
  <2>1. ~ legal' /\ pc' \in {"ready", "undefined"}
    BY <1>2 DEF EnterSample, ghosts
  <2> QED BY <1>1, <1>2, <2>1, UnspecifiedStutters
<1>3. CASE legal
  <2>1. Phase \in {"open", "answered"}
    BY <1>1, <1>3, PhaseIs DEF PhaseMatches
  <2>2. Len(SamplesEntered) = sampleCount /\ SamplesEntered \in Seq(Complex)
    BY <1>3, SamplesAre
  <2>3. CASE sampleCount < nrOfSamples
    <3>1. /\ samples' = [samples EXCEPT ![sampleCount] = v] /\ sampleCount' = sampleCount + 1
          /\ UNCHANGED <<pc, nrOfSamples, given, legal, starts, answer>>
      BY <2>3 DEF EnterSample, ghosts
    <3>2. Phase' = Phase
      BY <1>1, <1>3, <3>1, PhaseIs, PhaseIsNext DEF PhaseMatches, Running
    <3>3. SamplesEntered' = Append(SamplesEntered, v)
      <4>1. sampleCount \in Nat /\ DOMAIN samples = 0 .. nrOfSamples - 1 /\ nrOfSamples \in Nat
        BY <1>1, SMT DEF TypeOK
      <4>2. v \in Complex
        BY AcquisitionAssumption
      <4>3. /\ Append(SamplesEntered, v) \in Seq(Complex)
            /\ Len(Append(SamplesEntered, v)) = sampleCount + 1
            /\ \A i \in 1 .. sampleCount + 1 :
                  Append(SamplesEntered, v)[i]
                    = IF i <= sampleCount THEN SamplesEntered[i] ELSE v
        BY <2>2, <4>1, <4>2, SMT
      <4>4. SamplesEntered' \in Seq(Complex) /\ Len(SamplesEntered') = sampleCount + 1
        BY <1>3, <3>1, SamplesAreNext DEF SamplesMatch
      <4>5. ASSUME NEW i \in 1 .. sampleCount + 1
            PROVE  SamplesEntered'[i] = IF i <= sampleCount THEN SamplesEntered[i] ELSE v
        <5>1. SamplesEntered'[i] = samples'[i - 1]
          BY <1>3, <3>1 DEF SamplesEntered
        <5>2. CASE i <= sampleCount
          <6>1. i \in 1 .. sampleCount /\ i - 1 # sampleCount /\ i - 1 \in DOMAIN samples
            BY <2>3, <4>1, <5>2, SMT
          <6>2. SamplesEntered[i] = samples[i - 1]
            BY <1>3, <6>1 DEF SamplesEntered
          <6> QED BY <3>1, <5>1, <5>2, <6>1, <6>2
        <5>3. CASE ~ (i <= sampleCount)
          <6>1. i - 1 = sampleCount /\ sampleCount \in DOMAIN samples
            BY <2>3, <4>1, <5>3, SMT
          <6> QED BY <3>1, <5>1, <5>3, <6>1
        <5> QED BY <5>2, <5>3
      <4> QED BY <4>1, <4>3, <4>4, <4>5, SeqEqual
    <3>4. CodesEntered' = CodesEntered /\ AnswerGiven' = AnswerGiven
      BY <3>1 DEF CodesEntered, AnswerGiven
    <3>5. Promise!AbsEnterSample
      BY <2>1, <2>2, <2>3, <3>1, <3>2, <3>3, <3>4 DEF Promise!AbsEnterSample
    <3> QED BY <3>5
  <2>4. CASE ~ (sampleCount < nrOfSamples)
    <3>1. ~ legal' /\ pc' = "undefined"
      BY <2>4 DEF EnterSample
    <3>2. Promise!Unspecified
      BY <1>1, <3>1, ContractLeft
    <3> QED BY <2>1, <2>2, <2>4, <3>2 DEF Promise!AbsEnterSample
  <2> QED BY <2>3, <2>4
<1> QED BY <1>2, <1>3

\* One more code, or a call beyond the room.
LEMMA EnterCodeKeepsPromise ==
    ASSUME TypeOK, InputsKept, NEW v \in CodeValues, EnterCode(v)
    PROVE  Promise!AbsEnterCode \/ UNCHANGED Promise!absVars
<1>1. pc = "ready" /\ nrOfSamples' = nrOfSamples
  BY DEF EnterCode
<1>2. CASE ~ legal
  <2>1. ~ legal' /\ pc' \in {"ready", "undefined"}
    BY <1>2 DEF EnterCode, ghosts
  <2> QED BY <1>1, <1>2, <2>1, UnspecifiedStutters
<1>3. CASE legal
  <2>1. Phase \in {"open", "answered"}
    BY <1>1, <1>3, PhaseIs DEF PhaseMatches
  <2>2. Len(CodesEntered) = codesCount
    BY <1>3 DEF CodesEntered, InputsKept
  <2>3. CASE codesCount < nrOfSamples
    <3>1. /\ given' = Append(given, v)
          /\ UNCHANGED <<pc, nrOfSamples, sampleCount, samples, legal, starts, answer>>
      BY <2>3 DEF EnterCode, ghosts
    <3>2. Phase' = Phase
      BY <1>1, <1>3, <3>1, PhaseIs, PhaseIsNext DEF PhaseMatches, Running
    <3>3. CodesEntered' = Append(CodesEntered, v)
      BY <1>3, <3>1 DEF CodesEntered
    <3>4. SamplesEntered' = SamplesEntered /\ AnswerGiven' = AnswerGiven
      BY <3>1 DEF SamplesEntered, AnswerGiven
    <3>5. Promise!AbsEnterCode
      BY <2>1, <2>2, <2>3, <3>1, <3>2, <3>3, <3>4 DEF Promise!AbsEnterCode
    <3> QED BY <3>5
  <2>4. CASE ~ (codesCount < nrOfSamples)
    <3>1. ~ legal' /\ pc' = "undefined"
      BY <2>4 DEF EnterCode
    <3>2. Promise!Unspecified
      BY <1>1, <3>1, ContractLeft
    <3> QED BY <2>1, <2>2, <2>4, <3>2 DEF Promise!AbsEnterCode
  <2> QED BY <2>3, <2>4
<1> QED BY <1>2, <1>3

\* The two statements of the contract agree.
LEMMA ContractsAgree ==
    ASSUME TypeOK, InputsKept, legal, pc = "ready", NEW freqs
    PROVE  Promise!InContract(freqs) <=> InContract(freqs)
<1>1. Len(SamplesEntered) = sampleCount /\ Len(CodesEntered) = codesCount
  BY SamplesAre DEF CodesEntered, InputsKept
<1>2. Promise!PowerOfTwo(sampleCount) <=> PowerOfTwo(sampleCount)
  BY DEF Promise!PowerOfTwo, PowerOfTwo
<1>3. Phase = "open" <=> starts = 0
  <2>1. ~ Running
    BY DEF Running
  <2> QED BY <2>1, PhaseIs DEF PhaseMatches
<1> QED BY <1>1, <1>2, <1>3 DEF Promise!InContract, InContract, LengthSupported

\* A start within the contract has not answered yet; one outside it leaves the
\* contract.
LEMMA StartKeepsPromise ==
    ASSUME TypeOK, InputsKept, NEW freqs \in Frequencies, StartAcquisition(freqs)
    PROVE  Promise!AbsStart \/ UNCHANGED Promise!absVars
<1>1. /\ pc = "ready" /\ pc' \in {"computeX", "undefined"}
      /\ UNCHANGED <<nrOfSamples, sampleCount, samples, given, answer>>
      /\ legal' <=> legal /\ InContract(freqs)
  BY DEF StartAcquisition, entered
<1>2. CASE ~ legal
  BY <1>1, <1>2, UnspecifiedStutters
<1>3. CASE legal /\ InContract(freqs)
  <2>1. legal' /\ starts = 0 /\ pc' = "computeX" /\ Running'
    BY <1>1, <1>3 DEF InContract, StartAcquisition, Running
  <2>2. Phase = "open" /\ Phase' = "open"
    BY <1>1, <1>3, <2>1, PhaseIs, PhaseIsNext DEF PhaseMatches
  <2> QED BY <1>1, <1>3, <2>1, <2>2
          DEF Promise!absVars, SamplesEntered, CodesEntered, AnswerGiven
<1>4. CASE legal /\ ~ InContract(freqs)
  <2>1. Promise!Unspecified
    BY <1>1, <1>4, ContractLeft
  <2>2. Phase \in {"open", "answered"}
    BY <1>1, <1>4, PhaseIs DEF PhaseMatches
  <2>3. ~ Promise!InContract(freqs)
    BY <1>1, <1>4, ContractsAgree
  <2> QED BY <2>1, <2>2, <2>3 DEF Promise!AbsStart
<1> QED BY <1>2, <1>3, <1>4

\* A deletion is one whatever was answered.
LEMMA DeleteKeepsPromise ==
    ASSUME DeleteAcquisition
    PROVE  Promise!AbsDelete
<1>1. /\ pc = "ready" /\ pc' = "deleted"
      /\ UNCHANGED <<nrOfSamples, sampleCount, samples, given, legal, answer>>
  BY DEF DeleteAcquisition, entered
<1>2. Phase \in {"open", "answered", "unspecified"} /\ Phase' = "deleted"
  BY <1>1, PhaseIs, PhaseIsNext DEF PhaseMatches
<1> QED BY <1>1, <1>2 DEF Promise!AbsDelete, SamplesEntered, CodesEntered, AnswerGiven

\* The stages of a start, and its end.
LEMMA RunKeepsPromise ==
    ASSUME TypeOK, InputsKept, ContractKept, FieldsAreCandidate, ResultsKept, SearchKept,
           DefinedWithinContract', Run
    PROVE  Promise!AbsStart \/ UNCHANGED Promise!absVars
<1>1. /\ UNCHANGED <<nrOfSamples, entered, tested, starts, legal>> /\ Running
      /\ Running' \/ pc' \in {"undefined", "ready"}
  BY RunKeeps
<1>2. UNCHANGED <<sampleCount, samples, given>>
  BY <1>1 DEF entered
<1>3. pc \notin {"none", "deleted"} /\ pc' \notin {"none", "deleted"} /\ starts # 0
  <2>1. pc \notin {"none", "deleted"}
    BY <1>1 DEF Running
  <2>2. pc' \notin {"none", "deleted"}
    BY <1>1 DEF Running
  <2>3. starts # 0
    BY <1>1 DEF FieldsAreCandidate
  <2> QED BY <2>1, <2>2, <2>3
<1>4. CASE ~ legal
  BY <1>1, <1>3, <1>4, UnspecifiedStutters
<1>5. CASE legal /\ ~ Decide
  <2>1. answer' = answer
    BY <1>5, RunKeepsFields
  <2>2. Running'
    <3>1. pc' # "undefined"
      BY <1>1, <1>5 DEF DefinedWithinContract
    <3>2. pc' # "ready"
      BY <1>5 DEF Run, Fft, ComputeX, FftByRadix2, ChirpSignal, ConvolutionSpectra,
                  ConvolutionProduct, UnchirpResult, ComputeR, ScaleIdft, ComputeMaxValue,
                  Undefined, Replace, Transforming,
                  Peak!Search, Peak!ScanEntry, Peak!NextRow, Peak!Return
    <3> QED BY <1>1, <3>1, <3>2
  <2>3. Phase = "open" /\ Phase' = "open"
    BY <1>1, <1>3, <1>5, <2>2, PhaseIs, PhaseIsNext DEF PhaseMatches
  <2> QED BY <1>1, <1>2, <2>1, <2>3 DEF Promise!absVars, SamplesEntered, CodesEntered, AnswerGiven
<1>6. CASE legal /\ Decide
  <2>1. PICK freqs \in Frequencies :
          /\ Len(freqs) = testFreqCount
          /\ \A g \in 0 .. testFreqCount - 1 : testFrequencies[g] = freqs[g + 1]
    BY <1>1 DEF InputsKept
  <2>2. pc = "estimate" /\ pc' = "ready"
    BY <1>6 DEF Decide
  <2>3. answer' = Promise!Answer(freqs)
    <3>1. answer' = [acquired |-> /\ sampleCount > 0
                                  /\ ThresholdDen * sMax > ThresholdNum * EstimatePIn,
                     codePhase |-> codePhase,
                     dopplerFrequency |-> dopplerFrequency]
      BY <1>6 DEF Decide
    <3> QED BY <1>6, <2>1, <2>2, <3>1, AnswerPromised
  <2>4. ~ Running'
    BY <2>2 DEF Running
  <2>5. Phase = "open" /\ Phase' = "answered"
    BY <1>1, <1>3, <1>6, <2>4, PhaseIs, PhaseIsNext DEF PhaseMatches
  <2>6. Promise!InContract(freqs)
    <3>1. Len(SamplesEntered) = sampleCount /\ Len(CodesEntered) = codesCount
      BY <1>6, SamplesAre DEF CodesEntered, InputsKept
    <3>2. Promise!PowerOfTwo(sampleCount) <=> PowerOfTwo(sampleCount)
      BY DEF Promise!PowerOfTwo, PowerOfTwo
    <3>3. /\ nrOfSamples = N_SAMPLES /\ codesCount = sampleCount
          /\ LengthSupported(sampleCount) /\ testFreqCount <= N_FREQ
      BY <1>1, <1>6 DEF ContractKept
    <3> QED BY <2>1, <2>5, <3>1, <3>2, <3>3 DEF Promise!InContract, LengthSupported
  <2>7. /\ AnswerGiven' = Promise!Answer(freqs)
        /\ SamplesEntered' = SamplesEntered /\ CodesEntered' = CodesEntered
    BY <1>1, <1>2, <1>6, <2>3 DEF AnswerGiven, SamplesEntered, CodesEntered
  <2> QED BY <1>1, <2>5, <2>6, <2>7 DEF Promise!AbsStart
<1> QED BY <1>4, <1>5, <1>6

\* Every step of the object is a step of the promise or leaves it unchanged.
LEMMA PromiseStep ==
    /\ TypeOK /\ InputsKept /\ ContractKept /\ FieldsAreCandidate /\ ResultsKept /\ SearchKept
    /\ Untouched /\ TypeOK' /\ InputsKept' /\ DefinedWithinContract' /\ [Next]_vars
    => [Promise!AbsNext]_(Promise!absVars)
<1> SUFFICES ASSUME TypeOK, InputsKept, ContractKept, FieldsAreCandidate, ResultsKept, SearchKept,
                    Untouched, TypeOK', InputsKept', DefinedWithinContract', [Next]_vars
             PROVE  Promise!AbsNext \/ UNCHANGED Promise!absVars
  OBVIOUS
<1>1. ASSUME NEW capacity \in Capacities, AllocateAcquisition(capacity)
      PROVE  Promise!AbsNext
  BY <1>1, AllocateKeepsPromise DEF Promise!AbsNext
<1>2. ASSUME NEW v \in SampleValues, EnterSample(v)
      PROVE  Promise!AbsNext \/ UNCHANGED Promise!absVars
  BY <1>2, EnterSampleKeepsPromise DEF Promise!AbsNext
<1>3. ASSUME NEW v \in CodeValues, EnterCode(v)
      PROVE  Promise!AbsNext \/ UNCHANGED Promise!absVars
  BY <1>3, EnterCodeKeepsPromise DEF Promise!AbsNext
<1>4. ASSUME NEW freqs \in Frequencies, StartAcquisition(freqs)
      PROVE  Promise!AbsNext \/ UNCHANGED Promise!absVars
  BY <1>4, StartKeepsPromise DEF Promise!AbsNext
<1>5. CASE DeleteAcquisition
  BY <1>5, DeleteKeepsPromise DEF Promise!AbsNext
<1>6. CASE Run
  BY <1>6, RunKeepsPromise DEF Promise!AbsNext
<1>7. CASE UNCHANGED vars
  <2>1. UNCHANGED <<pc, nrOfSamples, sampleCount, samples, given, legal, starts, answer>>
    BY <1>7 DEF vars, entered, ghosts
  <2>2. Phase' = Phase
    BY <2>1 DEF Phase, Running
  <2> QED BY <2>1, <2>2 DEF Promise!absVars, SamplesEntered, CodesEntered, AnswerGiven
<1> QED BY <1>1, <1>2, <1>3, <1>4, <1>5, <1>6, <1>7 DEF Next

\* The object that is not allocated yet is that of the promise.
LEMMA PromiseInit == Init => Promise!AbsInit
<1> SUFFICES ASSUME Init PROVE Promise!AbsInit
  OBVIOUS
<1>1. /\ pc = "none" /\ nrOfSamples = 0 /\ sampleCount = 0 /\ given = <<>>
      /\ legal /\ answer = NoAnswer
  BY DEF Init
<1>2. SamplesEntered = <<>>
  <2>1. SamplesEntered \in Seq(Complex) /\ Len(SamplesEntered) = 0
    BY <1>1, TypeInit, SpectraInit, SamplesAre
  <2>2. <<>> \in Seq(Complex) /\ Len(<<>>) = 0 /\ \A i \in 1 .. 0 : FALSE
    BY SMT
  <2> QED BY <2>1, <2>2, SeqEqual
<1> QED BY <1>1, <1>2, PhaseIs
        DEF PhaseMatches, Promise!AbsInit, Promise!NoAnswer, NoAnswer, CodesEntered, AnswerGiven

\* What startAcquisition leaves in the object is what the caller was promised: for
\* all samples, codes, frequencies and sizes the transforms support, the first
\* largest power of the circular correlation.
THEOREM PromiseIsKept == Spec => KeepsPromise
<1>1. Init => /\ ContractKept /\ DefinedWithinContract /\ FieldsAreCandidate /\ NoStartYet
              /\ PaddingZero /\ Untouched /\ ResultsKept /\ SearchKept
  BY DEF Init, ContractKept, DefinedWithinContract, FieldsAreCandidate, NoStartYet, PaddingZero,
         Untouched, ResultsKept, SearchKept, Running
<1> QED BY <1>1, SpectraInit, TypeCorrect, PaddingStep, ContractStep, FieldsStep, NoStartStep,
           InputsStep, TransformsStep, SpectraStep, ResultsStep, SearchStep, UntouchedStep,
           PromiseInit, PromiseStep, PTL DEF Spec, KeepsPromise, Promise!AbsSpec
===============================================================================
