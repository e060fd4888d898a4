-------------------------- MODULE AcquisitionProofs ---------------------------
(***************************************************************************)
(* What holds of the acquisition object for all sizes, however the caller   *)
(* mixes its calls: the blocks keep their extents, the padding bluestein    *)
(* relies on stays zero, within the contract no stage leaves a block, and   *)
(* the spectra computeR multiplies are those of the samples and the codes.  *)
(*                                                                          *)
(* The last of these follows a transform through its steps: TransformsKept  *)
(* says what the arrays of bluestein and of the convolution hold between    *)
(* them, SpectraKept which rows are transformed already, InputsKept that    *)
(* what the caller handed over is what a start works on.                    *)
(***************************************************************************)
EXTENDS Acquisition, SignalProofs

\* What a running, legal start has established.
ContractKept ==
    legal /\ Running =>
        /\ nrOfSamples = N_SAMPLES
        /\ codesCount = sampleCount
        /\ LengthSupported(sampleCount)
        /\ testFreqCount <= N_FREQ

-------------------------------------------------------------------------------

\* The types before allocateAcquisition.
LEMMA TypeInit == Init => TypeOK
  BY AcquisitionAssumption, SMT DEF Init, TypeOK

\* Putting a spectrum in the place of the target keeps every block's extent.
LEMMA ReplaceExtents ==
    ASSUME NEW v, f \in Nat, Replace(v)
    PROVE  /\ DOMAIN codes' = DOMAIN codes
           /\ DOMAIN xMatrix' = DOMAIN xMatrix /\ DOMAIN rMatrix' = DOMAIN rMatrix
           /\ f' \in Nat
           /\ pc' = pc \/ pc' = "fftX"
  BY SMT DEF Replace, PutRow, matrices

\* Every call and every stage keeps the types.
LEMMA TypeStep == TypeOK /\ [Next]_vars => TypeOK'
<1> SUFFICES ASSUME TypeOK, [Next]_vars PROVE TypeOK'
  OBVIOUS
<1> USE AcquisitionAssumption
    DEF TypeOK, entered, tested, matrices, buffers, search, ghosts
<1>1. ASSUME NEW capacity \in Capacities, AllocateAcquisition(capacity) PROVE TypeOK'
  <2>1. capacity \in Nat /\ nrOfSamples' = capacity /\ pc' = "ready"
    BY <1>1 DEF AllocateAcquisition
  <2>2. /\ DOMAIN samples' = 0 .. capacity - 1 /\ DOMAIN codes' = 0 .. capacity - 1
        /\ DOMAIN xMatrix' = 0 .. N_FREQ * capacity - 1
        /\ DOMAIN rMatrix' = 0 .. N_FREQ * capacity - 1
        /\ DOMAIN one' = 0 .. M - 1 /\ DOMAIN two' = 0 .. M - 1
    BY <1>1 DEF AllocateAcquisition, Filled
  <2>3. /\ sampleCount' = 0 /\ codesCount' = 0 /\ testFreqCount' = 0
        /\ UNCHANGED <<starts, legal, f, n>>
    BY <1>1 DEF AllocateAcquisition
  <2> QED BY <2>1, <2>2, <2>3, SMT
<1>2. ASSUME NEW v \in SampleValues, EnterSample(v) PROVE TypeOK'
  <2>1. CASE sampleCount < nrOfSamples
    <3>1. DOMAIN samples' = DOMAIN samples /\ sampleCount' = sampleCount + 1
      BY <1>2, <2>1 DEF EnterSample
    <3>2. sampleCount + 1 \in 0 .. nrOfSamples
      BY <2>1, SMT
    <3> QED BY <1>2, <2>1, <3>1, <3>2 DEF EnterSample
  <2>2. CASE ~ (sampleCount < nrOfSamples)
    BY <1>2, <2>2 DEF EnterSample
  <2> QED BY <2>1, <2>2
<1>3. ASSUME NEW v \in CodeValues, EnterCode(v) PROVE TypeOK'
  <2>1. CASE codesCount < nrOfSamples
    <3>1. DOMAIN codes' = DOMAIN codes /\ codesCount' = codesCount + 1
      BY <1>3, <2>1 DEF EnterCode
    <3>2. codesCount + 1 \in 0 .. nrOfSamples
      BY <2>1, SMT
    <3> QED BY <1>3, <2>1, <3>1, <3>2 DEF EnterCode
  <2>2. CASE ~ (codesCount < nrOfSamples)
    BY <1>3, <2>2 DEF EnterCode
  <2> QED BY <2>1, <2>2
<1>4. ASSUME NEW freqs \in Frequencies, StartAcquisition(freqs) PROVE TypeOK'
  <2>1. /\ pc = "ready" /\ pc' \in {"computeX", "undefined"}
        /\ starts < MaxStarts /\ starts' = starts + 1
        /\ legal' \in BOOLEAN /\ testFreqCount' = Len(freqs)
    BY <1>4 DEF StartAcquisition
  <2>2. UNCHANGED <<nrOfSamples, entered, codes, matrices, buffers, search>>
    BY <1>4 DEF StartAcquisition
  <2>3. starts' \in 0 .. MaxStarts /\ testFreqCount' \in Nat
    BY <2>1, SMT
  <2> QED BY <2>1, <2>2, <2>3
<1>5. CASE DeleteAcquisition
  BY <1>5 DEF DeleteAcquisition
<1>6. CASE ComputeX
  BY <1>6 DEF ComputeX, FillRows, Undefined
<1>7. CASE FftByRadix2
  <2>1. CASE TargetFits
    <3>1. Replace(Dft(Target, M, -1))
      BY <1>7, <2>1 DEF FftByRadix2
    <3> QED BY <1>7, <2>1, <3>1, ReplaceExtents DEF FftByRadix2, Transforming
  <2>2. CASE ~ TargetFits
    BY <1>7, <2>2 DEF FftByRadix2, Transforming, Undefined
  <2> QED BY <2>1, <2>2
<1>8. CASE ChirpSignal
  <2>1. CASE TargetFits /\ sampleCount <= M
    <3>1. DOMAIN one' = 0 .. M - 1 /\ DOMAIN two' = 0 .. M - 1
      BY <1>8, <2>1 DEF ChirpSignal
    <3>2. UNCHANGED <<pc, nrOfSamples, entered, codes, tested, matrices, search, ghosts>>
      BY <1>8, <2>1 DEF ChirpSignal
    <3> QED BY <3>1, <3>2
  <2>2. CASE ~ (TargetFits /\ sampleCount <= M)
    <3>1. Undefined /\ pc # "none"
      BY <1>8, <2>2 DEF ChirpSignal, Transforming
    <3> QED BY <3>1 DEF Undefined
  <2> QED BY <2>1, <2>2
<1>9. CASE ConvolutionSpectra
  BY <1>9 DEF ConvolutionSpectra
<1>10. CASE ConvolutionProduct
  BY <1>10 DEF ConvolutionProduct
<1>11. CASE UnchirpResult
  <2>1. Transforming /\ Replace([k \in 0 .. sampleCount - 1 |-> Mul(three'[k], Conj(table[k]))])
    BY <1>11 DEF UnchirpResult
  <2>2. /\ DOMAIN codes' = DOMAIN codes
        /\ DOMAIN xMatrix' = DOMAIN xMatrix /\ DOMAIN rMatrix' = DOMAIN rMatrix
        /\ f' \in Nat
        /\ pc' = pc \/ pc' = "fftX"
    BY <2>1, ReplaceExtents
  <2>3. UNCHANGED <<nrOfSamples, entered, tested, one, two, n, ghosts>>
    BY <1>11 DEF UnchirpResult
  <2> QED BY <2>1, <2>2, <2>3 DEF Transforming
<1>12. CASE ComputeR
  <2>1. CASE RowsFit(codesCount)
    <3>1. /\ pc = "fftX" /\ pc' = "inverseFft" /\ f' = 0 /\ UNCHANGED <<n, xMatrix>>
          /\ UNCHANGED <<nrOfSamples, entered, codes, tested, buffers, ghosts>>
          /\ \E value : rMatrix' = [e \in DOMAIN rMatrix |-> value[e]]
      BY <1>12, <2>1, ZenonT(30) DEF ComputeR, FillRows
    <3>2. DOMAIN rMatrix' = DOMAIN rMatrix
      BY <3>1
    <3> QED BY <3>1, <3>2
  <2>2. CASE ~ RowsFit(codesCount)
    <3>1. Undefined /\ pc # "none"
      BY <1>12, <2>2 DEF ComputeR
    <3> QED BY <3>1 DEF Undefined
  <2> QED BY <2>1, <2>2
<1>13. CASE ScaleIdft
  <2>1. CASE RowsFit(sampleCount)
    <3>1. /\ pc = "inverseFft" /\ pc' = "max" /\ f' = 0 /\ n' = 0 /\ UNCHANGED xMatrix
          /\ UNCHANGED <<nrOfSamples, entered, codes, tested, buffers, ghosts>>
          /\ \E value : rMatrix' = [e \in DOMAIN rMatrix |-> value[e]]
      BY <1>13, <2>1, ZenonT(30) DEF ScaleIdft, FillRows
    <3>2. DOMAIN rMatrix' = DOMAIN rMatrix
      BY <3>1
    <3> QED BY <3>1, <3>2
  <2>2. CASE ~ RowsFit(sampleCount)
    <3>1. Undefined /\ pc # "none"
      BY <1>13, <2>2 DEF ScaleIdft
    <3> QED BY <3>1 DEF Undefined
  <2> QED BY <2>1, <2>2
<1>14. CASE ComputeMaxValue
  BY <1>14 DEF ComputeMaxValue, Peak!Search, Peak!ScanEntry, Peak!NextRow, Peak!Return,
               Peak!inputs
<1>15. CASE Decide
  BY <1>15 DEF Decide
<1>16. CASE UNCHANGED vars
  BY <1>16 DEF vars
<1> QED
  BY <1>1, <1>2, <1>3, <1>4, <1>5, <1>6, <1>7, <1>8, <1>9, <1>10, <1>11, <1>12, <1>13,
     <1>14, <1>15, <1>16 DEF Next, Run, Fft

\* The blocks and counters keep their extents under every sequence of calls.
THEOREM TypeCorrect == Spec => []TypeOK
<1> QED BY TypeInit, TypeStep, PTL DEF Spec

-------------------------------------------------------------------------------
\* The steps that change neither one, two nor sampleCount.
LEMMA PaddingUntouched ==
    ASSUME PaddingZero, pc # "none", UNCHANGED <<one, two, sampleCount>>
    PROVE  PaddingZero'
  BY DEF PaddingZero

\* Every call and every stage keeps the padding.
LEMMA PaddingStep == TypeOK /\ PaddingZero /\ [Next]_vars => PaddingZero'
<1> SUFFICES ASSUME TypeOK, PaddingZero, [Next]_vars PROVE PaddingZero'
  OBVIOUS
<1> USE DEF entered, tested, matrices, buffers, search, ghosts
<1>1. ASSUME NEW capacity \in Capacities, AllocateAcquisition(capacity) PROVE PaddingZero'
  BY <1>1 DEF AllocateAcquisition, PaddingZero, Filled
<1>2. ASSUME NEW v \in SampleValues, EnterSample(v) PROVE PaddingZero'
  <2>1. CASE sampleCount < nrOfSamples
    <3>1. sampleCount' = sampleCount + 1 /\ one' = one /\ two' = two /\ pc # "none"
      BY <1>2, <2>1 DEF EnterSample
    <3>2. sampleCount \in Nat /\ M \in Nat
      BY AcquisitionAssumption, SMT DEF TypeOK
    <3>3. ASSUME NEW k \in 0 .. M - 1
          PROVE  /\ k >= sampleCount + 1 => k >= sampleCount
                 /\ k <= M - (sampleCount + 1) => k <= M - sampleCount
      BY <3>2, SMT
    <3> QED BY <3>1, <3>3 DEF PaddingZero
  <2>2. CASE ~ (sampleCount < nrOfSamples)
    BY <1>2, <2>2, PaddingUntouched DEF EnterSample
  <2> QED BY <2>1, <2>2
<1>3. ASSUME NEW v \in CodeValues, EnterCode(v) PROVE PaddingZero'
  BY <1>3, PaddingUntouched DEF EnterCode
<1>4. ASSUME NEW freqs \in Frequencies, StartAcquisition(freqs) PROVE PaddingZero'
  BY <1>4, PaddingUntouched DEF StartAcquisition
<1>5. CASE DeleteAcquisition
  BY <1>5, PaddingUntouched DEF DeleteAcquisition
<1>6. CASE ComputeX
  BY <1>6, PaddingUntouched DEF ComputeX, Undefined
<1>7. CASE FftByRadix2
  BY <1>7, PaddingUntouched DEF FftByRadix2, Transforming, Undefined
<1>8. CASE ChirpSignal
  <2>1. CASE TargetFits /\ sampleCount <= M
    <3>1. pc # "none" /\ sampleCount' = sampleCount
      BY <1>8, <2>1 DEF ChirpSignal, Transforming
    <3>2. M \in Nat /\ sampleCount \in Nat
      BY AcquisitionAssumption, SMT DEF TypeOK
    <3>3. ASSUME NEW k \in 0 .. M - 1, k >= sampleCount PROVE one'[k] = one[k]
      <4>1. ~ (k < sampleCount)
        BY <3>2, <3>3, SMT
      <4> QED BY <1>8, <2>1, <4>1 DEF ChirpSignal
    <3>4. ASSUME NEW k \in 0 .. M - 1, k >= sampleCount, k <= M - sampleCount
          PROVE  two'[k] = two[k]
      <4>1. WithMirror(k) \cap 0 .. sampleCount - 1 = {}
        BY <3>2, <3>4, SMT DEF WithMirror
      <4> QED BY <1>8, <2>1, <4>1 DEF ChirpSignal
    <3> QED BY <3>1, <3>3, <3>4 DEF PaddingZero
  <2>2. CASE ~ (TargetFits /\ sampleCount <= M)
    <3>1. Undefined /\ pc # "none"
      BY <1>8, <2>2 DEF ChirpSignal, Transforming
    <3> QED BY <3>1, PaddingUntouched DEF Undefined
  <2> QED BY <2>1, <2>2
<1>9. CASE ConvolutionSpectra
  BY <1>9, PaddingUntouched DEF ConvolutionSpectra, Transforming
<1>10. CASE ConvolutionProduct
  BY <1>10, PaddingUntouched DEF ConvolutionProduct, Transforming
<1>11. CASE UnchirpResult
  BY <1>11, PaddingUntouched DEF UnchirpResult, Transforming
<1>12. CASE ComputeR
  BY <1>12, PaddingUntouched DEF ComputeR, Undefined
<1>13. CASE ScaleIdft
  BY <1>13, PaddingUntouched DEF ScaleIdft, Undefined
<1>14. CASE ComputeMaxValue
  BY <1>14, PaddingUntouched DEF ComputeMaxValue
<1>15. CASE Decide
  BY <1>15, PaddingUntouched DEF Decide
<1>16. CASE UNCHANGED vars
  BY <1>16 DEF vars, PaddingZero
<1> QED
  BY <1>1, <1>2, <1>3, <1>4, <1>5, <1>6, <1>7, <1>8, <1>9, <1>10, <1>11, <1>12, <1>13,
     <1>14, <1>15, <1>16 DEF Next, Run, Fft

\* The entries of one and two that bluestein never writes are zero at every
\* transform, whatever was entered and started before it.
THEOREM PaddingStaysZero == Spec => []PaddingZero
<1>1. Init => PaddingZero
  BY DEF Init, PaddingZero
<1> QED BY <1>1, TypeCorrect, PaddingStep, PTL DEF Spec

-------------------------------------------------------------------------------
\* Within the contract every stage's accesses lie inside its blocks.
LEMMA ContractFits ==
    ASSUME TypeOK, ContractKept, legal, Running
    PROVE  /\ FftLength <= nrOfSamples
           /\ ~ PowerOfTwo(sampleCount) => sampleCount <= M
           /\ \A g \in Nat : g < testFreqCount => RowFits(g, FftLength)
           /\ RowsFit(sampleCount) /\ RowsFit(codesCount)
<1>1. /\ nrOfSamples = N_SAMPLES /\ codesCount = sampleCount /\ testFreqCount <= N_FREQ
      /\ IF PowerOfTwo(sampleCount) THEN sampleCount = M ELSE 2 * sampleCount - 1 <= M
  BY DEF ContractKept, LengthSupported
<1>2. /\ M \in Nat /\ N_SAMPLES \in Nat /\ N_FREQ \in Nat /\ M > 0
      /\ sampleCount \in 0 .. nrOfSamples /\ testFreqCount \in Nat
  BY AcquisitionAssumption, SMT DEF TypeOK
<1>3. FftLength \in Nat /\ FftLength <= nrOfSamples
  BY <1>1, <1>2, SMT DEF FftLength
<1>4. ~ PowerOfTwo(sampleCount) => sampleCount <= M
  BY <1>1, <1>2, SMT
<1>5. ASSUME NEW g \in Nat, g < testFreqCount, NEW len \in Nat, len <= nrOfSamples
      PROVE  RowFits(g, len)
  <2>1. PICK d \in Nat : N_FREQ = (g + 1) + d
    <3>1. N_FREQ - (g + 1) \in Nat
      BY <1>1, <1>2, <1>5, SMT
    <3>2. N_FREQ = (g + 1) + (N_FREQ - (g + 1))
      BY <1>2, SMT
    <3> QED BY <3>1, <3>2
  <2>2. N_FREQ * N_SAMPLES = (g * N_SAMPLES + N_SAMPLES) + d * N_SAMPLES
    BY <1>2, <2>1, SMT
  <2>3. d * N_SAMPLES \in Nat /\ g * N_SAMPLES \in Nat
    BY <1>2, SMT
  <2>4. g * N_SAMPLES + len <= N_FREQ * N_SAMPLES
    BY <1>1, <1>2, <1>5, <2>2, <2>3, SMT
  <2> QED BY <1>1, <1>5, <2>4 DEF RowFits
<1>6. \A g \in 0 .. testFreqCount - 1 : g \in Nat /\ g < testFreqCount
  BY <1>2, SMT
<1>7. sampleCount \in Nat /\ sampleCount <= nrOfSamples
  BY <1>1, <1>2, SMT
<1> QED BY <1>1, <1>3, <1>4, <1>5, <1>6, <1>7 DEF RowsFit

\* A legal start stays within its blocks, stage after stage.
LEMMA ContractStep ==
    TypeOK /\ ContractKept /\ DefinedWithinContract /\ [Next]_vars
      => ContractKept' /\ DefinedWithinContract'
<1> SUFFICES ASSUME TypeOK, ContractKept, DefinedWithinContract, [Next]_vars
             PROVE  ContractKept' /\ DefinedWithinContract'
  OBVIOUS
<1> USE DEF entered, tested, matrices, buffers, search, ghosts
\* A stage that goes on to another stage keeps what the contract speaks of.
<1>s. ASSUME Running, pc' # "undefined",
             UNCHANGED <<nrOfSamples, sampleCount, codesCount, testFreqCount, legal>>
      PROVE  ContractKept' /\ DefinedWithinContract'
  BY <1>s DEF ContractKept, DefinedWithinContract
\* A stage leaves its blocks only outside the contract.
<1>u. ASSUME Undefined, ~ legal PROVE ContractKept' /\ DefinedWithinContract'
  BY <1>u DEF Undefined, ContractKept, DefinedWithinContract
<1>1. ASSUME NEW capacity \in Capacities, AllocateAcquisition(capacity)
      PROVE  ContractKept' /\ DefinedWithinContract'
  BY <1>1 DEF AllocateAcquisition, ContractKept, DefinedWithinContract, Running
<1>2. ASSUME NEW v \in SampleValues, EnterSample(v)
      PROVE  ContractKept' /\ DefinedWithinContract'
  BY <1>2 DEF EnterSample, ContractKept, DefinedWithinContract, Running
<1>3. ASSUME NEW v \in CodeValues, EnterCode(v)
      PROVE  ContractKept' /\ DefinedWithinContract'
  BY <1>3 DEF EnterCode, ContractKept, DefinedWithinContract, Running
<1>4. ASSUME NEW freqs \in Frequencies, StartAcquisition(freqs)
      PROVE  ContractKept' /\ DefinedWithinContract'
  BY <1>4 DEF StartAcquisition, InContract, ContractKept, DefinedWithinContract, Running
<1>5. CASE DeleteAcquisition
  BY <1>5 DEF DeleteAcquisition, ContractKept, DefinedWithinContract, Running
<1>6. CASE ComputeX
  <2>1. Running
    BY <1>6 DEF ComputeX, Running
  <2>2. CASE RowsFit(sampleCount)
    BY <1>6, <1>s, <2>1, <2>2 DEF ComputeX
  <2>3. CASE ~ RowsFit(sampleCount)
    BY <1>6, <1>u, <2>1, <2>3, ContractFits DEF ComputeX
  <2> QED BY <2>2, <2>3
<1>7. CASE FftByRadix2
  <2>1. Running /\ MoreRows /\ f \in Nat /\ Transforming
    BY <1>7 DEF FftByRadix2, Running, Transforming, TypeOK
  <2>2. CASE TargetFits
    <3>1. Replace(Dft(Target, M, -1))
      BY <1>7, <2>2 DEF FftByRadix2
    <3>2. pc' # "undefined"
      BY <2>1, <3>1, ReplaceExtents DEF Transforming
    <3> QED BY <1>7, <1>s, <2>1, <2>2, <3>2 DEF FftByRadix2
  <2>3. CASE ~ TargetFits
    <3>1. Undefined
      BY <1>7, <2>3 DEF FftByRadix2
    <3>2. ~ legal
      BY <2>1, <2>3, ContractFits DEF TargetFits, MoreRows
    <3> QED BY <1>u, <3>1, <3>2
  <2> QED BY <2>2, <2>3
<1>8. CASE ChirpSignal
  <2>1. Running /\ MoreRows /\ f \in Nat /\ Transforming /\ ~ PowerOfTwo(sampleCount)
    BY <1>8 DEF ChirpSignal, Running, Transforming, TypeOK
  <2>2. CASE TargetFits /\ sampleCount <= M
    <3>1. UNCHANGED <<pc, nrOfSamples, sampleCount, codesCount, testFreqCount, legal>>
      BY <1>8, <2>2 DEF ChirpSignal
    <3>2. pc' # "undefined"
      BY <2>1, <3>1 DEF Transforming
    <3> QED BY <1>s, <2>1, <3>1, <3>2
  <2>3. CASE ~ (TargetFits /\ sampleCount <= M)
    <3>1. Undefined
      BY <1>8, <2>3 DEF ChirpSignal
    <3>2. ~ legal
      BY <2>1, <2>3, ContractFits DEF TargetFits, MoreRows
    <3> QED BY <1>u, <3>1, <3>2
  <2> QED BY <2>2, <2>3
<1>9. CASE ConvolutionSpectra
  BY <1>9, <1>s DEF ConvolutionSpectra, Transforming, Running
<1>10. CASE ConvolutionProduct
  BY <1>10, <1>s DEF ConvolutionProduct, Transforming, Running
<1>11. CASE UnchirpResult
  <2>1. Running /\ Transforming /\ f \in Nat
    BY <1>11 DEF UnchirpResult, Transforming, Running, TypeOK
  <2>2. pc' = pc \/ pc' = "fftX"
    BY <1>11, <2>1, ReplaceExtents DEF UnchirpResult
  <2> QED BY <1>11, <1>s, <2>1, <2>2 DEF UnchirpResult, Transforming
<1>12. CASE ComputeR
  <2>1. Running
    BY <1>12 DEF ComputeR, Running
  <2>2. CASE RowsFit(codesCount)
    BY <1>12, <1>s, <2>1, <2>2 DEF ComputeR
  <2>3. CASE ~ RowsFit(codesCount)
    BY <1>12, <1>u, <2>1, <2>3, ContractFits DEF ComputeR
  <2> QED BY <2>2, <2>3
<1>13. CASE ScaleIdft
  <2>1. Running
    BY <1>13 DEF ScaleIdft, Running
  <2>2. CASE RowsFit(sampleCount)
    BY <1>13, <1>s, <2>1, <2>2 DEF ScaleIdft
  <2>3. CASE ~ RowsFit(sampleCount)
    BY <1>13, <1>u, <2>1, <2>3, ContractFits DEF ScaleIdft
  <2> QED BY <2>2, <2>3
<1>14. CASE ComputeMaxValue
  <2>1. pc' = pc \/ pc' = "estimate"
    BY <1>14 DEF ComputeMaxValue, Peak!Search, Peak!ScanEntry, Peak!NextRow, Peak!Return
  <2> QED BY <1>14, <1>s, <2>1 DEF ComputeMaxValue, Running
<1>15. CASE Decide
  BY <1>15, <1>s DEF Decide, Running
<1>16. CASE UNCHANGED vars
  BY <1>16 DEF vars, ContractKept, DefinedWithinContract, Running
<1> QED
  BY <1>1, <1>2, <1>3, <1>4, <1>5, <1>6, <1>7, <1>8, <1>9, <1>10, <1>11, <1>12, <1>13,
     <1>14, <1>15, <1>16 DEF Next, Run, Fft

\* A caller within the contract gets a defined run from every stage, for all
\* sizes: no row, transform or loop reaches beyond its block.
THEOREM ContractIsEnough == Spec => []DefinedWithinContract
<1>1. Init => ContractKept /\ DefinedWithinContract
  BY DEF Init, ContractKept, DefinedWithinContract, Running
<1> QED BY <1>1, TypeCorrect, ContractStep, PTL DEF Spec

-------------------------------------------------------------------------------
\* A code phase and a frequency that belong to a cell of the search, or the
\* zeros of the allocation.
IsCandidate(phase, freq) ==
    \/ phase = 0 /\ freq = 0
    \/ /\ phase \in 0 .. sampleCount - 1
       /\ \E g \in 0 .. testFreqCount - 1 : freq = testFrequencies[g]

FieldsAreCandidate ==
    /\ Running => starts # 0
    /\ starts = 0 => codePhase = 0 /\ dopplerFrequency = 0
    /\ legal /\ Running => IsCandidate(codePhase, dopplerFrequency)

\* The two fields hold a cell the search has seen.
LEMMA FieldsStep ==
    TypeOK /\ FieldsAreCandidate /\ [Next]_vars => FieldsAreCandidate'
<1> SUFFICES ASSUME TypeOK, FieldsAreCandidate, [Next]_vars PROVE FieldsAreCandidate'
  OBVIOUS
<1> USE DEF entered, tested, matrices, buffers, search, ghosts
\* The steps of a running start that leave the two fields alone.
<1>s. ASSUME Running,
             UNCHANGED <<sampleCount, tested, starts, legal, codePhase, dopplerFrequency>>
      PROVE  FieldsAreCandidate'
  BY <1>s DEF FieldsAreCandidate, IsCandidate
\* The steps after which nothing is running.
<1>r. ASSUME ~ Running', UNCHANGED <<starts, codePhase, dopplerFrequency>>
      PROVE  FieldsAreCandidate'
  BY <1>r DEF FieldsAreCandidate
<1>1. ASSUME NEW capacity \in Capacities, AllocateAcquisition(capacity)
      PROVE  FieldsAreCandidate'
  BY <1>1 DEF AllocateAcquisition, FieldsAreCandidate, Running
<1>2. ASSUME NEW v \in SampleValues, EnterSample(v) PROVE FieldsAreCandidate'
  BY <1>2, <1>r DEF EnterSample, Running
<1>3. ASSUME NEW v \in CodeValues, EnterCode(v) PROVE FieldsAreCandidate'
  BY <1>3, <1>r DEF EnterCode, Running
<1>4. ASSUME NEW freqs \in Frequencies, StartAcquisition(freqs) PROVE FieldsAreCandidate'
  <2>1. starts \in Nat /\ starts' = starts + 1 /\ starts + 1 # 0
    BY <1>4, AcquisitionAssumption, SMT DEF StartAcquisition, TypeOK
  <2>2. legal' => starts = 0
    BY <1>4 DEF StartAcquisition, InContract
  <2>3. UNCHANGED <<codePhase, dopplerFrequency>> 
    BY <1>4 DEF StartAcquisition
  <2> QED BY <2>1, <2>2, <2>3 DEF FieldsAreCandidate, IsCandidate
<1>5. CASE DeleteAcquisition
  BY <1>5, <1>r DEF DeleteAcquisition, Running
<1>6. CASE ComputeX
  BY <1>6, <1>s DEF ComputeX, Undefined, Running
<1>7. CASE FftByRadix2
  BY <1>7, <1>s DEF FftByRadix2, Undefined, Running, Transforming
<1>8. CASE ChirpSignal
  <2>1. UNCHANGED <<sampleCount, tested, starts, legal, codePhase, dopplerFrequency>>
    BY <1>8 DEF ChirpSignal, Undefined
  <2> QED BY <1>8, <1>s, <2>1 DEF ChirpSignal, Running, Transforming
<1>9. CASE ConvolutionSpectra
  BY <1>9, <1>s DEF ConvolutionSpectra, Running, Transforming
<1>10. CASE ConvolutionProduct
  BY <1>10, <1>s DEF ConvolutionProduct, Running, Transforming
<1>11. CASE UnchirpResult
  BY <1>11, <1>s DEF UnchirpResult, Running, Transforming
<1>12. CASE ComputeR
  BY <1>12, <1>s DEF ComputeR, Undefined, Running
<1>13. CASE ScaleIdft
  BY <1>13, <1>s DEF ScaleIdft, Undefined, Running
<1>14. CASE ComputeMaxValue
  <2>1. Running /\ UNCHANGED <<sampleCount, tested, starts, legal>>
    BY <1>14 DEF ComputeMaxValue, Running
  <2>2. CASE UNCHANGED <<codePhase, dopplerFrequency>>
    BY <1>s, <2>1, <2>2
  <2>3. CASE ~ UNCHANGED <<codePhase, dopplerFrequency>>
    <3>1. /\ f < testFreqCount /\ n < sampleCount
          /\ codePhase' = n /\ dopplerFrequency' = testFrequencies[f]
      BY <1>14, <2>3 DEF ComputeMaxValue, Peak!Search, Peak!ScanEntry, Peak!NextRow,
                         Peak!Return, Peak!inputs
    <3>2. n \in 0 .. sampleCount - 1 /\ f \in 0 .. testFreqCount - 1
      BY <3>1, SMT DEF TypeOK
    <3>3. starts # 0
      BY <2>1 DEF FieldsAreCandidate
    <3> QED BY <2>1, <3>1, <3>2, <3>3 DEF FieldsAreCandidate, IsCandidate
  <2> QED BY <2>2, <2>3
<1>15. CASE Decide
  BY <1>15, <1>r DEF Decide, Running
<1>16. CASE UNCHANGED vars
  BY <1>16 DEF vars, FieldsAreCandidate, IsCandidate, Running
<1> QED
  BY <1>1, <1>2, <1>3, <1>4, <1>5, <1>6, <1>7, <1>8, <1>9, <1>10, <1>11, <1>12, <1>13,
     <1>14, <1>15, <1>16 DEF Next, Run, Fft

\* An object is allocated before it is started.
NoStartYet == pc = "none" => starts = 0

\* Before the allocation nothing has been started.
LEMMA NoStartStep == TypeOK /\ NoStartYet /\ [Next]_vars => NoStartYet'
<1> SUFFICES ASSUME TypeOK, NoStartYet, [Next]_vars, pc' = "none" PROVE starts' = 0
  BY DEF NoStartYet
<1>1. CASE UNCHANGED vars
  BY <1>1 DEF vars, ghosts, NoStartYet
<1>2. CASE FftByRadix2
  <2>1. CASE TargetFits
    <3>1. Replace(Dft(Target, M, -1)) /\ f \in Nat
      BY <1>2, <2>1 DEF FftByRadix2, TypeOK
    <3> QED BY <1>2, <3>1, ReplaceExtents DEF FftByRadix2, Transforming
  <2> QED BY <1>2, <2>1 DEF FftByRadix2, Undefined
<1>3. CASE UnchirpResult
  <2>1. Transforming /\ f \in Nat
    BY <1>3 DEF UnchirpResult, TypeOK
  <2> QED BY <1>3, <2>1, ReplaceExtents DEF UnchirpResult, Transforming
<1>4. CASE ChirpSignal \/ ConvolutionSpectra \/ ConvolutionProduct
  BY <1>4 DEF ChirpSignal, ConvolutionSpectra, ConvolutionProduct, Undefined, Transforming
<1>5. CASE ComputeMaxValue
  BY <1>5 DEF ComputeMaxValue, Peak!Search, Peak!ScanEntry, Peak!NextRow, Peak!Return
<1>6. CASE ComputeX \/ ComputeR \/ ScaleIdft \/ Decide \/ DeleteAcquisition
  BY <1>6 DEF ComputeX, ComputeR, ScaleIdft, Decide, DeleteAcquisition, Undefined
<1>7. ~ \E capacity \in Capacities : AllocateAcquisition(capacity)
  BY DEF AllocateAcquisition
<1>8. ~ \E freqs \in Frequencies : StartAcquisition(freqs)
  BY DEF StartAcquisition
<1>9. /\ ~ \E v \in SampleValues : EnterSample(v)
      /\ ~ \E v \in CodeValues : EnterCode(v)
  BY DEF EnterSample, EnterCode
<1> QED
  BY <1>1, <1>2, <1>3, <1>4, <1>5, <1>6, <1>7, <1>8, <1>9 DEF Next, Run, Fft

\* The answer of a start is taken from the fields.
LEMMA AnswerStep ==
    /\ TypeOK /\ FieldsAreCandidate /\ NoStartYet /\ AnswerIsCandidate /\ [Next]_vars
    => AnswerIsCandidate'
<1> SUFFICES ASSUME TypeOK, FieldsAreCandidate, NoStartYet, AnswerIsCandidate, [Next]_vars
             PROVE  AnswerIsCandidate'
  OBVIOUS
<1> USE DEF entered, tested, matrices, buffers, search, ghosts
\* The steps that do not lead to an object waiting for calls.
<1>r. ASSUME pc' # "ready" PROVE AnswerIsCandidate'
  BY <1>r DEF AnswerIsCandidate
<1>1. ASSUME NEW capacity \in Capacities, AllocateAcquisition(capacity)
      PROVE  AnswerIsCandidate'
  <2>1. starts' = 0
    BY <1>1 DEF AllocateAcquisition, NoStartYet
  <2> QED BY <2>1, SMT DEF AnswerIsCandidate
<1>2. ASSUME NEW v \in SampleValues, EnterSample(v) PROVE AnswerIsCandidate'
  <2>1. CASE sampleCount < nrOfSamples
    <3>1. /\ sampleCount' = sampleCount + 1 /\ pc = "ready"
          /\ UNCHANGED <<tested, starts, legal, answer>>
      BY <1>2, <2>1 DEF EnterSample
    <3>2. answer.codePhase \in 0 .. sampleCount - 1
            => answer.codePhase \in 0 .. (sampleCount + 1) - 1
      BY SMT DEF TypeOK
    <3> QED BY <3>1, <3>2 DEF AnswerIsCandidate
  <2>2. CASE ~ (sampleCount < nrOfSamples)
    BY <1>2, <1>r, <2>2 DEF EnterSample
  <2> QED BY <2>1, <2>2
<1>3. ASSUME NEW v \in CodeValues, EnterCode(v) PROVE AnswerIsCandidate'
  BY <1>3, <1>r DEF EnterCode, AnswerIsCandidate
<1>4. CASE Decide
  <2>1. /\ answer'.codePhase = codePhase /\ answer'.dopplerFrequency = dopplerFrequency
        /\ UNCHANGED <<sampleCount, tested, legal>> /\ Running
    BY <1>4 DEF Decide, Running
  <2> QED BY <2>1 DEF AnswerIsCandidate, FieldsAreCandidate, IsCandidate
<1>5. CASE UNCHANGED vars
  BY <1>5 DEF vars, AnswerIsCandidate
<1>6. ASSUME NEW freqs \in Frequencies, StartAcquisition(freqs) PROVE AnswerIsCandidate'
  BY <1>6, <1>r DEF StartAcquisition
<1>7. CASE DeleteAcquisition
  BY <1>7, <1>r DEF DeleteAcquisition
<1>8. CASE ComputeX \/ ComputeR \/ ScaleIdft
  BY <1>8, <1>r DEF ComputeX, ComputeR, ScaleIdft, Undefined
<1>9. CASE FftByRadix2
  <2>1. CASE TargetFits
    <3>1. Replace(Dft(Target, M, -1)) /\ f \in Nat
      BY <1>9, <2>1 DEF FftByRadix2, TypeOK
    <3> QED BY <1>9, <1>r, <3>1, ReplaceExtents DEF FftByRadix2, Transforming
  <2>2. CASE ~ TargetFits
    BY <1>9, <1>r, <2>2 DEF FftByRadix2, Undefined
  <2> QED BY <2>1, <2>2
<1>10. CASE ChirpSignal
  <2>1. pc' # "ready"
    BY <1>10 DEF ChirpSignal, Transforming, Undefined
  <2> QED BY <1>r, <2>1
<1>11. CASE ConvolutionSpectra \/ ConvolutionProduct
  BY <1>11, <1>r DEF ConvolutionSpectra, ConvolutionProduct, Transforming
<1>12. CASE UnchirpResult
  <2>1. Transforming /\ f \in Nat
    BY <1>12 DEF UnchirpResult, TypeOK
  <2>2. pc' = pc \/ pc' = "fftX"
    BY <1>12, <2>1, ReplaceExtents DEF UnchirpResult
  <2> QED BY <1>r, <2>1, <2>2 DEF Transforming
<1>13. CASE ComputeMaxValue
  <2>1. pc' = pc \/ pc' = "estimate"
    BY <1>13 DEF ComputeMaxValue, Peak!Search, Peak!ScanEntry, Peak!NextRow, Peak!Return
  <2> QED BY <1>13, <1>r, <2>1 DEF ComputeMaxValue
<1> QED
  BY <1>1, <1>2, <1>3, <1>4, <1>5, <1>6, <1>7, <1>8, <1>9, <1>10, <1>11, <1>12, <1>13
  DEF Next, Run, Fft

\* The first answer of an object used within the contract never names a delay
\* beyond the samples or a frequency that was not tested.
THEOREM AnswersAreCandidates == Spec => []AnswerIsCandidate
<1>1. Init => FieldsAreCandidate /\ NoStartYet /\ AnswerIsCandidate
  BY DEF Init, FieldsAreCandidate, NoStartYet, AnswerIsCandidate, IsCandidate, Running
<1> QED BY <1>1, TypeCorrect, FieldsStep, NoStartStep, AnswerStep, PTL DEF Spec

-------------------------------------------------------------------------------
(* Lengths and indexes *)

\* The sign of a product, for the linear solver.
LEMMA NegativeProduct == \A a \in Nat, b \in Int : a > 0 /\ b < 0 => a * b < 0
BY SMT

\* What a supported number of samples gives the transforms.
LEMMA SupportedFacts ==
    ASSUME NEW c \in Nat, c <= N_SAMPLES, LengthSupported(c)
    PROVE  /\ M \in Nat /\ M > 0 /\ PartsOfCircle(M) /\ M % P # 0 /\ c <= M
           /\ c > 0 => PartsOfCircle(c) /\ c % P # 0
           /\ PowerOfTwo(c) => c = M
           /\ ~ PowerOfTwo(c) => c > 0 /\ PartsOfCircle(2 * c) /\ 2 * c - 1 <= M
<1>1. M \in Nat /\ M > 0 /\ N_SAMPLES \in Nat /\ N_SAMPLES <= M
  BY AcquisitionAssumption, SMT
<1>2. c <= M
  BY <1>1, SMT
<1>3. M < P /\ Order % M = 0 /\ P \in Nat /\ Order \in Nat
  BY TransformAssumption, PFacts, OrderFacts
<1>4. \A len \in Nat : len > 0 /\ len <= M => len % P # 0
  <2> SUFFICES ASSUME NEW len \in Nat, len > 0, len <= M PROVE len % P # 0
    OBVIOUS
  <2>1. len \in 0 .. P - 1 /\ len # 0
    BY <1>1, <1>3, SMT
  <2>2. len % P = len
    BY <1>3, <2>1, RemainderOfSmall
  <2> QED BY <2>1, <2>2
<1>5. \A len \in Nat : len > 0 /\ Order % len = 0 => PartsOfCircle(len)
  <2> SUFFICES ASSUME NEW len \in Nat, len > 0, Order % len = 0 PROVE PartsOfCircle(len)
    OBVIOUS
  <2> DEFINE q == Order \div len
  <2>1. Order % len \in 0 .. len - 1 /\ q \in Int /\ Order = len * q + (Order % len)
    BY <1>3, DivMod, SMT
  <2> HIDE DEF q
  <2>2. Order = len * q
    BY <1>3, <2>1, SMT
  <2>3. q \in Nat
    <3>1. ~ (q < 0)
      BY <1>3, <2>1, <2>2, NegativeProduct, SMT
    <3> QED BY <2>1, <3>1, SMT
  <2> QED BY <2>2, <2>3 DEF PartsOfCircle
<1>6. PartsOfCircle(M) /\ M % P # 0
  BY <1>1, <1>3, <1>4, <1>5
<1>7. PowerOfTwo(c) => c = M
  BY DEF LengthSupported
<1>8. ASSUME ~ PowerOfTwo(c) PROVE c > 0 /\ PartsOfCircle(2 * c) /\ 2 * c - 1 <= M
  <2>1. c # 0 /\ 2 * c - 1 <= M
    BY <1>8 DEF LengthSupported, PowerOfTwo
  <2>2. c \in 1 .. N_SAMPLES /\ c > 0
    BY <1>1, <2>1, SMT
  <2>3. Order % (2 * c) = 0
    BY <1>8, <2>2, TransformAssumption
  <2> DEFINE d == 2 * c
  <2>4. d \in Nat /\ d > 0 /\ Order % d = 0
    BY <2>2, <2>3, SMT
  <2> HIDE DEF d
  <2>5. PartsOfCircle(d)
    BY <1>5, <2>4
  <2> QED BY <2>1, <2>2, <2>5 DEF d
<1>9. ASSUME c > 0 PROVE PartsOfCircle(c) /\ c % P # 0
  <2>1. c % P # 0
    BY <1>2, <1>4, <1>9
  <2>2. PartsOfCircle(c)
    BY <1>6, <1>7, <1>8, <1>9, PhasorDoubled
  <2> QED BY <2>1, <2>2
<1> QED BY <1>1, <1>2, <1>6, <1>7, <1>8, <1>9

\* The entries of different rows are different entries.
LEMMA RowIndex ==
    ASSUME NEW g \in Nat, NEW k \in 0 .. N_SAMPLES - 1
    PROVE  /\ (g * N_SAMPLES + k) \div N_SAMPLES = g
           /\ (g * N_SAMPLES + k) % N_SAMPLES = k
           /\ g * N_SAMPLES \in Nat /\ g * N_SAMPLES + k \in Nat
           /\ (g * N_SAMPLES + k) - g * N_SAMPLES = k
<1> DEFINE N == N_SAMPLES
           a == g * N
<1>1. N \in Nat /\ a \in Nat /\ a + k \in Int /\ g \in Int /\ a + k = N * g + k
  BY AcquisitionAssumption, SMT
<1>2. a + k \in Nat /\ (a + k) - a = k /\ k \in 0 .. N - 1
  <2> HIDE DEF a
  <2> QED BY <1>1, SMT
<1>3. (a + k) % N = k /\ (a + k) \div N = g
  <2> DEFINE b == a + k
  <2>1. b \in Int /\ b = N * g + k
    BY <1>1
  <2> HIDE DEF b, N
  <2>2. b % N = k /\ b \div N = g
    BY <1>1, <1>2, <2>1, DivModAre
  <2> QED BY <2>2 DEF b
<1> QED BY <1>1, <1>2, <1>3

\* Different rows of a matrix share no entry.
LEMMA RowsApart ==
    ASSUME NEW g \in Nat, NEW h \in Nat, g # h,
           NEW k \in 0 .. N_SAMPLES - 1, NEW l \in 0 .. N_SAMPLES - 1
    PROVE  g * N_SAMPLES + k # h * N_SAMPLES + l
BY RowIndex

\* Row g of a matrix begins with the entries of row.
RowIs(matrix, len, g, row) == \A k \in 0 .. len - 1 : matrix[g * N_SAMPLES + k] = row[k]

RowInside(matrix, len, g) == \A k \in 0 .. len - 1 : g * N_SAMPLES + k \in DOMAIN matrix

\* Putting one row leaves the others alone.
LEMMA PutRowIs ==
    ASSUME NEW matrix, NEW len \in Nat, len <= N_SAMPLES, NEW g \in Nat, NEW h \in Nat,
           NEW r, DOMAIN r = 0 .. len - 1, NEW row,
           RowInside(matrix, len, h), RowIs(matrix, len, h, row)
    PROVE  RowIs(PutRow(matrix, g, r), len, h, IF h = g THEN r ELSE row)
<1> SUFFICES ASSUME NEW k \in 0 .. len - 1
             PROVE  PutRow(matrix, g, r)[h * N_SAMPLES + k] = IF h = g THEN r[k] ELSE row[k]
  BY DEF RowIs
<1>0. matrix[h * N_SAMPLES + k] = row[k] /\ h * N_SAMPLES + k \in DOMAIN matrix
  BY DEF RowIs, RowInside
<1> DEFINE e == h * N_SAMPLES + k
           b == g * N_SAMPLES
<1>1. k \in 0 .. N_SAMPLES - 1 /\ N_SAMPLES \in Nat
  BY AcquisitionAssumption, SMT
<1>2. e \in DOMAIN matrix /\ e \in Nat /\ e - h * N_SAMPLES = k
  BY <1>0, <1>1, RowIndex
<1>3. b \in Nat
  BY <1>1, SMT
<1>4. PutRow(matrix, g, r)[e] = IF e - b \in DOMAIN r THEN r[e - b] ELSE matrix[e]
  BY <1>2 DEF PutRow
<1>5. CASE h = g
  <2>1. e - b = k
    BY <1>2, <1>5
  <2> QED BY <1>4, <1>5, <2>1
<1>6. CASE h # g
  <2>1. e - b \notin 0 .. len - 1
    <3> SUFFICES ASSUME e - b \in 0 .. len - 1 PROVE FALSE
      OBVIOUS
    <3> DEFINE l == e - b
    <3>1. l \in 0 .. N_SAMPLES - 1 /\ b + l = e
      <4> HIDE DEF e, b
      <4> QED BY <1>1, <1>2, <1>3, SMT
    <3> HIDE DEF l
    <3>2. g * N_SAMPLES + l # h * N_SAMPLES + k
      BY <1>1, <1>6, <3>1, RowsApart
    <3> QED BY <3>1, <3>2
  <2> QED BY <1>0, <1>4, <1>6, <2>1
<1> QED BY <1>5, <1>6

\* The rows lie in the block.
LEMMA RowInBlock ==
    ASSUME TypeOK, RowsFit(sampleCount), NEW g \in 0 .. testFreqCount - 1,
           NEW k \in 0 .. sampleCount - 1
    PROVE  /\ g * N_SAMPLES + k \in 0 .. N_FREQ * nrOfSamples - 1
           /\ sampleCount <= N_SAMPLES /\ sampleCount \in Nat /\ g \in Nat
           /\ k \in 0 .. N_SAMPLES - 1
<1>1. /\ testFreqCount \in Nat /\ sampleCount \in Nat /\ nrOfSamples \in Nat
      /\ N_SAMPLES \in Nat /\ N_FREQ \in Nat
  BY AcquisitionAssumption, SMT DEF TypeOK
<1>2. sampleCount <= N_SAMPLES /\ g * N_SAMPLES + sampleCount <= N_FREQ * nrOfSamples
  BY DEF RowsFit, RowFits
<1> DEFINE a == g * N_SAMPLES
           b == N_FREQ * nrOfSamples
<1>3. a \in Nat /\ b \in Nat
  BY <1>1, SMT
<1> HIDE DEF a, b
<1>4. a + k \in 0 .. b - 1 /\ g \in Nat /\ k \in 0 .. N_SAMPLES - 1
  <2>1. a + sampleCount <= b
    BY <1>2 DEF a, b
  <2> QED BY <1>1, <1>2, <1>3, <2>1, SMT
<1> QED BY <1>1, <1>2, <1>4 DEF a, b

-------------------------------------------------------------------------------
(* What a start works on *)

\* What the caller handed over, as it was handed over.
InputsKept ==
    /\ \A k \in 0 .. sampleCount - 1 : samples[k] \in Complex
    /\ given \in Seq(Complex) /\ Len(given) = codesCount
    /\ pc = "none" => given = <<>>
    /\ pc # "none" => /\ DOMAIN testFrequencies = 0 .. N_FREQ - 1
                      /\ DOMAIN table = 0 .. nrOfSamples - 1
    /\ Running => /\ testFreqCount <= N_FREQ
                  /\ \E freqs \in Frequencies :
                        /\ Len(freqs) = testFreqCount
                        /\ \A g \in 0 .. testFreqCount - 1 : testFrequencies[g] = freqs[g + 1]

\* A running start leaves its inputs alone.
LEMMA RunKeeps ==
    ASSUME TypeOK, Run
    PROVE  /\ UNCHANGED <<nrOfSamples, entered, tested, starts, legal, live>>
           /\ Running /\ pc' # "none"
           /\ Running' \/ pc' \in {"undefined", "ready"}
<1> USE DEF entered, tested, ghosts
<1>1. CASE ComputeX
  BY <1>1 DEF ComputeX, Undefined, Running
<1>2. CASE FftByRadix2
  <2>1. CASE TargetFits
    <3>1. Replace(Dft(Target, M, -1)) /\ f \in Nat
      BY <1>2, <2>1 DEF FftByRadix2, TypeOK
    <3>2. pc' = pc \/ pc' = "fftX"
      BY <3>1, ReplaceExtents
    <3> QED BY <1>2, <2>1, <3>2 DEF FftByRadix2, Transforming, Running
  <2>2. CASE ~ TargetFits
    BY <1>2, <2>2 DEF FftByRadix2, Undefined, Transforming, Running
  <2> QED BY <2>1, <2>2
<1>3. CASE ChirpSignal
  <2>1. CASE TargetFits /\ sampleCount <= M
    <3>1. /\ Transforming
          /\ UNCHANGED <<pc, nrOfSamples, entered, codes, tested, matrices, three,
                         xBuffer, yBuffer, search, ghosts>>
      BY <1>3, <2>1 DEF ChirpSignal
    <3> QED BY <3>1 DEF Transforming, Running
  <2>2. CASE ~ (TargetFits /\ sampleCount <= M)
    <3>1. Transforming /\ Undefined
      BY <1>3, <2>2 DEF ChirpSignal
    <3> QED BY <3>1 DEF Undefined, Transforming, Running
  <2> QED BY <2>1, <2>2
<1>4. CASE ConvolutionSpectra
  BY <1>4 DEF ConvolutionSpectra, Transforming, Running
<1>5. CASE ConvolutionProduct
  BY <1>5 DEF ConvolutionProduct, Transforming, Running
<1>6. CASE UnchirpResult
  <2>1. /\ Transforming /\ f \in Nat
        /\ Replace([k \in 0 .. sampleCount - 1 |-> Mul(three'[k], Conj(table[k]))])
    BY <1>6 DEF UnchirpResult, TypeOK
  <2>2. pc' = pc \/ pc' = "fftX"
    BY <2>1, ReplaceExtents
  <2> QED BY <1>6, <2>1, <2>2 DEF UnchirpResult, Transforming, Running
<1>7. CASE ComputeR
  BY <1>7 DEF ComputeR, Undefined, Running
<1>8. CASE ScaleIdft
  BY <1>8 DEF ScaleIdft, Undefined, Running
<1>9. CASE ComputeMaxValue
  <2>1. pc = "max" /\ (pc' = pc \/ pc' = "estimate")
    BY <1>9 DEF ComputeMaxValue, Peak!Search, Peak!ScanEntry, Peak!NextRow, Peak!Return
  <2> QED BY <1>9, <2>1 DEF ComputeMaxValue, Running
<1>10. CASE Decide
  BY <1>10 DEF Decide, Running
<1> QED BY <1>1, <1>2, <1>3, <1>4, <1>5, <1>6, <1>7, <1>8, <1>9, <1>10 DEF Run, Fft

\* The table of the chirp keeps its extent.
LEMMA RunKeepsTable ==
    ASSUME TypeOK, Run
    PROVE  DOMAIN table' = DOMAIN table
<1> USE DEF buffers
<1>1. CASE ChirpSignal
  <2>1. CASE TargetFits /\ sampleCount <= M
    <3>1. table' = [k \in DOMAIN table |-> IF k < sampleCount THEN Chirp(k) ELSE table[k]]
      BY <1>1, <2>1 DEF ChirpSignal
    <3> QED BY <3>1
  <2>2. CASE ~ (TargetFits /\ sampleCount <= M)
    <3>1. Undefined
      BY <1>1, <2>2 DEF ChirpSignal
    <3> QED BY <3>1 DEF Undefined
  <2> QED BY <2>1, <2>2
<1>2. CASE ComputeX \/ FftByRadix2 \/ ConvolutionSpectra \/ ConvolutionProduct \/ UnchirpResult
  BY <1>2 DEF ComputeX, FftByRadix2, ConvolutionSpectra, ConvolutionProduct, UnchirpResult, Undefined
<1>3. CASE ComputeR \/ ScaleIdft \/ ComputeMaxValue \/ Decide
  BY <1>3 DEF ComputeR, ScaleIdft, ComputeMaxValue, Decide, Undefined
<1> QED BY <1>1, <1>2, <1>3 DEF Run, Fft

\* Every call and every stage keeps what the caller handed over.
LEMMA InputsStep == TypeOK /\ InputsKept /\ [Next]_vars => InputsKept'
<1> SUFFICES ASSUME TypeOK, InputsKept, [Next]_vars PROVE InputsKept'
  OBVIOUS
<1> USE DEF entered, tested, matrices, buffers, search, ghosts
<1>1. ASSUME NEW capacity \in Capacities, AllocateAcquisition(capacity) PROVE InputsKept'
  <2>1. /\ pc = "none" /\ pc' = "ready" /\ nrOfSamples' = capacity
        /\ sampleCount' = 0 /\ codesCount' = 0 /\ given' = given
        /\ DOMAIN testFrequencies' = 0 .. N_FREQ - 1 /\ DOMAIN table' = 0 .. capacity - 1
    BY <1>1 DEF AllocateAcquisition, Filled
  <2>2. given = <<>> /\ Len(<<>>) = 0 /\ <<>> \in Seq(Complex)
    BY <2>1 DEF InputsKept
  <2>3. 0 .. sampleCount' - 1 = {}
    BY <2>1, SMT
  <2>4. ~ Running'
    BY <2>1 DEF Running
  <2> QED BY <2>1, <2>2, <2>3, <2>4 DEF InputsKept
<1>2. ASSUME NEW v \in SampleValues, EnterSample(v) PROVE InputsKept'
  <2>1. CASE sampleCount < nrOfSamples
    <3>1. /\ pc = "ready" /\ UNCHANGED <<pc, nrOfSamples, codesCount, given, tested, buffers>>
          /\ samples' = [samples EXCEPT ![sampleCount] = v] /\ sampleCount' = sampleCount + 1
      BY <1>2, <2>1 DEF EnterSample
    <3>2. DOMAIN samples = 0 .. nrOfSamples - 1 /\ sampleCount \in Nat /\ nrOfSamples \in Nat
      BY <3>1, SMT DEF TypeOK
    <3>3. v \in Complex
      BY AcquisitionAssumption
    <3>4. \A k \in 0 .. (sampleCount + 1) - 1 : samples'[k] \in Complex
      <4> SUFFICES ASSUME NEW k \in 0 .. (sampleCount + 1) - 1 PROVE samples'[k] \in Complex
        OBVIOUS
      <4>1. CASE k = sampleCount
        <5>1. k \in DOMAIN samples
          BY <2>1, <3>2, <4>1, SMT
        <5> QED BY <3>1, <3>3, <4>1, <5>1
      <4>2. CASE k # sampleCount
        <5>1. k \in DOMAIN samples /\ k \in 0 .. sampleCount - 1
          BY <2>1, <3>2, <4>2, SMT
        <5> QED BY <3>1, <4>2, <5>1 DEF InputsKept
      <4> QED BY <4>1, <4>2
    <3> QED BY <3>1, <3>4 DEF InputsKept, Running
  <2>2. CASE ~ (sampleCount < nrOfSamples)
    BY <1>2, <2>2 DEF EnterSample, InputsKept, Running
  <2> QED BY <2>1, <2>2
<1>3. ASSUME NEW v \in CodeValues, EnterCode(v) PROVE InputsKept'
  <2>1. CASE codesCount < nrOfSamples
    <3>1. /\ pc = "ready" /\ UNCHANGED <<pc, nrOfSamples, sampleCount, samples, tested, buffers>>
          /\ given' = Append(given, v) /\ codesCount' = codesCount + 1
      BY <1>3, <2>1 DEF EnterCode
    <3>2. v \in Complex /\ given \in Seq(Complex) /\ Len(given) = codesCount
      BY AcquisitionAssumption DEF InputsKept
    <3>3. Append(given, v) \in Seq(Complex) /\ Len(Append(given, v)) = codesCount + 1
      BY <3>2, SMT
    <3> QED BY <3>1, <3>3 DEF InputsKept, Running
  <2>2. CASE ~ (codesCount < nrOfSamples)
    BY <1>3, <2>2 DEF EnterCode, InputsKept, Running
  <2> QED BY <2>1, <2>2
<1>4. ASSUME NEW freqs \in Frequencies, StartAcquisition(freqs) PROVE InputsKept'
  <2>1. /\ pc = "ready" /\ UNCHANGED <<nrOfSamples, entered, buffers>>
        /\ testFreqCount' = Len(freqs) /\ Len(freqs) \in Nat
    <3>1. freqs \in Seq(Int)
      BY AcquisitionAssumption
    <3> QED BY <1>4, <3>1 DEF StartAcquisition
  <2>2. CASE Len(freqs) <= N_FREQ
    <3>1. /\ pc' = "computeX"
          /\ testFrequencies' = [g \in DOMAIN testFrequencies |->
                                   IF g < Len(freqs) THEN freqs[g + 1] ELSE testFrequencies[g]]
      BY <1>4, <2>2 DEF StartAcquisition
    <3>2. DOMAIN testFrequencies = 0 .. N_FREQ - 1 /\ N_FREQ \in Nat
      BY <2>1, AcquisitionAssumption DEF InputsKept
    <3>3. \A g \in 0 .. testFreqCount' - 1 : testFrequencies'[g] = freqs[g + 1]
      <4> SUFFICES ASSUME NEW g \in 0 .. testFreqCount' - 1
                   PROVE  testFrequencies'[g] = freqs[g + 1]
        OBVIOUS
      <4>1. g < Len(freqs) /\ g \in 0 .. N_FREQ - 1
        BY <2>1, <2>2, <3>2, SMT
      <4> QED BY <3>1, <3>2, <4>1
    <3>4. DOMAIN testFrequencies' = 0 .. N_FREQ - 1
      BY <3>1, <3>2
    <3> QED BY <2>1, <2>2, <3>1, <3>3, <3>4 DEF InputsKept
  <2>3. CASE ~ (Len(freqs) <= N_FREQ)
    <3>1. pc' = "undefined" /\ testFrequencies' = testFrequencies
      BY <1>4, <2>3 DEF StartAcquisition
    <3> QED BY <2>1, <3>1 DEF InputsKept, Running
  <2> QED BY <2>2, <2>3
<1>5. CASE DeleteAcquisition
  BY <1>5 DEF DeleteAcquisition, InputsKept, Running
<1>6. CASE Run
  <2>1. UNCHANGED <<nrOfSamples, entered, tested>> /\ Running /\ pc' # "none" /\ pc # "none"
    <3>1. UNCHANGED <<nrOfSamples, entered, tested>> /\ Running /\ pc' # "none"
      BY <1>6, RunKeeps
    <3>2. Running => pc # "none"
      BY DEF Running
    <3> QED BY <3>1, <3>2
  <2>2. DOMAIN table' = DOMAIN table
    BY <1>6, RunKeepsTable
  <2> QED BY <2>1, <2>2 DEF InputsKept
<1>7. CASE UNCHANGED vars
  BY <1>7 DEF vars, InputsKept, Running
<1> QED BY <1>1, <1>2, <1>3, <1>4, <1>5, <1>6, <1>7 DEF Next

-------------------------------------------------------------------------------
(* A transform, from the chirp to the spectrum *)

SpectraProduct(a, b) == [k \in 0 .. M - 1 |-> Mul(Dft(a, M, -1)[k], Dft(b, M, -1)[k])]

\* What the arrays of bluestein and of complexConvolution hold between their steps.
TransformInProgress ==
    /\ one = ChirpedSignal(Target, sampleCount, M)
    /\ two = ChirpFilter(sampleCount, M)
    /\ \A k \in 0 .. sampleCount - 1 : table[k] = ChirpOf(k, sampleCount)
    /\ sub = "product" => xBuffer = Dft(one, M, -1) /\ yBuffer = Dft(two, M, -1)
    /\ sub = "scale" => xBuffer = Dft(SpectraProduct(one, two), M, 1)

TransformsKept ==
    /\ sub \in {"enter", "spectra", "product", "scale"}
    /\ ~ Transforming => sub = "enter"
    /\ sub # "enter" =>
         /\ MoreRows /\ TargetFits /\ ~ PowerOfTwo(sampleCount) /\ sampleCount <= M
         /\ LengthSupported(sampleCount) => TransformInProgress

\* Both writers of an entry of two are never below a supported length.
LEMMA FilterWriters ==
    ASSUME NEW c \in Nat, 2 * c - 1 <= M, NEW k \in 0 .. M - 1
    PROVE  LET writers == WithMirror(k) \cap 0 .. c - 1
           IN  /\ k < c => writers = {k}
               /\ ~ (k < c) /\ M - k < c => writers = {M - k}
               /\ ~ (k < c) /\ ~ (M - k < c) => writers = {}
<1>1. M \in Nat
  BY AcquisitionAssumption
<1>2. ASSUME k < c PROVE WithMirror(k) \cap 0 .. c - 1 = {k}
  <2>1. k \in 0 .. c - 1 /\ (M - k \in 0 .. c - 1 => M - k = k)
    BY <1>1, <1>2, SMT
  <2> QED BY <2>1 DEF WithMirror
<1>3. ASSUME ~ (k < c), M - k < c PROVE WithMirror(k) \cap 0 .. c - 1 = {M - k}
  <2>1. k \notin 0 .. c - 1 /\ M - k \in 0 .. c - 1
    BY <1>1, <1>3, SMT
  <2> QED BY <2>1 DEF WithMirror
<1>4. ASSUME ~ (k < c), ~ (M - k < c) PROVE WithMirror(k) \cap 0 .. c - 1 = {}
  <2>1. k \notin 0 .. c - 1 /\ M - k \notin 0 .. c - 1
    BY <1>1, <1>4, SMT
  <2> QED BY <2>1 DEF WithMirror
<1> QED BY <1>2, <1>3, <1>4

\* The loops of bluestein build the chirped signal and the filter.
LEMMA ChirpLoops ==
    ASSUME TypeOK, PaddingZero, pc # "none", DOMAIN table = 0 .. nrOfSamples - 1,
           ChirpSignal, TargetFits, sampleCount <= M, LengthSupported(sampleCount)
    PROVE  /\ one' = ChirpedSignal(Target, sampleCount, M)
           /\ two' = ChirpFilter(sampleCount, M)
           /\ \A k \in 0 .. sampleCount - 1 : table'[k] = ChirpOf(k, sampleCount)
<1> DEFINE c == sampleCount
<1>1. c \in Nat /\ c <= nrOfSamples /\ M \in Nat /\ nrOfSamples \in Nat
  BY AcquisitionAssumption, SMT DEF TypeOK
<1>2. 2 * c - 1 <= M
  BY DEF LengthSupported, ChirpSignal
<1>3. \A k : Chirp(k) = ChirpOf(k, c)
  BY DEF Chirp, ChirpOf
<1>4. \A k \in 0 .. c - 1 : table'[k] = ChirpOf(k, c)
  <2> SUFFICES ASSUME NEW k \in 0 .. c - 1 PROVE table'[k] = ChirpOf(k, c)
    OBVIOUS
  <2>1. k \in DOMAIN table /\ k < c
    BY <1>1, SMT
  <2>2. table' = [l \in DOMAIN table |-> IF l < sampleCount THEN Chirp(l) ELSE table[l]]
    BY DEF ChirpSignal
  <2> QED BY <1>3, <2>1, <2>2
<1>5. one' = ChirpedSignal(Target, c, M)
  <2>1. one' = [k \in 0 .. M - 1 |->
                  IF k < sampleCount THEN Mul(Target[k], Conj(Chirp(k))) ELSE one[k]]
    BY DEF ChirpSignal
  <2>2. \A k \in 0 .. M - 1 : ~ (k < c) => one[k] = Zero
    <3>1. \A k \in 0 .. M - 1 : ~ (k < c) => k >= c
      BY <1>1, SMT
    <3> QED BY <3>1 DEF PaddingZero
  <2>3. \A k \in 0 .. M - 1 :
          (IF k < c THEN Mul(Target[k], Conj(Chirp(k))) ELSE one[k])
            = (IF k < c THEN Mul(Target[k], Conj(ChirpOf(k, c))) ELSE Zero)
    BY <1>3, <2>2
  <2> QED BY <2>1, <2>3, Zenon DEF ChirpedSignal
<1>6. two' = ChirpFilter(c, M)
  <2>1. two' = [k \in 0 .. M - 1 |->
                  LET writers == WithMirror(k) \cap 0 .. sampleCount - 1
                  IN  IF writers = {} THEN two[k]
                      ELSE Chirp(CHOOSE l \in writers : \A h \in writers : h <= l)]
    BY DEF ChirpSignal
  <2>2. ASSUME NEW k \in 0 .. M - 1
        PROVE  (LET writers == WithMirror(k) \cap 0 .. sampleCount - 1
                IN  IF writers = {} THEN two[k]
                    ELSE Chirp(CHOOSE l \in writers : \A h \in writers : h <= l))
                 = (IF k < c THEN ChirpOf(k, c) ELSE IF M - k < c THEN ChirpOf(M - k, c) ELSE Zero)
    <3> DEFINE w == WithMirror(k) \cap 0 .. c - 1
               top(S) == CHOOSE l \in S : \A h \in S : h <= l
    <3>1. \A l \in Int : top({l}) = l
      BY SMT
    <3>2. k \in Int /\ M - k \in Int
      BY <1>1, SMT
    <3>3. /\ k < c => w = {k}
          /\ ~ (k < c) /\ M - k < c => w = {M - k}
          /\ ~ (k < c) /\ ~ (M - k < c) => w = {}
      BY <1>1, <1>2, FilterWriters
    <3>4. ~ (k < c) /\ ~ (M - k < c) => two[k] = Zero
      <4>1. ~ (k < c) /\ ~ (M - k < c) => k >= c /\ k <= M - c
        BY <1>1, SMT
      <4> QED BY <4>1 DEF PaddingZero
    <3>5. (IF w = {} THEN two[k] ELSE Chirp(top(w)))
            = (IF k < c THEN ChirpOf(k, c) ELSE IF M - k < c THEN ChirpOf(M - k, c) ELSE Zero)
      <4> HIDE DEF w, top
      <4> QED BY <1>3, <3>1, <3>2, <3>3, <3>4
    <3> QED BY <3>5
  <2> QED BY <2>1, <2>2, Zenon DEF ChirpFilter
<1> QED BY <1>4, <1>5, <1>6

\* The steps of one transform work on one target.
LEMMA TargetKept ==
    ASSUME UNCHANGED <<pc, nrOfSamples, sampleCount, testFreqCount, codes, matrices, f>>
    PROVE  /\ Target' = Target /\ MoreRows' = MoreRows /\ TargetFits' = TargetFits
           /\ Transforming' = Transforming /\ FftLength' = FftLength
BY DEF Target, MoreRows, TargetFits, Transforming, FftLength, RowFits, matrices

\* Every step of a transform keeps what its temporaries hold.
LEMMA TransformsStep ==
    TypeOK /\ PaddingZero /\ InputsKept /\ TransformsKept /\ [Next]_vars => TransformsKept'
<1> SUFFICES ASSUME TypeOK, PaddingZero, InputsKept, TransformsKept, [Next]_vars
             PROVE  TransformsKept'
  OBVIOUS
<1> USE DEF buffers
\* No transform under way.
<1>e. ASSUME sub' = "enter" PROVE TransformsKept'
  BY <1>e DEF TransformsKept
<1>1. CASE ChirpSignal
  <2>1. CASE TargetFits /\ sampleCount <= M
    <3>1. /\ UNCHANGED <<pc, nrOfSamples, sampleCount, testFreqCount, codes, matrices, f>>
          /\ sub' = "spectra" /\ Transforming /\ MoreRows /\ ~ PowerOfTwo(sampleCount)
      BY <1>1, <2>1 DEF ChirpSignal, entered, tested, search
    <3>2. /\ Target' = Target /\ MoreRows' = MoreRows /\ TargetFits' = TargetFits
          /\ Transforming' = Transforming
      BY <3>1, TargetKept
    <3>3. pc # "none" /\ DOMAIN table = 0 .. nrOfSamples - 1
      BY <3>1 DEF Transforming, InputsKept
    <3>4. LengthSupported(sampleCount) =>
            /\ one' = ChirpedSignal(Target, sampleCount, M)
            /\ two' = ChirpFilter(sampleCount, M)
            /\ \A k \in 0 .. sampleCount - 1 : table'[k] = ChirpOf(k, sampleCount)
      BY <1>1, <2>1, <3>3, ChirpLoops
    <3>5. LengthSupported(sampleCount) => TransformInProgress'
      BY <3>1, <3>2, <3>4 DEF TransformInProgress
    <3> QED BY <2>1, <3>1, <3>2, <3>5 DEF TransformsKept
  <2>2. CASE ~ (TargetFits /\ sampleCount <= M)
    <3>1. Undefined /\ sub = "enter"
      BY <1>1, <2>2 DEF ChirpSignal
    <3> QED BY <1>e, <3>1 DEF Undefined
  <2> QED BY <2>1, <2>2
<1>2. CASE ConvolutionSpectra
  <2>1. /\ UNCHANGED <<pc, nrOfSamples, sampleCount, testFreqCount, codes, matrices, f>>
        /\ UNCHANGED <<table, one, two>> /\ sub = "spectra" /\ sub' = "product"
        /\ xBuffer' = Dft(one, M, -1) /\ yBuffer' = Dft(two, M, -1)
    BY <1>2 DEF ConvolutionSpectra, entered, tested, search
  <2>2. /\ Target' = Target /\ MoreRows' = MoreRows /\ TargetFits' = TargetFits
        /\ Transforming' = Transforming
    BY <2>1, TargetKept
  <2> QED BY <2>1, <2>2 DEF TransformsKept, TransformInProgress
<1>3. CASE ConvolutionProduct
  <2>1. /\ UNCHANGED <<pc, nrOfSamples, sampleCount, testFreqCount, codes, matrices, f>>
        /\ UNCHANGED <<table, one, two>> /\ sub = "product" /\ sub' = "scale"
        /\ xBuffer' = Dft([k \in 0 .. M - 1 |-> Mul(xBuffer[k], yBuffer[k])], M, 1)
    BY <1>3 DEF ConvolutionProduct, entered, tested, search
  <2>2. /\ Target' = Target /\ MoreRows' = MoreRows /\ TargetFits' = TargetFits
        /\ Transforming' = Transforming
    BY <2>1, TargetKept
  <2>3. LengthSupported(sampleCount) => xBuffer' = Dft(SpectraProduct(one, two), M, 1)
    BY <2>1 DEF TransformsKept, TransformInProgress, SpectraProduct
  <2> QED BY <2>1, <2>2, <2>3 DEF TransformsKept, TransformInProgress
<1>4. CASE UnchirpResult \/ FftByRadix2
  <2>1. CASE UnchirpResult
    BY <1>e, <2>1 DEF UnchirpResult
  <2>2. CASE FftByRadix2
    <3>1. sub' = "enter"
      BY <2>2 DEF FftByRadix2, Undefined
    <3> QED BY <1>e, <3>1
  <2> QED BY <1>4, <2>1, <2>2
<1>5. CASE UNCHANGED vars
  <2>1. UNCHANGED <<pc, nrOfSamples, sampleCount, testFreqCount, codes, matrices, f, buffers>>
    BY <1>5 DEF vars, entered, tested, search
  <2>2. /\ Target' = Target /\ MoreRows' = MoreRows /\ TargetFits' = TargetFits
        /\ Transforming' = Transforming
    BY <2>1, TargetKept
  <2> QED BY <2>1, <2>2 DEF TransformsKept, TransformInProgress
\* The other steps start where no transform is under way.
<1>6. ASSUME NEW capacity \in Capacities, AllocateAcquisition(capacity) PROVE TransformsKept'
  <2>1. sub' = sub /\ ~ Transforming
    BY <1>6 DEF AllocateAcquisition, Transforming
  <2> QED BY <1>e, <2>1 DEF TransformsKept
<1>7. ASSUME NEW v \in SampleValues, EnterSample(v) PROVE TransformsKept'
  <2>1. sub' = sub /\ ~ Transforming
    BY <1>7 DEF EnterSample, Transforming
  <2> QED BY <1>e, <2>1 DEF TransformsKept
<1>8. ASSUME NEW v \in CodeValues, EnterCode(v) PROVE TransformsKept'
  <2>1. sub' = sub /\ ~ Transforming
    BY <1>8 DEF EnterCode, Transforming
  <2> QED BY <1>e, <2>1 DEF TransformsKept
<1>9. ASSUME NEW freqs \in Frequencies, StartAcquisition(freqs) PROVE TransformsKept'
  <2>1. sub' = sub /\ ~ Transforming
    BY <1>9 DEF StartAcquisition, Transforming
  <2> QED BY <1>e, <2>1 DEF TransformsKept
<1>10. CASE DeleteAcquisition \/ ComputeX \/ ComputeMaxValue \/ Decide
  <2>1. sub' = sub /\ ~ Transforming
    BY <1>10 DEF DeleteAcquisition, ComputeX, ComputeMaxValue, Decide, Undefined, Transforming
  <2> QED BY <1>e, <2>1 DEF TransformsKept
\* computeR and the scaling follow when no row is left.
<1>11. CASE ComputeR \/ ScaleIdft
  <2>1. sub' = sub /\ f >= testFreqCount /\ pc # "fftCodes"
    BY <1>11 DEF ComputeR, ScaleIdft, Undefined
  <2>2. ~ MoreRows
    BY <2>1, SMT DEF MoreRows, TypeOK
  <2> QED BY <1>e, <2>1, <2>2 DEF TransformsKept
<1> QED
  BY <1>1, <1>2, <1>3, <1>4, <1>5, <1>6, <1>7, <1>8, <1>9, <1>10, <1>11 DEF Next, Run, Fft

-------------------------------------------------------------------------------
(* The spectra *)

\* The samples of the object moved down by its frequency g, its codes as they were
\* entered, and the conjugate of their spectrum.
LoweredRow(g) == [k \in 0 .. sampleCount - 1 |->
                    Mul(samples[k], Conj(Phasor(testFrequencies[g] * k, F_S)))]
CodeRow       == [k \in 0 .. sampleCount - 1 |-> given[k + 1]]
CodeSpectrum  == [k \in 0 .. sampleCount - 1 |-> Conj(Dft(CodeRow, sampleCount, -1)[k])]

SpectraKept ==
    /\ pc \in {"fftCodes", "fftX", "inverseFft", "max"} => RowsFit(sampleCount)
    /\ pc = "fftCodes" =>
         \A g \in 0 .. testFreqCount - 1 : RowIs(xMatrix, sampleCount, g, LoweredRow(g))
    /\ pc = "fftX" /\ LengthSupported(sampleCount) =>
         \A g \in 0 .. testFreqCount - 1 :
            RowIs(xMatrix, sampleCount, g,
                  IF g < f THEN Dft(LoweredRow(g), sampleCount, -1) ELSE LoweredRow(g))
    /\ legal /\ ((pc = "ready" /\ starts = 0) \/ pc \in {"computeX", "fftCodes"}) =>
         \A k \in 0 .. codesCount - 1 : codes[k] = given[k + 1]
    /\ legal /\ pc = "fftX" => \A k \in 0 .. sampleCount - 1 : codes[k] = CodeSpectrum[k]

\* The arrays handed to the transforms are arrays of field elements.
LEMMA InputTypes ==
    ASSUME TypeOK, InputsKept, Running
    PROVE  /\ sampleCount \in Nat /\ testFreqCount \in Nat
           /\ \A g \in 0 .. testFreqCount - 1 :
                 /\ testFrequencies[g] \in Int
                 /\ \A k \in 0 .. sampleCount - 1 : LoweredRow(g)[k] \in Complex
           /\ codesCount = sampleCount => \A k \in 0 .. sampleCount - 1 : CodeRow[k] \in Complex
<1>1. sampleCount \in Nat /\ testFreqCount \in Nat
  BY SMT DEF TypeOK
<1>2. PICK freqs \in Frequencies :
        /\ Len(freqs) = testFreqCount
        /\ \A g \in 0 .. testFreqCount - 1 : testFrequencies[g] = freqs[g + 1]
  BY DEF InputsKept
<1>3. freqs \in Seq(Int)
  BY AcquisitionAssumption
<1>4. ASSUME NEW g \in 0 .. testFreqCount - 1 PROVE testFrequencies[g] \in Int
  <2>1. g + 1 \in 1 .. Len(freqs)
    BY <1>1, <1>2, SMT
  <2>2. freqs[g + 1] \in Int
    BY <1>3, <2>1
  <2> QED BY <1>2, <2>2
<1>5. \A e \in Int : Phasor(e, F_S) \in Complex
  <2> SUFFICES ASSUME NEW e \in Int PROVE Phasor(e, F_S) \in Complex
    OBVIOUS
  <2> DEFINE q == Order \div F_S
  <2>1. q \in Int
    <3>1. F_S \in Nat /\ F_S > 0 /\ Order \in Int
      BY AcquisitionAssumption, OrderFacts, SMT
    <3> QED BY <3>1, DivMod
  <2> HIDE DEF q
  <2>2. e * q \in Int
    BY <2>1, SMT
  <2>3. Turn(e * q) \in Complex
    BY <2>2, TurnType
  <2> QED BY <2>3 DEF Phasor, Turn, q
<1>6. ASSUME NEW g \in 0 .. testFreqCount - 1, NEW k \in 0 .. sampleCount - 1
      PROVE  LoweredRow(g)[k] \in Complex
  <2>1. samples[k] \in Complex
    BY DEF InputsKept
  <2>2. testFrequencies[g] * k \in Int
    BY <1>4, SMT
  <2>3. Conj(Phasor(testFrequencies[g] * k, F_S)) \in Complex
    BY <1>5, <2>2, PairTypes
  <2> QED BY <2>1, <2>3, Closed DEF LoweredRow
<1>7. ASSUME codesCount = sampleCount, NEW k \in 0 .. sampleCount - 1
      PROVE  CodeRow[k] \in Complex
  <2>1. k + 1 \in 1 .. Len(given) /\ given \in Seq(Complex)
    BY <1>1, <1>7, SMT DEF InputsKept
  <2> QED BY <2>1 DEF CodeRow
<1> QED BY <1>1, <1>4, <1>6, <1>7

\* Transforms of equal arrays are equal.
LEMMA DftSame ==
    ASSUME NEW x, NEW y, NEW len, NEW sign, \A t \in 0 .. len - 1 : x[t] = y[t]
    PROVE  Dft(x, len, sign) = Dft(y, len, sign)
BY Zenon DEF Dft

\* What a step of a transform does: nothing to the signals, or their transform.
LEMMA FftSteps ==
    ASSUME TypeOK, TransformsKept, Fft
    PROVE  \/ Undefined
           \/ UNCHANGED <<pc, codes, matrices, f>>
           \/ /\ Transforming /\ MoreRows /\ TargetFits
              /\ LengthSupported(sampleCount) /\ sampleCount <= N_SAMPLES
                   => FftLength = sampleCount
              /\ \E v : /\ Replace(v)
                        /\ /\ LengthSupported(sampleCount) /\ sampleCount <= N_SAMPLES
                           /\ \A k \in 0 .. sampleCount - 1 : Target[k] \in Complex
                           => v = Dft(Target, sampleCount, -1)
<1> DEFINE c == sampleCount
<1>1. c \in Nat
  BY SMT DEF TypeOK
<1>2. LengthSupported(c) /\ c <= N_SAMPLES => FftLength = c
  BY <1>1, SupportedFacts DEF FftLength
<1>3. CASE FftByRadix2
  <2>1. CASE ~ TargetFits
    BY <1>3, <2>1 DEF FftByRadix2
  <2>2. CASE TargetFits
    <3>1. Transforming /\ MoreRows /\ PowerOfTwo(c) /\ Replace(Dft(Target, M, -1))
      BY <1>3, <2>2 DEF FftByRadix2
    <3>2. LengthSupported(c) /\ c <= N_SAMPLES => M = c
      BY <1>1, <3>1, SupportedFacts
    <3> QED BY <1>2, <2>2, <3>1, <3>2
  <2> QED BY <2>1, <2>2
<1>4. CASE ChirpSignal
  <2>1. CASE TargetFits /\ c <= M
    BY <1>4, <2>1 DEF ChirpSignal, search
  <2>2. CASE ~ (TargetFits /\ c <= M)
    BY <1>4, <2>2 DEF ChirpSignal
  <2> QED BY <2>1, <2>2
<1>5. CASE ConvolutionSpectra \/ ConvolutionProduct
  BY <1>5 DEF ConvolutionSpectra, ConvolutionProduct, search
<1>6. CASE UnchirpResult
  <2> DEFINE v == [k \in 0 .. sampleCount - 1 |-> Mul(three'[k], Conj(table[k]))]
  <2>1. /\ Transforming /\ Replace(v) /\ sub = "scale"
        /\ three' = [k \in 0 .. M - 1 |-> Scale(xBuffer[k], Recip(M))]
    BY <1>6 DEF UnchirpResult
  <2>2. MoreRows /\ TargetFits /\ ~ PowerOfTwo(c) /\ (LengthSupported(c) => TransformInProgress)
    BY <2>1 DEF TransformsKept
  <2>3. ASSUME LengthSupported(c), c <= N_SAMPLES, \A k \in 0 .. c - 1 : Target[k] \in Complex
        PROVE  v = Dft(Target, c, -1)
    <3> DEFINE p == SpectraProduct(one, two)
    <3>1. /\ one = ChirpedSignal(Target, c, M) /\ two = ChirpFilter(c, M)
          /\ \A k \in 0 .. c - 1 : table[k] = ChirpOf(k, c)
          /\ xBuffer = Dft(p, M, 1)
      BY <2>1, <2>2, <2>3 DEF TransformInProgress
    <3>2. /\ M \in Nat /\ PartsOfCircle(M) /\ M % P # 0 /\ c <= M
          /\ PartsOfCircle(2 * c) /\ 2 * c - 1 <= M
      BY <1>1, <2>2, <2>3, SupportedFacts
    <3>3. \A j \in 0 .. M - 1 : p[j] = Mul(Dft(ChirpedSignal(Target, c, M), M, -1)[j],
                                            Dft(ChirpFilter(c, M), M, -1)[j])
      BY <3>1 DEF SpectraProduct
    <3>4. ASSUME NEW k \in 0 .. c - 1 PROVE v[k] = Dft(Target, c, -1)[k]
      <4>1. k \in 0 .. M - 1
        BY <1>1, <3>2, SMT
      <4>2. v[k] = Mul(Scale(xBuffer[k], Recip(M)), Conj(table[k]))
        BY <2>1, <4>1
      <4> DEFINE X == Target
      <4>3. Mul(Scale(Dft(p, M, 1)[k], Recip(M)), Conj(ChirpOf(k, c))) = Dft(X, c, -1)[k]
        <5>1. \A t \in 0 .. c - 1 : X[t] \in Complex
          BY <2>3
        <5>2. \A j \in 0 .. M - 1 : p[j] = Mul(Dft(ChirpedSignal(X, c, M), M, -1)[j],
                                                Dft(ChirpFilter(c, M), M, -1)[j])
          BY <3>3
        <5> HIDE DEF X, p, v
        <5> QED BY <1>1, <3>2, <5>1, <5>2, BluesteinTransforms
      <4> QED BY <3>1, <4>2, <4>3
    <3>5. v = [k \in 0 .. c - 1 |-> v[k]] /\ Dft(Target, c, -1) = [k \in 0 .. c - 1 |-> Dft(Target, c, -1)[k]]
      BY DEF Dft
    <3> HIDE DEF v
    <3> QED BY <3>4, <3>5, Zenon
  <2> HIDE DEF v
  <2> QED BY <1>2, <2>1, <2>2, <2>3
<1> QED BY <1>3, <1>4, <1>5, <1>6 DEF Fft

\* The rows and the spectra a start works towards depend on its inputs alone.
LEMMA RowsSame ==
    ASSUME UNCHANGED <<entered, tested>>
    PROVE  /\ \A g : LoweredRow(g)' = LoweredRow(g)
           /\ CodeRow' = CodeRow /\ CodeSpectrum' = CodeSpectrum
BY DEF LoweredRow, CodeRow, CodeSpectrum, entered, tested

\* computeX writes the lowered samples of every frequency.
LEMMA ComputeXRows ==
    ASSUME TypeOK, ComputeX, RowsFit(sampleCount)
    PROVE  \A g \in 0 .. testFreqCount - 1 :
              \A k \in 0 .. sampleCount - 1 : xMatrix'[g * N_SAMPLES + k] = LoweredRow(g)[k]
<1> SUFFICES ASSUME NEW g \in 0 .. testFreqCount - 1, NEW k \in 0 .. sampleCount - 1
             PROVE  xMatrix'[g * N_SAMPLES + k] = LoweredRow(g)[k]
  OBVIOUS
<1> DEFINE e == g * N_SAMPLES + k
<1>1. /\ e \in 0 .. N_FREQ * nrOfSamples - 1 /\ g \in Nat /\ k \in 0 .. N_SAMPLES - 1
      /\ g < testFreqCount /\ k < sampleCount
  BY RowInBlock, SMT DEF TypeOK
<1>2. e \div N_SAMPLES = g /\ e % N_SAMPLES = k
  BY <1>1, RowIndex
<1>3. e \in DOMAIN xMatrix
  BY <1>1 DEF ComputeX, TypeOK
<1>4. xMatrix'[e] = IF e \div N_SAMPLES < testFreqCount /\ e % N_SAMPLES < sampleCount
                    THEN Mul(samples[e % N_SAMPLES],
                             Conj(Phasor(testFrequencies[e \div N_SAMPLES] * (e % N_SAMPLES), F_S)))
                    ELSE xMatrix[e]
  <2> HIDE DEF e
  <2> QED BY <1>3 DEF ComputeX, FillRows
<1> HIDE DEF e
<1> QED BY <1>1, <1>2, <1>4 DEF LoweredRow, e

\* Nothing but the order of the steps of the spectra is left to the steps of a run.
LEMMA SpectraStep ==
    /\ TypeOK /\ InputsKept /\ TransformsKept /\ ContractKept /\ FieldsAreCandidate
    /\ SpectraKept /\ [Next]_vars
    => SpectraKept'
<1> SUFFICES ASSUME TypeOK, InputsKept, TransformsKept, ContractKept, FieldsAreCandidate,
                    SpectraKept, [Next]_vars
             PROVE  SpectraKept'
  OBVIOUS
\* After a step that leaves the run nothing is left to show.
<1>e. ASSUME pc' \in {"undefined", "deleted", "estimate"} PROVE SpectraKept'
  BY <1>e DEF SpectraKept
<1>u. ASSUME Undefined PROVE SpectraKept'
  BY <1>e, <1>u DEF Undefined
<1>1. ASSUME NEW capacity \in Capacities, AllocateAcquisition(capacity) PROVE SpectraKept'
  <2>1. pc' = "ready" /\ codesCount' = 0
    BY <1>1 DEF AllocateAcquisition
  <2>2. 0 .. codesCount' - 1 = {}
    BY <2>1, SMT
  <2> QED BY <2>1, <2>2 DEF SpectraKept
<1>2. ASSUME NEW v \in SampleValues, EnterSample(v) PROVE SpectraKept'
  <2>1. pc = "ready" /\ pc' \in {"ready", "undefined"}
    BY <1>2 DEF EnterSample
  <2>2. CASE pc' = "ready"
    <3>1. UNCHANGED <<codesCount, codes, given, legal, starts>>
      BY <1>2, <2>2 DEF EnterSample, ghosts
    <3> QED BY <2>1, <2>2, <3>1 DEF SpectraKept
  <2> QED BY <1>e, <2>1, <2>2
<1>3. ASSUME NEW v \in CodeValues, EnterCode(v) PROVE SpectraKept'
  <2>1. CASE codesCount < nrOfSamples
    <3>1. /\ pc = "ready" /\ pc' = pc /\ UNCHANGED <<legal, starts>>
          /\ codes' = [codes EXCEPT ![codesCount] = v] /\ given' = Append(given, v)
          /\ codesCount' = codesCount + 1
      BY <1>3, <2>1 DEF EnterCode, ghosts
    <3>2. /\ DOMAIN codes = 0 .. nrOfSamples - 1 /\ codesCount \in Nat /\ nrOfSamples \in Nat
          /\ given \in Seq(Complex) /\ Len(given) = codesCount
      BY <3>1, SMT DEF TypeOK, InputsKept
    <3>3. ASSUME \A k \in 0 .. codesCount - 1 : codes[k] = given[k + 1],
                 NEW k \in 0 .. codesCount' - 1
          PROVE  codes'[k] = given'[k + 1]
      <4>1. CASE k = codesCount
        <5>1. k \in DOMAIN codes /\ k + 1 = Len(given) + 1
          BY <2>1, <3>2, <4>1, SMT
        <5>2. codes'[k] = v
          BY <3>1, <4>1, <5>1
        <5>3. Append(given, v)[Len(given) + 1] = v
          BY <3>2, SMT
        <5> QED BY <3>1, <5>1, <5>2, <5>3
      <4>2. CASE k # codesCount
        <5>1. k \in DOMAIN codes /\ k \in 0 .. codesCount - 1 /\ k + 1 \in 1 .. Len(given)
          BY <2>1, <3>1, <3>2, <4>2, SMT
        <5>2. codes'[k] = codes[k]
          BY <3>1, <4>2, <5>1
        <5>3. Append(given, v)[k + 1] = given[k + 1]
          BY <3>2, <5>1, SMT
        <5> QED BY <3>1, <3>3, <5>1, <5>2, <5>3
      <4> QED BY <4>1, <4>2
    <3> QED BY <3>1, <3>3 DEF SpectraKept
  <2>2. CASE ~ (codesCount < nrOfSamples)
    BY <1>3, <1>e, <2>2 DEF EnterCode
  <2> QED BY <2>1, <2>2
<1>4. ASSUME NEW freqs \in Frequencies, StartAcquisition(freqs) PROVE SpectraKept'
  <2>1. CASE Len(freqs) <= N_FREQ
    <3>1. /\ pc = "ready" /\ pc' = "computeX" /\ UNCHANGED <<codesCount, codes, given>>
          /\ legal' => legal /\ starts = 0
      BY <1>4, <2>1 DEF StartAcquisition, InContract, entered
    <3> QED BY <3>1 DEF SpectraKept
  <2>2. CASE ~ (Len(freqs) <= N_FREQ)
    BY <1>4, <1>e, <2>2 DEF StartAcquisition
  <2> QED BY <2>1, <2>2
<1>5. CASE DeleteAcquisition
  BY <1>5, <1>e DEF DeleteAcquisition
<1>6. CASE ComputeX
  <2>1. CASE RowsFit(sampleCount)
    <3>1. /\ pc = "computeX" /\ pc' = "fftCodes"
          /\ UNCHANGED <<nrOfSamples, entered, tested, codes, legal, starts>>
      BY <1>6, <2>1 DEF ComputeX, ghosts
    <3>2. \A g \in 0 .. testFreqCount - 1 : RowIs(xMatrix, sampleCount, g, LoweredRow(g))'
      <4>1. sampleCount' = sampleCount /\ testFreqCount' = testFreqCount
        BY <3>1 DEF entered, tested
      <4> QED BY <1>6, <2>1, <3>1, <4>1, ComputeXRows, RowsSame DEF RowIs
    <3>3. RowsFit(sampleCount)'
      BY <2>1, <3>1 DEF RowsFit, RowFits, entered, tested
    <3>4. testFreqCount' = testFreqCount /\ codesCount' = codesCount /\ given' = given
      BY <3>1 DEF entered, tested
    <3> QED BY <3>1, <3>2, <3>3, <3>4 DEF SpectraKept
  <2>2. CASE ~ RowsFit(sampleCount)
    BY <1>6, <1>u, <2>2 DEF ComputeX
  <2> QED BY <2>1, <2>2
<1>7. CASE ComputeR
  <2>1. CASE RowsFit(codesCount)
    <3>1. /\ pc = "fftX" /\ pc' = "inverseFft"
          /\ UNCHANGED <<nrOfSamples, entered, tested>>
      BY <1>7, <2>1 DEF ComputeR
    <3>2. RowsFit(sampleCount)'
      BY <3>1 DEF SpectraKept, RowsFit, RowFits, entered, tested
    <3> QED BY <3>1, <3>2 DEF SpectraKept
  <2>2. CASE ~ RowsFit(codesCount)
    BY <1>7, <1>u, <2>2 DEF ComputeR
  <2> QED BY <2>1, <2>2
<1>8. CASE ScaleIdft
  <2>1. CASE RowsFit(sampleCount)
    <3>1. pc' = "max" /\ UNCHANGED <<nrOfSamples, entered, tested>>
      BY <1>8, <2>1 DEF ScaleIdft
    <3>2. RowsFit(sampleCount)'
      BY <2>1, <3>1 DEF RowsFit, RowFits, entered, tested
    <3> QED BY <3>1, <3>2 DEF SpectraKept
  <2>2. CASE ~ RowsFit(sampleCount)
    BY <1>8, <1>u, <2>2 DEF ScaleIdft
  <2> QED BY <2>1, <2>2
<1>9. CASE ComputeMaxValue
  <2>1. pc = "max" /\ (pc' = pc \/ pc' = "estimate")
    BY <1>9 DEF ComputeMaxValue, Peak!Search, Peak!ScanEntry, Peak!NextRow, Peak!Return
  <2>2. UNCHANGED <<nrOfSamples, sampleCount, testFreqCount>>
    BY <1>9 DEF ComputeMaxValue, entered, tested
  <2>3. RowsFit(sampleCount)'
    BY <2>1, <2>2 DEF SpectraKept, RowsFit, RowFits
  <2> QED BY <1>e, <2>1, <2>3 DEF SpectraKept
<1>10. CASE Decide
  <2>1. pc = "estimate" /\ pc' = "ready" /\ UNCHANGED starts
    BY <1>10 DEF Decide
  <2>2. starts # 0
    BY <2>1 DEF FieldsAreCandidate, Running
  <2> QED BY <2>1, <2>2 DEF SpectraKept
<1>12. CASE Fft
  <2> DEFINE c == sampleCount
             F == testFreqCount
  <2>1. c \in Nat /\ F \in Nat /\ f \in Nat /\ c <= nrOfSamples /\ nrOfSamples \in Nat
        /\ N_SAMPLES \in Nat
    BY AcquisitionAssumption, SMT DEF TypeOK
  <2>2. Run
    BY <1>12 DEF Run
  <2>3. UNCHANGED <<nrOfSamples, entered, tested, starts, legal>> /\ Running
    BY <2>2, RunKeeps
  <2>4. /\ \A g : LoweredRow(g)' = LoweredRow(g)
        /\ CodeRow' = CodeRow /\ CodeSpectrum' = CodeSpectrum
    BY <2>3, RowsSame
  <2>5. UNCHANGED <<sampleCount, codesCount, testFreqCount, given>> /\ RowsFit(c)' = RowsFit(c)
    BY <2>3 DEF entered, tested, RowsFit, RowFits
  <2>6. CASE Undefined
    BY <1>u, <2>6
  <2>7. CASE UNCHANGED <<pc, codes, matrices, f>>
    BY <2>3, <2>4, <2>5, <2>7 DEF SpectraKept, RowIs, matrices
  <2>8. ASSUME Transforming, MoreRows, TargetFits,
               LengthSupported(c) /\ c <= N_SAMPLES => FftLength = c,
               NEW v, Replace(v),
               LengthSupported(c) /\ c <= N_SAMPLES
                 /\ (\A k \in 0 .. c - 1 : Target[k] \in Complex)
               => v = Dft(Target, c, -1)
        PROVE  SpectraKept'
    <3>1. CASE pc = "fftCodes"
      <4>1. /\ pc' = "fftX" /\ f' = 0 /\ xMatrix' = xMatrix
            /\ codes' = [k \in DOMAIN codes |->
                           LET d == IF k < FftLength THEN v[k] ELSE codes[k]
                           IN  IF k < sampleCount THEN Conj(d) ELSE d]
        BY <2>8, <3>1 DEF Replace, matrices
      <4>2. \A g \in 0 .. F - 1 : RowIs(xMatrix, c, g, LoweredRow(g)) /\ ~ (g < 0)
        <5>1. \A g \in 0 .. F - 1 : ~ (g < 0)
          BY SMT
        <5> QED BY <3>1, <5>1 DEF SpectraKept
      <4>3. ASSUME legal PROVE \A k \in 0 .. c - 1 : codes'[k] = CodeSpectrum[k]
        <5>1. LengthSupported(c) /\ c <= N_SAMPLES /\ codesCount = c
          BY <2>1, <2>3, <4>3 DEF ContractKept
        <5>2. FftLength = c
          BY <2>8, <5>1
        <5>3. Target = codes
          BY <3>1 DEF Target
        <5>4. \A k \in 0 .. c - 1 : codes[k] = CodeRow[k] /\ CodeRow[k] \in Complex
          <6>1. \A k \in 0 .. c - 1 : codes[k] = given[k + 1]
            BY <3>1, <4>3, <5>1 DEF SpectraKept
          <6>2. \A k \in 0 .. c - 1 : CodeRow[k] \in Complex
            BY <2>3, <5>1, InputTypes
          <6> QED BY <6>1, <6>2 DEF CodeRow
        <5>5. v = Dft(codes, c, -1)
          BY <2>8, <5>1, <5>3, <5>4
        <5>6. Dft(codes, c, -1) = Dft(CodeRow, c, -1)
          BY <5>4, DftSame
        <5> SUFFICES ASSUME NEW k \in 0 .. c - 1 PROVE codes'[k] = CodeSpectrum[k]
          OBVIOUS
        <5>7. k \in DOMAIN codes /\ k < c
          <6>1. DOMAIN codes = 0 .. nrOfSamples - 1
            BY <3>1 DEF TypeOK
          <6> QED BY <2>1, <6>1, SMT
        <5>8. codes'[k] = Conj(v[k])
          BY <4>1, <5>2, <5>7
        <5> QED BY <5>5, <5>6, <5>8 DEF CodeSpectrum
      <4> QED BY <2>3, <2>4, <2>5, <3>1, <4>1, <4>2, <4>3 DEF SpectraKept, RowIs
    <3>2. CASE pc = "fftX"
      <4>1. pc' = pc /\ f' = f + 1 /\ codes' = codes /\ xMatrix' = PutRow(xMatrix, f, v)
        BY <2>8, <3>2 DEF Replace
      <4>2. RowsFit(c) /\ f \in 0 .. F - 1
        BY <2>1, <2>8, <3>2, SMT DEF SpectraKept, MoreRows
      <4>3. c <= N_SAMPLES
        BY <4>2 DEF RowsFit, RowFits
      <4>4. ASSUME LengthSupported(c), NEW g \in 0 .. F - 1
            PROVE  RowIs(xMatrix', c, g,
                         IF g < f + 1 THEN Dft(LoweredRow(g), c, -1) ELSE LoweredRow(g))
        <5>1. \A h \in 0 .. F - 1 :
                 RowIs(xMatrix, c, h, IF h < f THEN Dft(LoweredRow(h), c, -1) ELSE LoweredRow(h))
          BY <3>2, <4>4 DEF SpectraKept
        <5>2. \A k \in 0 .. c - 1 : Target[k] = LoweredRow(f)[k] /\ LoweredRow(f)[k] \in Complex
          <6>1. Target = Row(xMatrix, f, c)
            BY <2>8, <3>2, <4>3, <4>4 DEF Target
          <6>2. \A k \in 0 .. c - 1 : Target[k] = xMatrix[f * N_SAMPLES + k]
            BY <6>1 DEF Row
          <6>3. ~ (f < f)
            BY <2>1, SMT
          <6>4. \A k \in 0 .. c - 1 : LoweredRow(f)[k] \in Complex
            BY <2>3, <4>2, InputTypes
          <6>5. RowIs(xMatrix, c, f, LoweredRow(f))
            BY <4>2, <5>1, <6>3
          <6> QED BY <6>2, <6>4, <6>5 DEF RowIs
        <5>3. v = Dft(LoweredRow(f), c, -1)
          <6>1. v = Dft(Target, c, -1)
            BY <2>8, <4>3, <4>4, <5>2
          <6>2. Dft(Target, c, -1) = Dft(LoweredRow(f), c, -1)
            BY <5>2, DftSame
          <6> QED BY <6>1, <6>2
        <5>4. DOMAIN v = 0 .. c - 1
          BY <5>3 DEF Dft
        <5>5. g \in Nat
          BY <2>1, SMT
        <5>6. RowInside(xMatrix, c, g)
          <6>1. DOMAIN xMatrix = 0 .. N_FREQ * nrOfSamples - 1
            BY <3>2 DEF TypeOK
          <6> QED BY <4>2, <6>1, RowInBlock DEF RowInside
        <5> DEFINE row == IF g < f THEN Dft(LoweredRow(g), c, -1) ELSE LoweredRow(g)
        <5>7. RowIs(xMatrix, c, g, row)
          BY <5>1
        <5> HIDE DEF row
        <5>8. RowIs(PutRow(xMatrix, f, v), c, g, IF g = f THEN v ELSE row)
          BY <2>1, <4>3, <5>4, <5>5, <5>6, <5>7, PutRowIs
        <5>9. /\ g = f => g < f + 1
              /\ g # f => (g < f + 1 <=> g < f)
          BY <2>1, <5>5, SMT
        <5>10. (IF g = f THEN v ELSE row)
                 = (IF g < f + 1 THEN Dft(LoweredRow(g), c, -1) ELSE LoweredRow(g))
          BY <5>3, <5>9 DEF row
        <5> QED BY <4>1, <5>8, <5>10
      <4>5. LengthSupported(c) =>
              \A g \in 0 .. F - 1 :
                 RowIs(xMatrix', c, g,
                       IF g < f' THEN Dft(LoweredRow(g), c, -1) ELSE LoweredRow(g))
        BY <4>1, <4>4
      <4> QED BY <2>3, <2>4, <2>5, <3>2, <4>1, <4>2, <4>5 DEF SpectraKept, RowIs
    <3>3. CASE pc = "inverseFft"
      <4>1. pc' = pc
        BY <2>8, <3>3 DEF Replace
      <4> QED BY <2>5, <3>3, <4>1 DEF SpectraKept
    <3> QED BY <2>8, <3>1, <3>2, <3>3 DEF Transforming
  <2> QED BY <1>12, <2>6, <2>7, <2>8, FftSteps
<1>11. CASE UNCHANGED vars
  <2>1. UNCHANGED <<pc, nrOfSamples, entered, tested, codes, xMatrix, f, legal, starts>>
    BY <1>11 DEF vars, matrices, search, ghosts
  <2>2. /\ \A g : LoweredRow(g)' = LoweredRow(g)
        /\ CodeSpectrum' = CodeSpectrum
    BY <2>1, RowsSame
  <2>3. UNCHANGED <<sampleCount, codesCount, testFreqCount, given>>
    BY <2>1 DEF entered, tested
  <2> QED BY <2>1, <2>2, <2>3 DEF SpectraKept, RowIs, RowsFit, RowFits
<1> QED
  BY <1>1, <1>2, <1>3, <1>4, <1>5, <1>6, <1>7, <1>8, <1>9, <1>10, <1>11, <1>12 DEF Next, Run

\* Before the allocation nothing is claimed of the spectra.
LEMMA SpectraInit == Init => InputsKept /\ TransformsKept /\ SpectraKept
<1> SUFFICES ASSUME Init PROVE InputsKept /\ TransformsKept /\ SpectraKept
  OBVIOUS
<1>1. /\ pc = "none" /\ sub = "enter" /\ given = <<>> /\ sampleCount = 0 /\ codesCount = 0
  BY DEF Init
<1>2. 0 .. sampleCount - 1 = {} /\ <<>> \in Seq(Complex) /\ Len(<<>>) = 0
  BY <1>1, SMT
<1>3. InputsKept
  BY <1>1, <1>2 DEF InputsKept, Running
<1>4. TransformsKept
  BY <1>1 DEF TransformsKept
<1>5. SpectraKept
  BY <1>1 DEF SpectraKept
<1> QED BY <1>3, <1>4, <1>5

\* When the rows are all transformed, the invariant is the property.
LEMMA SpectraFollow ==
    TypeOK /\ InputsKept /\ SpectraKept => SpectraCorrect
<1> SUFFICES ASSUME TypeOK, InputsKept, SpectraKept, pc = "fftX", f >= testFreqCount
             PROVE  /\ LengthSupported(sampleCount) =>
                         \A g \in 0 .. testFreqCount - 1 :
                            Row(xMatrix, g, sampleCount) = Dft(LoweredRow(g), sampleCount, -1)
                    /\ legal => \A k \in 0 .. sampleCount - 1 :
                                   codes[k] = Conj(Dft(CodeRow, sampleCount, -1)[k])
  BY DEF SpectraCorrect, LoweredRow, CodeRow
<1>1. ASSUME LengthSupported(sampleCount), NEW g \in 0 .. testFreqCount - 1
      PROVE  Row(xMatrix, g, sampleCount) = Dft(LoweredRow(g), sampleCount, -1)
  <2> DEFINE d == Dft(LoweredRow(g), sampleCount, -1)
  <2>1. g < f
    BY SMT DEF TypeOK
  <2>2. RowIs(xMatrix, sampleCount, g, d)
    BY <1>1, <2>1 DEF SpectraKept
  <2>3. d = [k \in 0 .. sampleCount - 1 |-> d[k]]
    BY DEF Dft
  <2> HIDE DEF d
  <2>4. Row(xMatrix, g, sampleCount) = [k \in 0 .. sampleCount - 1 |-> d[k]]
    BY <2>2, Zenon DEF RowIs, Row
  <2> QED BY <2>3, <2>4 DEF d
<1>2. ASSUME legal, NEW k \in 0 .. sampleCount - 1
      PROVE  codes[k] = Conj(Dft(CodeRow, sampleCount, -1)[k])
  BY <1>2 DEF SpectraKept, CodeSpectrum
<1> QED BY <1>1, <1>2

\* The spectra computeR multiplies: of the lowered samples in every start, however
\* often the buffers have served, when the transforms support their number; of the
\* codes in a first start within the contract (acquisition.c 464-480).
THEOREM SpectraAreCorrect == Spec => []SpectraCorrect
<1>1. Init => ContractKept /\ DefinedWithinContract /\ FieldsAreCandidate
  BY DEF Init, ContractKept, DefinedWithinContract, FieldsAreCandidate, Running
<1>2. Init => PaddingZero
  BY DEF Init, PaddingZero
<1> QED BY <1>1, <1>2, SpectraInit, SpectraFollow, TypeCorrect, PaddingStep, ContractStep,
           FieldsStep, InputsStep, TransformsStep, SpectraStep, PTL DEF Spec
===============================================================================
