------------------------------ MODULE Acquisition -----------------------------
(***************************************************************************)
(* The acquisition object of gpsAcquisition/acquisition.c: its buffers, the *)
(* functions of acquisition.h, and startAcquisition stage by stage, one     *)
(* action for a function it calls (for every row, where it calls it in a    *)
(* loop); a transform is itself a few steps, those of bluestein and of the  *)
(* convolution it calls.  The caller may make its calls in any order.       *)
(*                                                                          *)
(* A pair of real and imaginary arrays is one array of complex numbers.     *)
(* The two matrices are blocks of N_FREQ * nrOfSamples numbers whose rows   *)
(* are N_SAMPLES apart: the pointers are declared to rows of N_SAMPLES      *)
(* floats.  A step that reads or writes outside a block leads to the state  *)
(* "undefined", where C says no more.  radix2 appears as the transform that *)
(* module Radix2 shows it to compute; its scratch array data is rewritten   *)
(* before it is read and left out.                                          *)
(*                                                                          *)
(* live, given, starts, legal and answer are history variables: the heap    *)
(* blocks not yet freed, the codes as they were entered, the number of      *)
(* starts, whether every call was within the contract, and what the caller  *)
(* saw when startAcquisition returned last.                                 *)
(***************************************************************************)
EXTENDS Signal, Sequences

CONSTANTS M, N_SAMPLES, N_FREQ, F_S, ThresholdNum, ThresholdDen,
          SampleValues, CodeValues, Frequencies,  \* see AcquisitionSpec
          Capacities,    \* the nrOfSamples a caller may allocate for
          Junk,          \* what memory from malloc may hold
          MaxStarts      \* bound on the calls of startAcquisition

ASSUME AcquisitionAssumption ==
    /\ M \in Nat \ {0} /\ N_SAMPLES \in Nat \ {0} /\ N_FREQ \in Nat \ {0}
    /\ N_SAMPLES <= M
    /\ Capacities \subseteq Nat
    /\ MaxStarts \in Nat
    /\ F_S \in Nat \ {0}
    /\ ThresholdNum \in Nat /\ ThresholdDen \in Nat
    /\ SampleValues \subseteq Complex /\ CodeValues \subseteq Complex
    /\ \A freqs \in Frequencies : freqs \in Seq(Int)

VARIABLES pc, nrOfSamples,
          sampleCount, samples, codesCount, codes,
          testFreqCount, testFrequencies,
          xMatrix, rMatrix,
          table, one, two, three,           \* the arrays of bluestein
          xBuffer, yBuffer,                 \* the arrays of complexConvolution
          sub,                              \* where a transform stands
          f, n, sMax,                       \* loop variables and the maximum
          codePhase, dopplerFrequency,
          live, given, starts, legal, answer

entered  == <<sampleCount, samples, codesCount, given>>
tested   == <<testFreqCount, testFrequencies>>
matrices == <<xMatrix, rMatrix>>
buffers  == <<table, one, two, three, xBuffer, yBuffer, sub>>
search   == <<f, n, sMax, codePhase, dopplerFrequency>>
ghosts   == <<live, starts, legal, answer>>

vars == <<pc, nrOfSamples, entered, codes, tested, matrices, buffers, search, ghosts>>

-------------------------------------------------------------------------------
(* The heap *)

\* The blocks allocateAcquisition obtains, apart from the object itself.
SignalBlocks == {"samplesReal", "samplesImag", "inputCodesReal", "inputCodesImag",
                 "testFrequencies"}
MatrixBlocks == {"xMatrixReal", "xMatrixImag", "rMatrixReal", "rMatrixImag"}
WorkBlocks   == {"data", "xrBuffer", "xiBuffer", "yrBuffer", "yiBuffer",
                 "cosTable", "sinTable", "oneRTemp", "oneITemp",
                 "twoRTemp", "twoITemp", "threeRTemp", "threeITemp"}

\* A step that would leave a block.
Undefined == pc' = "undefined" /\ UNCHANGED <<nrOfSamples, entered, codes, tested,
                                              matrices, buffers, search, ghosts>>

\* Row g of a matrix, its first len entries, and whether they are in the row, which
\* the pointer types give N_SAMPLES entries, and in the block.
RowFits(g, len)      == len <= N_SAMPLES /\ g * N_SAMPLES + len <= N_FREQ * nrOfSamples
RowsFit(len)         == \A g \in 0 .. testFreqCount - 1 : RowFits(g, len)
Row(matrix, g, len)  == [k \in 0 .. len - 1 |-> matrix[g * N_SAMPLES + k]]
PutRow(matrix, g, r) == [e \in DOMAIN matrix |->
                           IF e - g * N_SAMPLES \in DOMAIN r
                           THEN r[e - g * N_SAMPLES] ELSE matrix[e]]
\* The matrix whose rows 0 .. testFreqCount - 1 begin with value(g, k).
FillRows(matrix, len, value(_, _)) ==
    [e \in DOMAIN matrix |->
        LET g == e \div N_SAMPLES
            k == e % N_SAMPLES
        IN  IF g < testFreqCount /\ k < len THEN value(g, k) ELSE matrix[e]]

-------------------------------------------------------------------------------
(* The transforms *)

PowerOfTwo(x) == x = 0 \/ \E k \in 0 .. 30 : x = 2 ^ k

\* The numbers of samples whose transform is the one asked for: radix2 always
\* takes M entries, and bluestein's convolution of M must not wrap around.
LengthSupported(count) == IF PowerOfTwo(count) THEN count = M ELSE 2 * count - 1 <= M

\* sin and cos take every angle: the circle has those of the transforms, and no
\* length is zero in the field.
ASSUME TransformAssumption ==
    /\ M < P
    /\ Order % M = 0
    /\ \A count \in 1 .. N_SAMPLES :
          LengthSupported(count) /\ ~ PowerOfTwo(count) => Order % (2 * count) = 0

FftLengthPadded == M   \* slip: bluestein's input taken for padded

\* fft hands M entries to radix2 or sampleCount entries to bluestein.
FftLength == IF PowerOfTwo(sampleCount) THEN M ELSE sampleCount
SwapNothing(v) == v    \* slip: inverseFft forgets the exchange
SwapAll(v) == [k \in DOMAIN v |-> Swap(v[k])]

\* The array startAcquisition is transforming: the codes, row f of the X-matrix,
\* or row f of the R-matrix, which inverseFft hands on with its real and
\* imaginary parts exchanged.
Transforming == pc \in {"fftCodes", "fftX", "inverseFft"}
MoreRows ==  pc = "fftCodes" \/ f < testFreqCount
TargetFits   == IF pc = "fftCodes" THEN FftLength <= nrOfSamples ELSE RowFits(f, FftLength)
Target == CASE pc = "fftCodes"   -> codes
            [] pc = "fftX"       -> Row(xMatrix, f, FftLength)
            [] pc = "inverseFft" -> SwapAll(Row(rMatrix, f, FftLength))

\* Put the spectrum v in the place of the target and go on to the next one.
\* After the codes' transform startAcquisition conjugates it, also in place.
Replace(v) ==
    \/ /\ pc = "fftCodes"
       /\ codes' = [k \in DOMAIN codes |->
                      LET c == IF k < FftLength THEN v[k] ELSE codes[k]
                      IN  IF k < sampleCount THEN Conj(c) ELSE c]
       /\ pc' = "fftX" /\ f' = 0
       /\ UNCHANGED matrices
    \/ /\ pc = "fftX"
       /\ xMatrix' = PutRow(xMatrix, f, v)
       /\ f' = f + 1
       /\ UNCHANGED <<pc, codes, rMatrix>>
    \/ /\ pc = "inverseFft"
       /\ rMatrix' = PutRow(rMatrix, f, SwapAll(v))
       /\ f' = f + 1
       /\ UNCHANGED <<pc, codes, xMatrix>>

\* fft for a sampleCount that is a power of two.
FftByRadix2 ==
    /\ Transforming /\ MoreRows /\ sub = "enter" /\ PowerOfTwo(sampleCount)
    /\ IF TargetFits
       THEN /\ Replace(Dft(Target, M, -1))
            /\ UNCHANGED <<nrOfSamples, entered, tested, buffers, n, sMax,
                           codePhase, dopplerFrequency, ghosts>>
       ELSE Undefined

\* cos + i*sin of the angle pi * k^2 / sampleCount.
ChirpIndexedBySamples(k) == Phasor((k * k) % sampleCount, 2 * sampleCount)   \* slip
Chirp(k) == Phasor((k * k) % (2 * sampleCount), 2 * sampleCount)

\* Index l of the second temporary is written together with index M - l.
WithMirrorOffByOne(k) == {k, M - 1 - k}   \* slip
WithMirror(k) == {k, M - k}

\* The two loops of bluestein before the convolution.  The entries of its
\* arrays that they do not write keep what the allocation or an earlier call
\* left there.
ChirpSignal ==
    /\ Transforming /\ MoreRows /\ sub = "enter" /\ ~ PowerOfTwo(sampleCount)
    /\ IF TargetFits /\ sampleCount <= M
       THEN /\ table' = [k \in DOMAIN table |->
                           IF k < sampleCount THEN Chirp(k) ELSE table[k]]
            /\ one' = [k \in 0 .. M - 1 |->
                         IF k < sampleCount THEN Mul(Target[k], Conj(Chirp(k))) ELSE one[k]]
            /\ two' = [k \in 0 .. M - 1 |->
                         LET writers == WithMirror(k) \cap 0 .. sampleCount - 1
                         IN  IF writers = {} THEN two[k]
                             ELSE Chirp(CHOOSE l \in writers : \A h \in writers : h <= l)]
            /\ sub' = "spectra"
            /\ UNCHANGED <<pc, nrOfSamples, entered, codes, tested, matrices, three,
                           xBuffer, yBuffer, search, ghosts>>
       ELSE Undefined

\* complexConvolution: copies of both sequences and their forward transforms.
ConvolutionSpectra ==
    /\ Transforming /\ sub = "spectra"
    /\ xBuffer' = Dft(one, M, -1)
    /\ yBuffer' = Dft(two, M, -1)
    /\ sub' = "product"
    /\ UNCHANGED <<pc, nrOfSamples, entered, codes, tested, matrices, table, one, two,
                   three, search, ghosts>>

\* The product of the spectra, its inverse transform, and the scaling by M.
ConvolutionProduct ==
    /\ Transforming /\ sub = "product"
    /\ LET product == [k \in 0 .. M - 1 |-> Mul(xBuffer[k], yBuffer[k])]
       IN  xBuffer' = Dft(product, M, 1)
    /\ sub' = "scale"
    /\ UNCHANGED <<pc, nrOfSamples, entered, codes, tested, matrices, table, one, two,
                   three, yBuffer, search, ghosts>>

\* The end of complexConvolution, and bluestein's postprocessing.
UnchirpResult ==
    /\ Transforming /\ sub = "scale"
    /\ three' = [k \in 0 .. M - 1 |-> Scale(xBuffer[k], Recip(M))]
    /\ Replace([k \in 0 .. sampleCount - 1 |-> Mul(three'[k], Conj(table[k]))])
    /\ sub' = "enter"
    /\ UNCHANGED <<nrOfSamples, entered, tested, table, one, two, xBuffer, yBuffer,
                   n, sMax, codePhase, dopplerFrequency, ghosts>>

Fft == FftByRadix2 \/ ChirpSignal \/ ConvolutionSpectra \/ ConvolutionProduct \/ UnchirpResult

-------------------------------------------------------------------------------
(* The functions of acquisition.h *)

FilledOneMore(len, value) == [k \in 0 .. len |-> value]   \* slip: an entry too many
Filled(len, value) == [k \in 0 .. len - 1 |-> value]
NoAnswer == [acquired |-> FALSE, codePhase |-> 0, dopplerFrequency |-> 0]

Init ==
    /\ pc = "none" /\ nrOfSamples = 0 /\ live = {}
    /\ sampleCount = 0 /\ codesCount = 0 /\ testFreqCount = 0
    /\ samples = <<>> /\ codes = <<>> /\ testFrequencies = <<>>
    /\ xMatrix = <<>> /\ rMatrix = <<>>
    /\ table = <<>> /\ one = <<>> /\ two = <<>> /\ three = <<>>
    /\ xBuffer = <<>> /\ yBuffer = <<>> /\ sub = "enter"
    /\ f = 0 /\ n = 0 /\ sMax = 0 /\ codePhase = 0 /\ dopplerFrequency = 0
    /\ given = <<>> /\ starts = 0 /\ legal = TRUE /\ answer = NoAnswer

\* malloc for every block, memset to zero for the matrices and bluestein's
\* temporaries only.
AllocateAcquisition(capacity) ==
    /\ pc = "none"
    /\ pc' = "ready" /\ nrOfSamples' = capacity
    /\ codePhase' = 0 /\ dopplerFrequency' = 0
    /\ sampleCount' = 0 /\ codesCount' = 0 /\ testFreqCount' = 0
    /\ \E junk \in Junk :
          /\ samples' = Filled(capacity, junk)
          /\ codes'   = Filled(capacity, junk)
          /\ table'   = Filled(capacity, junk)
          /\ xBuffer' = Filled(M, junk) /\ yBuffer' = Filled(M, junk)
          /\ testFrequencies' = Filled(N_FREQ, junk[1])
    /\ xMatrix' = Filled(N_FREQ * capacity, Zero)
    /\ rMatrix' = Filled(N_FREQ * capacity, Zero)
    /\ one' = Filled(M, Zero) /\ two' = Filled(M, Zero) /\ three' = Filled(M, Zero)
    /\ live' = SignalBlocks \cup MatrixBlocks \cup WorkBlocks \cup {"acq"}
    /\ UNCHANGED <<sub, f, n, sMax, given, starts, legal, answer>>

EnterSample(v) ==
    /\ pc = "ready"
    /\ IF sampleCount < nrOfSamples
       THEN /\ samples' = [samples EXCEPT ![sampleCount] = v]
            /\ sampleCount' = sampleCount + 1
            /\ UNCHANGED <<pc, nrOfSamples, codesCount, given, codes, tested, matrices,
                           buffers, search, ghosts>>
       ELSE /\ legal' = FALSE /\ pc' = "undefined"
            /\ UNCHANGED <<nrOfSamples, entered, codes, tested, matrices, buffers, search,
                           live, starts, answer>>

EnterCode(v) ==
    /\ pc = "ready"
    /\ IF codesCount < nrOfSamples
       THEN /\ codes' = [codes EXCEPT ![codesCount] = v]
            /\ codesCount' = codesCount + 1
            /\ given' = Append(given, v)
            /\ UNCHANGED <<pc, nrOfSamples, sampleCount, samples, tested, matrices,
                           buffers, search, ghosts>>
       ELSE /\ legal' = FALSE /\ pc' = "undefined"
            /\ UNCHANGED <<nrOfSamples, entered, codes, tested, matrices, buffers, search,
                           live, starts, answer>>

\* The contract of a start, in terms of the object's own counters.
InContract(freqs) ==
    /\ starts = 0
    /\ nrOfSamples = N_SAMPLES
    /\ codesCount = sampleCount
    /\ LengthSupported(sampleCount)
    /\ Len(freqs) <= N_FREQ

\* The head of startAcquisition: take over the frequencies.
StartAcquisition(freqs) ==
    /\ pc = "ready" /\ starts < MaxStarts
    /\ starts' = starts + 1
    /\ legal' = (legal /\ InContract(freqs))
    /\ testFreqCount' = Len(freqs)
    /\ IF Len(freqs) <= N_FREQ
       THEN /\ testFrequencies' = [g \in DOMAIN testFrequencies |->
                                     IF g < Len(freqs) THEN freqs[g + 1] ELSE testFrequencies[g]]
            /\ pc' = "computeX"
       ELSE /\ pc' = "undefined"
            /\ UNCHANGED testFrequencies
    /\ UNCHANGED <<nrOfSamples, entered, codes, matrices, buffers, search, live, answer>>

\* deleteAcquisition: the work blocks, the signals, and the object itself.
DeleteAcquisition ==
    /\ pc = "ready"
    /\ pc' = "deleted"
    /\ live' = live \ (WorkBlocks \cup SignalBlocks \cup {"acq"})
    /\ UNCHANGED <<nrOfSamples, entered, codes, tested, matrices, buffers, search,
                   starts, legal, answer>>

-------------------------------------------------------------------------------
(* The stages of startAcquisition *)

ComputeX ==
    /\ pc = "computeX"
    /\ IF RowsFit(sampleCount)
       THEN LET lowered(g, k) == Mul(samples[k], Conj(Phasor(testFrequencies[g] * k, F_S)))
            IN  /\ xMatrix' = FillRows(xMatrix, sampleCount, lowered)
                /\ pc' = "fftCodes"
                /\ UNCHANGED <<nrOfSamples, entered, codes, tested, rMatrix, buffers,
                               search, ghosts>>
       ELSE Undefined

\* computeR runs over codesCount entries, unlike its neighbours.
ComputeR ==
    /\ pc = "fftX" /\ f >= testFreqCount
    /\ IF RowsFit(codesCount)
       THEN LET product(g, k) == Mul(xMatrix[g * N_SAMPLES + k], codes[k])
            IN  /\ rMatrix' = FillRows(rMatrix, codesCount, product)
                /\ pc' = "inverseFft" /\ f' = 0
                /\ UNCHANGED <<nrOfSamples, entered, codes, tested, xMatrix, buffers,
                               n, sMax, codePhase, dopplerFrequency, ghosts>>
       ELSE Undefined

\* One factor sampleCount for the transforms of x and the codes, one for the
\* normalisation of the correlation.
ScaleIdft ==
    /\ pc = "inverseFft" /\ f >= testFreqCount
    /\ IF RowsFit(sampleCount)
       THEN LET scaled(g, k) == Scale(rMatrix[g * N_SAMPLES + k],
                                      Recip(sampleCount * sampleCount))
            IN  /\ rMatrix' = FillRows(rMatrix, sampleCount, scaled)
                /\ pc' = "max" /\ f' = 0 /\ n' = 0 /\ sMax' = 0
                /\ UNCHANGED <<nrOfSamples, entered, codes, tested, xMatrix, buffers,
                               codePhase, dopplerFrequency, ghosts>>
       ELSE Undefined

\* computeMaxValue, as module PeakSearch has it.
Peak == INSTANCE PeakSearch WITH
          power <- [g \in 0 .. testFreqCount - 1 |->
                      [k \in 0 .. sampleCount - 1 |-> Norm(rMatrix[g * N_SAMPLES + k])]],
          frequencies <- testFrequencies,
          freqCount <- testFreqCount

ComputeMaxValue ==
    /\ pc = "max"
    /\ UNCHANGED <<nrOfSamples, entered, codes, tested, matrices, buffers, ghosts>>
    /\ Peak!Search

\* estimatePIn and the comparison of the ratio with 0.015; a ratio 0/0, for no
\* samples at all, compares as false.
EstimatePInSum ==        \* slip: the sum instead of the mean
    Total([k \in 0 .. sampleCount - 1 |-> <<Norm(samples[k]), 0>>], sampleCount)[1] % P

EstimatePIn ==
    (Recip(sampleCount)
       * Total([k \in 0 .. sampleCount - 1 |-> <<Norm(samples[k]), 0>>], sampleCount)[1]) % P

\* Slip: the row of the maximum reported for its frequency.
DecideRow ==
    /\ pc = "estimate"
    /\ answer' = [acquired |-> /\ sampleCount > 0
                               /\ ThresholdDen * sMax > ThresholdNum * EstimatePIn,
                  codePhase |-> codePhase,
                  dopplerFrequency |-> f]
    /\ pc' = "ready"
    /\ UNCHANGED <<nrOfSamples, entered, codes, tested, matrices, buffers, search,
                   live, starts, legal>>

Decide ==
    /\ pc = "estimate"
    /\ answer' = [acquired |-> /\ sampleCount > 0
                               /\ ThresholdDen * sMax > ThresholdNum * EstimatePIn,
                  codePhase |-> codePhase,
                  dopplerFrequency |-> dopplerFrequency]
    /\ pc' = "ready"
    /\ UNCHANGED <<nrOfSamples, entered, codes, tested, matrices, buffers, search,
                   live, starts, legal>>

\* startAcquisition running, and the calls of a caller.
Run == ComputeX \/ Fft \/ ComputeR \/ ScaleIdft \/ ComputeMaxValue \/ Decide

Next == \/ \E capacity \in Capacities : AllocateAcquisition(capacity)
        \/ \E v \in SampleValues : EnterSample(v)
        \/ \E v \in CodeValues : EnterCode(v)
        \/ \E freqs \in Frequencies : StartAcquisition(freqs)
        \/ DeleteAcquisition
        \/ Run

Spec == Init /\ [][Next]_vars

-------------------------------------------------------------------------------
TypeOK ==
    /\ pc \in {"none", "ready", "computeX", "fftCodes", "fftX", "inverseFft", "max",
               "estimate", "deleted", "undefined"}
    /\ nrOfSamples \in Nat
    /\ sampleCount \in 0 .. nrOfSamples /\ codesCount \in 0 .. nrOfSamples
    /\ starts \in 0 .. MaxStarts /\ legal \in BOOLEAN
    /\ testFreqCount \in Nat /\ f \in Nat /\ n \in Nat
    /\ pc # "none" =>
         /\ DOMAIN samples = 0 .. nrOfSamples - 1 /\ DOMAIN codes = 0 .. nrOfSamples - 1
         /\ DOMAIN xMatrix = 0 .. N_FREQ * nrOfSamples - 1
         /\ DOMAIN rMatrix = 0 .. N_FREQ * nrOfSamples - 1
         /\ DOMAIN one = 0 .. M - 1 /\ DOMAIN two = 0 .. M - 1

\* The stages of a running startAcquisition.
Running == pc \in {"computeX", "fftCodes", "fftX", "inverseFft", "max", "estimate"}

(***************************************************************************)
(* bluestein never clears the tails of its temporaries; it relies on the    *)
(* zeros memset left there at the allocation.  However the caller mixes     *)
(* further samples and further starts, the tail of one and the gap of two   *)
(* stay zero from one transform to the next.                                *)
(***************************************************************************)
PaddingZero ==
    pc # "none" =>
        \A k \in 0 .. M - 1 :
            /\ k >= sampleCount => one[k] = Zero
            /\ k >= sampleCount /\ k <= M - sampleCount => two[k] = Zero

\* A caller within the contract never makes the code leave a block: the rows
\* and the transform lengths of all stages fit together.
DefinedWithinContract == legal => pc # "undefined"

(***************************************************************************)
(* The spectra that computeR multiplies: the transform of the lowered       *)
(* samples of every frequency, in a later start as well, although one set   *)
(* of temporaries serves all transforms; and in the first start the codes'  *)
(* conjugate transform.  (startAcquisition, 464-480)                        *)
(***************************************************************************)
SpectraCorrect ==
    pc = "fftX" /\ f >= testFreqCount =>
        LET codeSpectrum == Dft([k \in 0 .. sampleCount - 1 |-> given[k + 1]], sampleCount, -1)
            lowered(g) == [k \in 0 .. sampleCount - 1 |->
                             Mul(samples[k], Conj(Phasor(testFrequencies[g] * k, F_S)))]
        IN  /\ LengthSupported(sampleCount) =>
                 \A g \in 0 .. testFreqCount - 1 :
                    Row(xMatrix, g, sampleCount) = Dft(lowered(g), sampleCount, -1)
            /\ legal => \A k \in 0 .. sampleCount - 1 : codes[k] = Conj(codeSpectrum[k])

\* What the struct reports is a cell the caller asked about, or nothing at all:
\* never a delay beyond the samples or a frequency that was not tested.
AnswerIsCandidate ==
    legal /\ starts > 0 /\ pc = "ready" =>
        \/ answer.codePhase = 0 /\ answer.dopplerFrequency = 0
        \/ /\ answer.codePhase \in 0 .. sampleCount - 1
           /\ \E g \in 0 .. testFreqCount - 1 : answer.dopplerFrequency = testFrequencies[g]

\* deleteAcquisition is documented to free everything allocateAcquisition
\* allocated (acquisition.h).
NothingLeftBehind == pc = "deleted" => live = {}

(***************************************************************************)
(* The promise.  A start counts as answered when it returns; outside the    *)
(* contract nothing is promised.                                            *)
(***************************************************************************)
Phase == CASE pc \in {"none", "deleted"} -> pc
           [] pc \notin {"none", "deleted"} /\ ~ legal -> "unspecified"
           [] pc \notin {"none", "deleted"} /\ legal /\ (starts = 0 \/ Running) -> "open"
           [] OTHER -> "answered"

SamplesEntered == IF legal THEN [k \in 1 .. sampleCount |-> samples[k - 1]] ELSE <<>>
CodesEntered   == IF legal THEN given ELSE <<>>
AnswerGiven    == IF legal THEN answer ELSE NoAnswer

Promise == INSTANCE AcquisitionSpec WITH
    phase <- Phase, room <- nrOfSamples, samples <- SamplesEntered,
    codes <- CodesEntered, answer <- AnswerGiven

\* The buffers, transforms and matrices compute what the caller was promised.
KeepsPromise == Promise!AbsSpec
===============================================================================
