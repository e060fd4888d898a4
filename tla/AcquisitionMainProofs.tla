------------------------ MODULE AcquisitionMainProofs -------------------------
(***************************************************************************)
(* main keeps to the contract of the object it drives: for every table and  *)
(* every command line, a test case that holds enough numbers is run to its  *)
(* end without a step outside a block or an array.  The steps main makes on *)
(* the object are steps of Acquisition, so that module's lemmas apply.      *)
(***************************************************************************)
EXTENDS AcquisitionMain, AcquisitionPromiseProofs

\* The case and the command line CompleteCasesAreDefined speaks of.
Complete ==
    /\ count = N_SAMPLES
    /\ Len(testCase.inputSamples) >= N_SAMPLES /\ Len(testCase.inputCodes) >= N_SAMPLES
    /\ RequestedCase >= 0

ObjectInv == pc # "undefined" => TypeOK /\ ContractKept

CallerInv ==
    /\ mpc \in {"args", "allocate", "samples", "codes", "started", "exit"}
    /\ arguments \in Arguments /\ caseId \in DOMAIN Cases /\ loaded \in Nat

\* What main has reached with a complete case, at each place where it stands.
OnTrack ==
    /\ mpc \in {"args", "allocate"} => starts = 0 /\ legal /\ (pc \in {"none", "undefined"})
    /\ mpc = "args" => pc = "none"
    /\ mpc \in {"args", "allocate"} => loaded = 0
    /\ mpc # "args" /\ Complete =>
         /\ pc # "undefined" /\ legal
         /\ mpc = "samples" => /\ pc = "ready" /\ nrOfSamples = N_SAMPLES /\ starts = 0
                               /\ sampleCount = loaded /\ codesCount = 0
         /\ mpc = "codes" => /\ pc = "ready" /\ nrOfSamples = N_SAMPLES /\ starts = 0
                             /\ sampleCount = N_SAMPLES /\ codesCount = loaded

MainInv == ObjectInv /\ CallerInv /\ OnTrack

-------------------------------------------------------------------------------
\* A case of the table is what the assumption says, its numbers among those
\* the object's specification considers.
LEMMA TableFacts ==
    ASSUME CallerInv
    PROVE  /\ testCase.complexSampleCount \in Capacities
           /\ testCase.inputSamples \in Seq(SampleValues)
           /\ testCase.inputCodes \in Seq(CodeValues)
           /\ testCase.testFrequencies \in Frequencies
           /\ Len(testCase.testFrequencies) <= N_FREQ
           /\ arguments \in Seq(Int)
           /\ count \in Int /\ (count \in Nat => count \in Capacities)
<1>1. caseId \in DOMAIN Cases /\ arguments \in Arguments
  BY DEF CallerInv
<1>2. /\ testCase.complexSampleCount \in Capacities
      /\ testCase.inputSamples \in Seq(SampleValues)
      /\ testCase.inputCodes \in Seq(CodeValues)
      /\ testCase.testFrequencies \in Frequencies
      /\ Len(testCase.testFrequencies) <= N_FREQ
  BY <1>1, MainAssumption, Zenon DEF testCase
<1>3. arguments \in Seq(Int) /\ (Len(arguments) >= 2 /\ arguments[2] \in Nat => arguments[2] \in Capacities)
  BY <1>1, MainAssumption, Zenon
<1>4. Len(arguments) >= 2 => arguments[2] \in Int
  BY <1>3, SMT
<1>5. Capacities \subseteq Nat
  BY AcquisitionAssumption
<1>6. count \in Int /\ (count \in Nat => count \in Capacities)
  <2>1. CASE Len(arguments) >= 2
    BY <1>3, <1>4, <2>1 DEF count
  <2>2. CASE ~ (Len(arguments) >= 2)
    <3>1. count = testCase.complexSampleCount
      BY <2>2 DEF count
    <3>2. testCase.complexSampleCount \in Nat
      BY <1>2, <1>5
    <3> QED BY <1>2, <3>1, <3>2, SMT
  <2> QED BY <2>1, <2>2
<1> QED BY <1>2, <1>3, <1>6

\* main hands the object only what Acquisition's specification considers: each
\* of its steps is a step of the object's specification or leaves an array.
LEMMA CallsOfMain ==
    ASSUME CallerInv, [MainNext]_mainVars
    PROVE  [Next]_vars \/ Undefined
<1> USE TableFacts
<1>1. CASE GetTestCase
  BY <1>1 DEF GetTestCase
<1>2. CASE Allocate
  BY <1>2 DEF Allocate, Next
<1>3. CASE LoadSample
  <2>1. CASE loaded < Len(testCase.inputSamples)
    <3>1. testCase.inputSamples[loaded + 1] \in SampleValues
      BY <2>1, SMT DEF CallerInv
    <3> QED BY <1>3, <2>1, <3>1 DEF LoadSample, Next
  <2> QED BY <1>3, <2>1 DEF LoadSample
<1>4. CASE SamplesLoaded
  BY <1>4 DEF SamplesLoaded
<1>5. CASE LoadCode
  <2>1. CASE loaded < Len(testCase.inputCodes)
    <3>1. testCase.inputCodes[loaded + 1] \in CodeValues
      BY <2>1, SMT DEF CallerInv
    <3> QED BY <1>5, <2>1, <3>1 DEF LoadCode, Next
  <2> QED BY <1>5, <2>1 DEF LoadCode
<1>6. CASE Start
  BY <1>6 DEF Start, Next
<1>7. CASE Answering
  BY <1>7 DEF Answering, Next
<1>8. CASE Finish
  BY <1>8 DEF Finish, Next
<1>9. CASE UNCHANGED mainVars
  BY <1>9 DEF mainVars
<1> QED BY <1>1, <1>2, <1>3, <1>4, <1>5, <1>6, <1>7, <1>8, <1>9 DEF MainNext

\* Every step of main keeps the object's types and contract until it leaves an
\* array.
LEMMA ObjectStep ==
    ASSUME MainInv, [MainNext]_mainVars
    PROVE  ObjectInv'
<1>1. CASE pc = "undefined"
  <2>1. pc' = "undefined"
    <3>1. [Next]_vars \/ Undefined
      BY CallsOfMain DEF MainInv
    <3>2. ~ Next
      BY <1>1 DEF Next, AllocateAcquisition, EnterSample, EnterCode, StartAcquisition,
         DeleteAcquisition, Run, ComputeX, Fft, FftByRadix2, ChirpSignal, ConvolutionSpectra,
         ConvolutionProduct, UnchirpResult, Transforming, ComputeR, ScaleIdft,
         ComputeMaxValue, Decide
    <3> QED BY <1>1, <3>1, <3>2 DEF vars, Undefined
  <2> QED BY <2>1 DEF ObjectInv
<1>2. CASE pc # "undefined"
  <2>1. TypeOK /\ ContractKept /\ DefinedWithinContract
    BY <1>2 DEF MainInv, ObjectInv, DefinedWithinContract
  <2>2. [Next]_vars \/ Undefined
    BY CallsOfMain DEF MainInv
  <2>3. CASE [Next]_vars
    BY <2>1, <2>3, TypeStep, ContractStep DEF ObjectInv
  <2>4. CASE Undefined
    BY <2>4 DEF Undefined, ObjectInv
  <2> QED BY <2>2, <2>3, <2>4
<1> QED BY <1>1, <1>2

\* getTestCase settles on a case of the table.
LEMMA CallerStep ==
    ASSUME CallerInv, [MainNext]_mainVars
    PROVE  CallerInv'
<1> USE DEF CallerInv
<1>1. CASE GetTestCase
  <2>1. RequestedCase \in Int
    BY TableFacts, SMT DEF RequestedCase
  <2>2. avail \in Nat \ {0} /\ DOMAIN Cases = 0 .. avail - 1
    BY MainAssumption DEF avail
  <2>3. caseId' \in DOMAIN Cases
    <3>1. CASE RequestedCase < 0
      BY <1>1, <3>1 DEF GetTestCase
    <3>2. CASE ~ (RequestedCase < 0)
      <4>1. caseId' = IF RequestedCase >= avail THEN 0 ELSE RequestedCase
        BY <1>1, <3>2 DEF GetTestCase
      <4> QED BY <2>1, <2>2, <3>2, <4>1, SMT
    <3> QED BY <3>1, <3>2
  <2> QED BY <1>1, <2>3 DEF GetTestCase
<1>2. CASE Allocate
  BY <1>2 DEF Allocate
<1>3. CASE LoadSample
  BY <1>3, SMT DEF LoadSample
<1>4. CASE SamplesLoaded
  BY <1>4 DEF SamplesLoaded
<1>5. CASE LoadCode
  BY <1>5, SMT DEF LoadCode
<1>6. CASE Start
  BY <1>6 DEF Start
<1>7. CASE Answering
  BY <1>7 DEF Answering, callerVars
<1>8. CASE Finish
  BY <1>8 DEF Finish
<1>9. CASE UNCHANGED mainVars
  BY <1>9 DEF mainVars, callerVars
<1> QED BY <1>1, <1>2, <1>3, <1>4, <1>5, <1>6, <1>7, <1>8, <1>9 DEF MainNext

\* After the arguments are read, what main works on stays what it is.
LEMMA CaseStays ==
    ASSUME mpc # "args", [MainNext]_mainVars
    PROVE  UNCHANGED <<arguments, caseId>> /\ mpc' # "args" /\ Complete' = Complete
<1>1. UNCHANGED <<arguments, caseId>> /\ mpc' # "args"
  BY DEF MainNext, GetTestCase, Allocate, LoadSample, SamplesLoaded, LoadCode, Start,
         Answering, Finish, mainVars, callerVars
<1> QED BY <1>1 DEF Complete, count, testCase, RequestedCase

\* Every step of main keeps a complete case on its track.
LEMMA OnTrackStep ==
    ASSUME MainInv, [MainNext]_mainVars
    PROVE  OnTrack'
<1> USE DEF MainInv, OnTrack, entered, tested, matrices, buffers, search, ghosts
<1>c. ASSUME mpc # "args" PROVE Complete' = Complete /\ mpc' # "args"
  BY <1>c, CaseStays
<1>1. CASE GetTestCase
  <2>1. /\ mpc = "args" /\ mpc' = "allocate" /\ starts' = 0 /\ legal'
        /\ pc' \in {"none", "undefined"} /\ loaded' = loaded
    BY <1>1 DEF GetTestCase, Undefined, vars
  <2>2. ASSUME Complete' PROVE pc' # "undefined"
    <3>1. RequestedCase' = RequestedCase
      BY <1>1 DEF GetTestCase, RequestedCase
    <3>2. RequestedCase \in Int /\ RequestedCase >= 0
      BY <2>2, <3>1, TableFacts, SMT DEF Complete, RequestedCase
    <3>3. ~ (RequestedCase < 0)
      BY <3>2, SMT
    <3> QED BY <1>1, <2>1, <3>3 DEF GetTestCase, vars
  <2> QED BY <2>1, <2>2
<1>2. CASE Allocate
  <2>1. mpc = "allocate" /\ mpc' = "samples" /\ loaded' = loaded /\ starts' = 0 /\ legal'
    BY <1>2 DEF Allocate, AllocateAcquisition, Undefined
  <2>2. ASSUME Complete
        PROVE  /\ pc' = "ready" /\ nrOfSamples' = N_SAMPLES
               /\ sampleCount' = 0 /\ codesCount' = 0
    <3>1. count \in Nat /\ count = N_SAMPLES
      BY <2>2, AcquisitionAssumption DEF Complete
    <3> QED BY <1>2, <3>1 DEF Allocate, AllocateAcquisition
  <2> QED BY <1>c, <2>1, <2>2
<1>3. CASE LoadSample
  <2>1. mpc = "samples" /\ mpc' = "samples" /\ loaded < count /\ loaded' = loaded + 1
    BY <1>3 DEF LoadSample
  <2>2. ASSUME Complete
        PROVE  /\ pc' = "ready" /\ nrOfSamples' = N_SAMPLES /\ starts' = 0 /\ legal'
               /\ sampleCount' = loaded + 1 /\ codesCount' = 0
    <3>1. /\ pc = "ready" /\ nrOfSamples = N_SAMPLES /\ starts = 0 /\ legal
          /\ sampleCount = loaded /\ codesCount = 0
      BY <2>1, <2>2
    <3>2. loaded < Len(testCase.inputSamples) /\ sampleCount < nrOfSamples
      <4>1. /\ loaded < N_SAMPLES /\ Len(testCase.inputSamples) >= N_SAMPLES
            /\ Len(testCase.inputSamples) \in Nat
        BY <2>1, <2>2, TableFacts DEF Complete
      <4> QED BY <3>1, <4>1, AcquisitionAssumption, SMT DEF CallerInv
    <3>3. EnterSample(testCase.inputSamples[loaded + 1])
      BY <1>3, <3>2 DEF LoadSample
    <3> QED BY <3>1, <3>2, <3>3 DEF EnterSample
  <2> QED BY <1>c, <2>1, <2>2
<1>4. CASE SamplesLoaded
  <2>1. mpc = "samples" /\ mpc' = "codes" /\ loaded >= count /\ loaded' = 0 /\ UNCHANGED vars
    BY <1>4 DEF SamplesLoaded
  <2>2. ASSUME Complete
        PROVE  /\ pc = "ready" /\ nrOfSamples = N_SAMPLES /\ starts = 0 /\ legal
               /\ sampleCount = N_SAMPLES /\ codesCount = 0
    <3>1. /\ pc = "ready" /\ nrOfSamples = N_SAMPLES /\ starts = 0 /\ legal
          /\ sampleCount = loaded /\ codesCount = 0
      BY <2>1, <2>2
    <3>2. sampleCount \in 0 .. nrOfSamples /\ loaded >= N_SAMPLES
      BY <2>1, <2>2, <3>1 DEF ObjectInv, TypeOK, Complete
    <3> QED BY <3>1, <3>2, AcquisitionAssumption, SMT
  <2> QED BY <1>c, <2>1, <2>2 DEF vars
<1>5. CASE LoadCode
  <2>1. mpc = "codes" /\ mpc' = "codes" /\ loaded < count /\ loaded' = loaded + 1
    BY <1>5 DEF LoadCode
  <2>2. ASSUME Complete
        PROVE  /\ pc' = "ready" /\ nrOfSamples' = N_SAMPLES /\ starts' = 0 /\ legal'
               /\ sampleCount' = N_SAMPLES /\ codesCount' = loaded + 1
    <3>1. /\ pc = "ready" /\ nrOfSamples = N_SAMPLES /\ starts = 0 /\ legal
          /\ sampleCount = N_SAMPLES /\ codesCount = loaded
      BY <2>1, <2>2
    <3>2. loaded < Len(testCase.inputCodes) /\ codesCount < nrOfSamples
      <4>1. /\ loaded < N_SAMPLES /\ Len(testCase.inputCodes) >= N_SAMPLES
            /\ Len(testCase.inputCodes) \in Nat
        BY <2>1, <2>2, TableFacts DEF Complete
      <4> QED BY <3>1, <4>1, AcquisitionAssumption, SMT DEF CallerInv
    <3>3. EnterCode(testCase.inputCodes[loaded + 1])
      BY <1>5, <3>2 DEF LoadCode
    <3> QED BY <3>1, <3>2, <3>3 DEF EnterCode
  <2> QED BY <1>c, <2>1, <2>2
<1>6. CASE Start
  <2>1. /\ mpc = "codes" /\ mpc' = "started" /\ loaded >= count
        /\ StartAcquisition(testCase.testFrequencies)
    BY <1>6 DEF Start
  <2>2. ASSUME Complete PROVE pc' # "undefined" /\ legal'
    <3>1. /\ nrOfSamples = N_SAMPLES /\ starts = 0 /\ legal
          /\ sampleCount = N_SAMPLES /\ codesCount = loaded /\ pc # "undefined"
      BY <2>1, <2>2
    <3>2. codesCount \in 0 .. nrOfSamples /\ loaded >= N_SAMPLES
      BY <2>1, <2>2, <3>1 DEF ObjectInv, TypeOK, Complete
    <3>3. codesCount = sampleCount
      BY <3>1, <3>2, AcquisitionAssumption, SMT
    <3>4. Len(testCase.testFrequencies) <= N_FREQ
      BY TableFacts
    <3>5. IF PowerOfTwo(N_SAMPLES) THEN N_SAMPLES = M ELSE 2 * N_SAMPLES - 1 <= M
      BY MainAssumption
    <3>6. InContract(testCase.testFrequencies)
      BY <3>1, <3>3, <3>4, <3>5 DEF InContract, LengthSupported
    <3> QED BY <2>1, <3>1, <3>4, <3>6 DEF StartAcquisition
  <2> QED BY <1>c, <2>1, <2>2
<1>7. CASE Answering
  <2>1. mpc = "started" /\ mpc' = "started" /\ Run
    BY <1>7 DEF Answering, callerVars
  <2>2. ASSUME Complete PROVE pc' # "undefined" /\ legal'
    <3>1. pc # "undefined" /\ legal
      BY <2>1, <2>2
    <3>2. TypeOK /\ ContractKept /\ DefinedWithinContract
      BY <3>1 DEF ObjectInv, DefinedWithinContract
    <3>3. legal' = legal
      BY <2>1 DEF Run, ComputeX, Fft, FftByRadix2, ChirpSignal, ConvolutionSpectra,
                  ConvolutionProduct, UnchirpResult, ComputeR, ScaleIdft,
                  ComputeMaxValue, Decide, Undefined
    <3>4. DefinedWithinContract'
      BY <2>1, <3>2, ContractStep DEF Next
    <3> QED BY <3>1, <3>3, <3>4 DEF DefinedWithinContract
  <2> QED BY <1>c, <2>1, <2>2
<1>8. CASE Finish
  <2>1. mpc = "started" /\ mpc' = "exit" /\ pc' = "deleted" /\ legal' = legal
    BY <1>8 DEF Finish, DeleteAcquisition
  <2> QED BY <1>c, <2>1
<1>9. CASE UNCHANGED mainVars
  BY <1>9 DEF mainVars, callerVars, vars, Complete, count, testCase, RequestedCase
<1> QED BY <1>1, <1>2, <1>3, <1>4, <1>5, <1>6, <1>7, <1>8, <1>9 DEF MainNext

\* The invariant before the arguments are read.
LEMMA MainStart == MainInit => MainInv
<1> SUFFICES ASSUME MainInit PROVE MainInv
  OBVIOUS
<1>1. ObjectInv
  <2>1. TypeOK
    BY TypeInit DEF MainInit
  <2> QED BY <2>1 DEF MainInit, Init, ObjectInv, ContractKept, Running
<1>2. CallerInv
  <2>1. 0 \in DOMAIN Cases
    BY MainAssumption, SMT
  <2> QED BY <2>1 DEF MainInit, CallerInv
<1>3. OnTrack
  BY DEF MainInit, Init, OnTrack
<1> QED BY <1>1, <1>2, <1>3 DEF MainInv

\* The invariant of main holds in every state.
LEMMA MainInvariance == MainSpec => []MainInv
<1>1. MainInv /\ [MainNext]_mainVars => MainInv'
  BY ObjectStep, CallerStep, OnTrackStep DEF MainInv
<1> QED BY <1>1, MainStart, PTL DEF MainSpec

\* Whatever the table, a command line that has main load N_SAMPLES numbers of a case
\* that holds as many never takes the program outside an array or a block.
THEOREM CompleteCasesRunToTheirEnd == MainSpec => []CompleteCasesAreDefined
<1>1. MainInv => CompleteCasesAreDefined
  BY DEF MainInv, OnTrack, Complete, CompleteCasesAreDefined
<1> QED BY <1>1, MainInvariance, PTL

-------------------------------------------------------------------------------
(* What the test case is judged by is what the object promises *)

\* Of an object that was handed the numbers of the test case, the promise is
\* what the test case is judged by.
LEMMA TruthArithmetic ==
    /\ \A a, b : Truth!Mul(a, b) = Mul(a, b)
    /\ \A a : Truth!Conj(a) = Conj(a) /\ Truth!Norm(a) = Norm(a)
    /\ \A x : Truth!Recip(x) = Recip(x)
    /\ \A a, x : Truth!Scale(a, x) = Scale(a, x)
    /\ \A x, len : Truth!Total(x, len) = Total(x, len)
    /\ \A k, len : Truth!Phasor(k, len) = Phasor(k, len)
<1>1. /\ \A a, b : Truth!Mul(a, b) = Mul(a, b)
      /\ \A a : Truth!Conj(a) = Conj(a) /\ Truth!Norm(a) = Norm(a)
      /\ \A x : Truth!Recip(x) = Recip(x)
      /\ \A a, x : Truth!Scale(a, x) = Scale(a, x)
  BY Zenon DEF Truth!Mul, Mul, Truth!Conj, Conj, Truth!Norm, Norm, Truth!Recip, Recip,
               Truth!Scale, Scale
<1>2. \A x, len : Truth!Total(x, len) = Total(x, len)
  BY Zenon DEF Truth!Total, Total, Truth!Add, Add, Truth!Zero, Zero
<1>3. \A k, len : Truth!Phasor(k, len) = Phasor(k, len)
  BY Zenon DEF Truth!Phasor, Phasor, Truth!Circle, Circle, Truth!Mul, Mul, Truth!One, One
<1> QED BY <1>1, <1>2, <1>3

CaseHandedOver == SamplesEntered = SamplesOfCase /\ CodesEntered = CodesOfCase

\* The power of a cell is the same of the case and of the object.
LEMMA TruthOfCell ==
    ASSUME CaseHandedOver, Len(SamplesOfCase) \in Nat, NEW freq, NEW shift
    PROVE  Truth!CorrelationPower(freq, shift) = Promise!CorrelationPower(freq, shift)
<1> DEFINE c == Len(SamplesOfCase)
           u == [k \in 0 .. c - 1 |-> Mul(Mul(SamplesOfCase[((k + shift) % c) + 1],
                                              Conj(Phasor(freq * ((k + shift) % c), F_S))),
                                          Conj(CodesOfCase[k + 1]))]
           v == [k \in 0 .. c - 1 |-> Mul(Mul(SamplesEntered[((k + shift) % c) + 1],
                                              Conj(Phasor(freq * ((k + shift) % c), F_S))),
                                          Conj(CodesEntered[k + 1]))]
<1>1. u = v
  BY Zenon DEF CaseHandedOver
<1>2. Truth!Correlation(freq, shift) = Total(u, c)
  BY TruthArithmetic, Zenon DEF Truth!Correlation, Truth!Lowered
<1>3. Promise!Correlation(freq, shift) = Total(v, c)
  <2>1. Len(SamplesEntered) = c
    BY DEF CaseHandedOver
  <2> QED BY <2>1, PromiseArithmetic, Zenon DEF Promise!Correlation, Promise!Lowered
<1> HIDE DEF u, v
<1>4. Truth!Correlation(freq, shift) = Promise!Correlation(freq, shift)
  BY <1>1, <1>2, <1>3
<1> QED BY <1>4, TruthArithmetic, PromiseArithmetic, Zenon
        DEF Truth!CorrelationPower, Promise!CorrelationPower, CaseHandedOver

\* So is the mean power of the samples.
LEMMA TruthOfMean ==
    ASSUME CaseHandedOver
    PROVE  Truth!MeanPower = Promise!MeanPower
<1> DEFINE c == Len(SamplesOfCase)
           u == [k \in 0 .. c - 1 |-> <<Norm(SamplesOfCase[k + 1]), 0>>]
           v == [k \in 0 .. c - 1 |-> <<Norm(SamplesEntered[k + 1]), 0>>]
<1>1. u = v
  BY Zenon DEF CaseHandedOver
<1>2. Truth!MeanPower = (Recip(c) * Total(u, c)[1]) % P
  BY TruthArithmetic, Zenon DEF Truth!MeanPower
<1>3. Promise!MeanPower = (Recip(c) * Total(v, c)[1]) % P
  <2>1. Len(SamplesEntered) = c
    BY DEF CaseHandedOver
  <2> QED BY <2>1, PromiseArithmetic, Zenon DEF Promise!MeanPower
<1> HIDE DEF u, v
<1> QED BY <1>1, <1>2, <1>3

\* So is the answer.
LEMMA TruthIsPromise ==
    ASSUME CaseHandedOver, Len(SamplesOfCase) \in Nat, NEW freqs
    PROVE  Truth!Answer(freqs) = Promise!Answer(freqs)
<1> DEFINE c == Len(SamplesOfCase)
           F == Len(freqs)
           u == [e \in Cells(F, c) |-> Truth!CorrelationPower(freqs[e[1]], e[2])]
           v == [e \in Cells(F, c) |-> Promise!CorrelationPower(freqs[e[1]], e[2])]
           mean == Promise!MeanPower
<1>1. u = v
  BY TruthOfCell, Zenon
<1>2. Truth!MeanPower = mean
  BY TruthOfMean
<1>3. Truth!Answer(freqs)
        = IF \A e \in Cells(F, c) : u[e] = 0 THEN NoAnswer
          ELSE [acquired |-> ThresholdDen * u[First(F, c, u)] > ThresholdNum * mean,
                codePhase |-> First(F, c, u)[2],
                dopplerFrequency |-> freqs[First(F, c, u)[1]]]
  BY <1>2, Zenon DEF Truth!Answer, Truth!NoAnswer, NoAnswer, First, Best, Cells
<1>4. Promise!Answer(freqs)
        = IF \A e \in Cells(F, c) : v[e] = 0 THEN NoAnswer
          ELSE [acquired |-> ThresholdDen * v[First(F, c, v)] > ThresholdNum * mean,
                codePhase |-> First(F, c, v)[2],
                dopplerFrequency |-> freqs[First(F, c, v)[1]]]
  <2>1. Len(SamplesEntered) = c
    BY DEF CaseHandedOver
  <2> QED BY <2>1, Zenon DEF Promise!Answer, Promise!NoAnswer, NoAnswer, First, Best, Cells
<1> HIDE DEF u, v
<1> QED BY <1>1, <1>3, <1>4

-------------------------------------------------------------------------------
(* What main hands over *)

\* The correctness of the object's data, as long as the program is defined.
DataKept ==
    /\ PaddingZero /\ FieldsAreCandidate /\ InputsKept /\ TransformsKept /\ SpectraKept
    /\ ResultsKept /\ SearchKept

\* The two loops have handed over the numbers of the test case, one for one.
InStep ==
    /\ legal /\ nrOfSamples = N_SAMPLES
    /\ mpc \in {"samples", "codes"} => pc = "ready" /\ starts = 0
    /\ mpc = "samples" => sampleCount = loaded /\ codesCount = 0
    /\ mpc = "codes" => sampleCount = N_SAMPLES /\ codesCount = loaded
    /\ mpc \in {"started", "exit"} => sampleCount = N_SAMPLES /\ codesCount = N_SAMPLES
    /\ mpc = "started" => Running \/ pc = "ready"

SameNumbers ==
    /\ sampleCount <= Len(testCase.inputSamples)
    /\ \A k \in 0 .. sampleCount - 1 : samples[k] = testCase.inputSamples[k + 1]
    /\ codesCount <= Len(testCase.inputCodes)
    /\ \A k \in 0 .. codesCount - 1 : given[k + 1] = testCase.inputCodes[k + 1]

SameFrequencies ==
    mpc = "started" =>
        /\ testFreqCount = Len(testCase.testFrequencies)
        /\ \A g \in 0 .. testFreqCount - 1 : testFrequencies[g] = testCase.testFrequencies[g + 1]

\* When the start has returned, the fields main reads are the true answer.
TruthAnswered ==
    mpc = "started" /\ pc = "ready" =>
        /\ answer = Truth!Answer(testCase.testFrequencies)
        /\ \E acquired : answer = [acquired |-> acquired, codePhase |-> codePhase,
                                   dopplerFrequency |-> dopplerFrequency]

Verdict ==
    mpc = "exit" => (exitCode = 0 <=> Truth!Answer(testCase.testFrequencies) = Expected)

Loading == mpc \in {"samples", "codes", "started", "exit"} /\ count = N_SAMPLES

Handed ==
    Loading /\ pc # "undefined" =>
        InStep /\ SameNumbers /\ SameFrequencies /\ TruthAnswered /\ Verdict

DefinedAtExit == mpc = "exit" => pc = "deleted"

TruthInv == MainInv /\ (pc # "undefined" => DataKept) /\ DefinedAtExit /\ Handed

\* There is no way back from a step outside an array.
LEMMA UndefinedStays ==
    ASSUME CallerInv, [MainNext]_mainVars, pc = "undefined"
    PROVE  pc' = "undefined"
<1>1. [Next]_vars \/ Undefined
  BY CallsOfMain
<1>2. ~ Next
  BY DEF Next, AllocateAcquisition, EnterSample, EnterCode, StartAcquisition,
     DeleteAcquisition, Run, ComputeX, Fft, FftByRadix2, ChirpSignal, ConvolutionSpectra,
     ConvolutionProduct, UnchirpResult, Transforming, ComputeR, ScaleIdft,
     ComputeMaxValue, Decide
<1> QED BY <1>1, <1>2 DEF vars, Undefined

\* Every step of main keeps what the object holds, until it leaves an array.
LEMMA DataStep ==
    ASSUME TruthInv, [MainNext]_mainVars
    PROVE  pc' # "undefined" => DataKept'
<1> SUFFICES ASSUME pc' # "undefined" PROVE DataKept'
  OBVIOUS
<1>1. pc # "undefined"
  BY UndefinedStays DEF TruthInv, MainInv
<1>2. [Next]_vars
  BY CallsOfMain DEF TruthInv, MainInv, Undefined
<1>3. /\ TypeOK /\ ContractKept /\ PaddingZero /\ FieldsAreCandidate /\ InputsKept
      /\ TransformsKept /\ SpectraKept /\ ResultsKept /\ SearchKept
  BY <1>1 DEF TruthInv, MainInv, ObjectInv, DataKept
<1>4. TypeOK' /\ ContractKept'
  BY ObjectStep DEF TruthInv, ObjectInv
<1>5. PaddingZero' /\ FieldsAreCandidate' /\ InputsKept' /\ TransformsKept' /\ SpectraKept'
  BY <1>2, <1>3, PaddingStep, FieldsStep, InputsStep, TransformsStep, SpectraStep
<1>6. ResultsKept'
  BY <1>2, <1>3, ResultsStep
<1>7. SearchKept'
  BY <1>2, <1>3, <1>4, <1>5, <1>6, SearchStep
<1> QED BY <1>5, <1>6, <1>7 DEF DataKept

\* Once all is entered, what was entered is the test case.
LEMMA WholeCase ==
    ASSUME TypeOK, InputsKept, CallerInv, InStep, SameNumbers, count = N_SAMPLES,
           mpc = "started"
    PROVE  CaseHandedOver /\ Len(SamplesOfCase) \in Nat
<1>1. /\ N_SAMPLES \in Nat /\ legal /\ sampleCount = N_SAMPLES /\ codesCount = N_SAMPLES
      /\ N_SAMPLES <= Len(testCase.inputSamples) /\ N_SAMPLES <= Len(testCase.inputCodes)
  BY AcquisitionAssumption DEF InStep, SameNumbers
<1>2. testCase.inputSamples \in Seq(Complex) /\ testCase.inputCodes \in Seq(Complex)
  <2>1. SampleValues \subseteq Complex /\ CodeValues \subseteq Complex
    BY AcquisitionAssumption
  <2> QED BY <2>1, TableFacts, SMT
<1>3. /\ SamplesOfCase \in Seq(Complex) /\ Len(SamplesOfCase) = N_SAMPLES
      /\ \A i \in 1 .. N_SAMPLES : SamplesOfCase[i] = testCase.inputSamples[i]
  BY <1>1, <1>2, SMT DEF SamplesOfCase
<1>4. /\ CodesOfCase \in Seq(Complex) /\ Len(CodesOfCase) = N_SAMPLES
      /\ \A i \in 1 .. N_SAMPLES : CodesOfCase[i] = testCase.inputCodes[i]
  BY <1>1, <1>2, SMT DEF CodesOfCase
<1>5. SamplesEntered = SamplesOfCase
  <2>1. SamplesEntered \in Seq(Complex) /\ Len(SamplesEntered) = N_SAMPLES
    BY <1>1, SamplesAre
  <2>2. ASSUME NEW i \in 1 .. N_SAMPLES PROVE SamplesEntered[i] = SamplesOfCase[i]
    <3>1. i - 1 \in 0 .. N_SAMPLES - 1 /\ (i - 1) + 1 = i
      BY <1>1, SMT
    <3>2. SamplesEntered[(i - 1) + 1] = samples[i - 1]
      BY <1>1, <3>1, SamplesAre
    <3>3. samples[i - 1] = testCase.inputSamples[(i - 1) + 1]
      BY <1>1, <3>1 DEF SameNumbers
    <3> QED BY <1>3, <3>1, <3>2, <3>3
  <2> QED BY <1>3, <2>1, <2>2, SeqEqual
<1>6. CodesEntered = CodesOfCase
  <2>1. CodesEntered = given /\ given \in Seq(Complex) /\ Len(given) = N_SAMPLES
    BY <1>1 DEF CodesEntered, InputsKept
  <2>2. ASSUME NEW i \in 1 .. N_SAMPLES PROVE given[i] = CodesOfCase[i]
    <3>1. i - 1 \in 0 .. N_SAMPLES - 1 /\ (i - 1) + 1 = i
      BY <1>1, SMT
    <3>2. given[(i - 1) + 1] = testCase.inputCodes[(i - 1) + 1]
      BY <1>1, <3>1 DEF SameNumbers
    <3> QED BY <1>4, <3>1, <3>2
  <2> QED BY <1>4, <2>1, <2>2, SeqEqual
<1> QED BY <1>1, <1>3, <1>5, <1>6 DEF CaseHandedOver

\* What a state of the test program gives a step that stays defined.
LEMMA LoadingFacts ==
    ASSUME TruthInv, [MainNext]_mainVars, Loading', pc' # "undefined", mpc # "args"
    PROVE  /\ pc # "undefined" /\ TypeOK /\ ContractKept /\ DefinedWithinContract /\ DataKept
           /\ CallerInv /\ count = N_SAMPLES /\ count \in Nat
           /\ UNCHANGED <<arguments, caseId, count, testCase>>
           /\ TypeOK' /\ DataKept'
<1>1. CallerInv
  BY DEF TruthInv, MainInv
<1>2. pc # "undefined"
  BY <1>1, UndefinedStays
<1>3. TypeOK /\ ContractKept /\ DefinedWithinContract /\ DataKept
  BY <1>2 DEF TruthInv, MainInv, ObjectInv, DefinedWithinContract
<1>4. UNCHANGED <<arguments, caseId>>
  BY CaseStays
<1>5. UNCHANGED <<count, testCase>>
  BY <1>4 DEF count, testCase
<1>6. count = N_SAMPLES /\ count \in Nat
  BY <1>5, AcquisitionAssumption DEF Loading
<1>7. TypeOK'
  BY ObjectStep DEF TruthInv, ObjectInv
<1>8. DataKept'
  BY DataStep
<1> QED BY <1>1, <1>2, <1>3, <1>4, <1>5, <1>6, <1>7, <1>8

HandedNow == InStep /\ SameNumbers /\ SameFrequencies /\ TruthAnswered /\ Verdict

\* An object just allocated holds none of the numbers.
LEMMA AllocateHands ==
    ASSUME TruthInv, Allocate, Loading', pc' # "undefined"
    PROVE  HandedNow'
<1>1. mpc = "allocate" /\ mpc' = "samples" /\ [MainNext]_mainVars /\ loaded' = loaded
  BY DEF Allocate, MainNext
<1>2. /\ pc # "undefined" /\ DataKept /\ count = N_SAMPLES /\ count \in Nat
      /\ UNCHANGED <<count, testCase>> /\ CallerInv
  BY <1>1, LoadingFacts
<1>3. AllocateAcquisition(count)
  BY <1>2 DEF Allocate
<1>4. /\ pc = "none" /\ pc' = "ready" /\ nrOfSamples' = N_SAMPLES
      /\ sampleCount' = 0 /\ codesCount' = 0 /\ UNCHANGED <<given, starts, legal>>
  BY <1>2, <1>3 DEF AllocateAcquisition
<1>5. starts = 0 /\ legal /\ loaded = 0
  BY <1>1 DEF TruthInv, MainInv, OnTrack
<1>6. InStep'
  BY <1>1, <1>4, <1>5 DEF InStep
<1>7. SameNumbers'
  <2>1. 0 <= Len(testCase.inputSamples) /\ 0 <= Len(testCase.inputCodes)
    BY <1>2, TableFacts, SMT
  <2>2. 0 .. 0 - 1 = {}
    BY SMT
  <2> QED BY <1>2, <1>4, <2>1, <2>2 DEF SameNumbers
<1> QED BY <1>1, <1>6, <1>7 DEF HandedNow, SameFrequencies, TruthAnswered, Verdict

\* One more sample of the case is entered.
LEMMA LoadSampleHands ==
    ASSUME TruthInv, LoadSample, Loading', pc' # "undefined"
    PROVE  HandedNow'
<1>1. mpc = "samples" /\ mpc' = "samples" /\ [MainNext]_mainVars /\ loaded' = loaded + 1
  BY DEF LoadSample, MainNext
<1>2. /\ pc # "undefined" /\ DataKept /\ TypeOK /\ count = N_SAMPLES /\ count \in Nat
      /\ UNCHANGED <<count, testCase>> /\ CallerInv
  BY <1>1, LoadingFacts
<1>3. loaded < Len(testCase.inputSamples) /\ EnterSample(testCase.inputSamples[loaded + 1])
  BY DEF LoadSample, Undefined
<1>4. InStep /\ SameNumbers
  BY <1>1, <1>2 DEF TruthInv, Handed, Loading
<1>5. /\ sampleCount < nrOfSamples
      /\ samples' = [samples EXCEPT ![sampleCount] = testCase.inputSamples[loaded + 1]]
      /\ sampleCount' = sampleCount + 1
      /\ UNCHANGED <<pc, nrOfSamples, codesCount, given, starts, legal>>
  BY <1>3 DEF EnterSample, ghosts
<1>6. loaded = sampleCount /\ sampleCount \in Nat /\ nrOfSamples \in Nat /\ codesCount = 0
  BY <1>1, <1>2, <1>4, SMT DEF InStep, TypeOK
<1>7. InStep'
  BY <1>1, <1>4, <1>5, <1>6 DEF InStep
<1>8. SameNumbers'
  <2>1. Len(testCase.inputSamples) \in Nat
    BY <1>2, TableFacts
  <2>2. sampleCount' <= Len(testCase.inputSamples)
    BY <1>3, <1>5, <1>6, <2>1, SMT
  <2>3. DOMAIN samples = 0 .. nrOfSamples - 1
    BY <1>1, <1>2, <1>4 DEF TypeOK, InStep
  <2>4. ASSUME NEW k \in 0 .. sampleCount' - 1
        PROVE  samples'[k] = testCase.inputSamples[k + 1]
    <3>1. CASE k = sampleCount
      <4>1. k \in DOMAIN samples
        BY <1>5, <1>6, <2>3, <3>1, SMT
      <4> QED BY <1>5, <1>6, <3>1, <4>1
    <3>2. CASE k # sampleCount
      <4>1. k \in 0 .. sampleCount - 1 /\ k \in DOMAIN samples
        BY <1>5, <1>6, <2>3, <3>2, SMT
      <4>2. samples'[k] = samples[k]
        BY <1>5, <3>2, <4>1
      <4> QED BY <1>4, <4>1, <4>2 DEF SameNumbers
    <3> QED BY <3>1, <3>2
  <2> QED BY <1>2, <1>4, <1>5, <2>2, <2>4 DEF SameNumbers
<1> QED BY <1>1, <1>7, <1>8 DEF HandedNow, SameFrequencies, TruthAnswered, Verdict

\* The first loop ends when all samples are entered.
LEMMA SamplesLoadedHands ==
    ASSUME TruthInv, SamplesLoaded, Loading', pc' # "undefined"
    PROVE  HandedNow'
<1>1. /\ mpc = "samples" /\ mpc' = "codes" /\ [MainNext]_mainVars /\ loaded >= count
      /\ loaded' = 0 /\ UNCHANGED vars
  BY DEF SamplesLoaded, MainNext
<1>2. /\ pc # "undefined" /\ TypeOK /\ count = N_SAMPLES /\ count \in Nat
      /\ UNCHANGED <<count, testCase>> /\ CallerInv
  BY <1>1, LoadingFacts
<1>3. InStep /\ SameNumbers
  BY <1>1, <1>2 DEF TruthInv, Handed, Loading
<1>4. /\ UNCHANGED <<pc, nrOfSamples, sampleCount, codesCount, samples, given, starts, legal>>
  BY <1>1 DEF vars, entered, ghosts
<1>5. sampleCount = N_SAMPLES
  <2>1. sampleCount = loaded /\ nrOfSamples = N_SAMPLES /\ sampleCount \in 0 .. nrOfSamples
    BY <1>1, <1>2, <1>3 DEF InStep, TypeOK
  <2> QED BY <1>1, <1>2, <2>1, SMT
<1>6. InStep'
  BY <1>1, <1>3, <1>4, <1>5 DEF InStep
<1>7. SameNumbers'
  BY <1>2, <1>3, <1>4 DEF SameNumbers
<1> QED BY <1>1, <1>6, <1>7 DEF HandedNow, SameFrequencies, TruthAnswered, Verdict

\* One more code of the case is entered.
LEMMA LoadCodeHands ==
    ASSUME TruthInv, LoadCode, Loading', pc' # "undefined"
    PROVE  HandedNow'
<1>1. mpc = "codes" /\ mpc' = "codes" /\ [MainNext]_mainVars /\ loaded' = loaded + 1
  BY DEF LoadCode, MainNext
<1>2. /\ pc # "undefined" /\ DataKept /\ TypeOK /\ count = N_SAMPLES /\ count \in Nat
      /\ UNCHANGED <<count, testCase>> /\ CallerInv
  BY <1>1, LoadingFacts
<1>3. loaded < Len(testCase.inputCodes) /\ EnterCode(testCase.inputCodes[loaded + 1])
  BY DEF LoadCode, Undefined
<1>4. InStep /\ SameNumbers
  BY <1>1, <1>2 DEF TruthInv, Handed, Loading
<1>5. /\ given' = Append(given, testCase.inputCodes[loaded + 1])
      /\ codesCount' = codesCount + 1
      /\ UNCHANGED <<pc, nrOfSamples, sampleCount, samples, starts, legal>>
  BY <1>3 DEF EnterCode, ghosts
<1>6. loaded = codesCount /\ codesCount \in Nat /\ given \in Seq(Complex) /\ Len(given) = codesCount
  BY <1>1, <1>2, <1>4, SMT DEF InStep, TypeOK, DataKept, InputsKept
<1>7. InStep'
  BY <1>1, <1>4, <1>5, <1>6 DEF InStep
<1>8. SameNumbers'
  <2>1. Len(testCase.inputCodes) \in Nat
    BY <1>2, TableFacts
  <2>2. codesCount' <= Len(testCase.inputCodes)
    BY <1>3, <1>5, <1>6, <2>1, SMT
  <2>3. ASSUME NEW k \in 0 .. codesCount' - 1
        PROVE  given'[k + 1] = testCase.inputCodes[k + 1]
    <3>1. CASE k = codesCount
      BY <1>5, <1>6, <3>1, SMT
    <3>2. CASE k # codesCount
      <4>1. k \in 0 .. codesCount - 1 /\ k + 1 \in 1 .. Len(given)
        BY <1>5, <1>6, <3>2, SMT
      <4>2. given'[k + 1] = given[k + 1]
        BY <1>5, <1>6, <4>1, SMT
      <4> QED BY <1>4, <4>1, <4>2 DEF SameNumbers
    <3> QED BY <3>1, <3>2
  <2> QED BY <1>2, <1>4, <1>5, <2>2, <2>3 DEF SameNumbers
<1> QED BY <1>1, <1>7, <1>8 DEF HandedNow, SameFrequencies, TruthAnswered, Verdict

\* The second loop ends when all codes are entered, and the start is within the
\* contract.
LEMMA StartHands ==
    ASSUME TruthInv, Start, Loading', pc' # "undefined"
    PROVE  HandedNow'
<1> DEFINE freqs == testCase.testFrequencies
<1>1. /\ mpc = "codes" /\ mpc' = "started" /\ [MainNext]_mainVars /\ loaded >= count
      /\ StartAcquisition(freqs)
  BY DEF Start, MainNext
<1>2. /\ pc # "undefined" /\ DataKept /\ TypeOK /\ count = N_SAMPLES /\ count \in Nat
      /\ UNCHANGED <<count, testCase>> /\ CallerInv
  BY <1>1, LoadingFacts
<1>3. InStep /\ SameNumbers
  BY <1>1, <1>2 DEF TruthInv, Handed, Loading
<1>4. Len(freqs) <= N_FREQ
  BY <1>2, TableFacts
<1>5. /\ UNCHANGED <<nrOfSamples, sampleCount, codesCount, samples, given>>
      /\ testFreqCount' = Len(freqs) /\ pc' = "computeX"
      /\ testFrequencies' = [g \in DOMAIN testFrequencies |->
                               IF g < Len(freqs) THEN freqs[g + 1] ELSE testFrequencies[g]]
      /\ legal' <=> (legal /\ InContract(freqs))
  BY <1>1, <1>4 DEF StartAcquisition, entered
<1>6. /\ nrOfSamples = N_SAMPLES /\ starts = 0 /\ legal
      /\ sampleCount = N_SAMPLES /\ codesCount = N_SAMPLES
  <2>1. /\ codesCount = loaded /\ nrOfSamples = N_SAMPLES /\ codesCount \in 0 .. nrOfSamples
        /\ starts = 0 /\ legal /\ sampleCount = N_SAMPLES
    BY <1>1, <1>2, <1>3 DEF InStep, TypeOK
  <2>2. codesCount = N_SAMPLES
    BY <1>1, <1>2, <2>1, SMT
  <2> QED BY <2>1, <2>2
<1>7. legal'
  <2>1. IF PowerOfTwo(N_SAMPLES) THEN N_SAMPLES = M ELSE 2 * N_SAMPLES - 1 <= M
    BY MainAssumption
  <2>2. InContract(freqs)
    BY <1>4, <1>6, <2>1 DEF InContract, LengthSupported
  <2> QED BY <1>5, <1>6, <2>2
<1>8. InStep'
  BY <1>1, <1>5, <1>6, <1>7 DEF InStep, Running
<1>9. SameNumbers'
  BY <1>2, <1>3, <1>5 DEF SameNumbers
<1>10. SameFrequencies'
  <2>1. DOMAIN testFrequencies = 0 .. N_FREQ - 1 /\ N_FREQ \in Nat
    <3>1. pc # "none"
      BY <1>1 DEF StartAcquisition
    <3> QED BY <1>2, <3>1, AcquisitionAssumption DEF DataKept, InputsKept
  <2>2. Len(freqs) \in Nat
    <3>1. freqs \in Frequencies
      BY <1>2, TableFacts
    <3> QED BY <3>1, AcquisitionAssumption
  <2>3. ASSUME NEW g \in 0 .. Len(freqs) - 1 PROVE testFrequencies'[g] = freqs[g + 1]
    <3>1. g \in DOMAIN testFrequencies /\ g < Len(freqs)
      BY <1>4, <2>1, <2>2, SMT
    <3> QED BY <1>5, <3>1
  <2> QED BY <1>2, <1>5, <2>3 DEF SameFrequencies
<1> QED BY <1>1, <1>5, <1>8, <1>9, <1>10 DEF HandedNow, TruthAnswered, Verdict

\* The start's last step leaves the answer to the test case's numbers.
LEMMA AnsweringHands ==
    ASSUME TruthInv, Answering, Loading', pc' # "undefined"
    PROVE  HandedNow'
<1> DEFINE freqs == testCase.testFrequencies
<1>1. mpc = "started" /\ mpc' = "started" /\ [MainNext]_mainVars /\ Run
  BY DEF Answering, MainNext, callerVars
<1>2. /\ pc # "undefined" /\ DataKept /\ TypeOK /\ ContractKept /\ count = N_SAMPLES
      /\ count \in Nat /\ UNCHANGED <<count, testCase>> /\ CallerInv
  BY <1>1, LoadingFacts
<1>3. InStep /\ SameNumbers /\ SameFrequencies
  BY <1>1, <1>2 DEF TruthInv, Handed, Loading
<1>4. /\ UNCHANGED <<nrOfSamples, entered, tested, starts, legal>> /\ Running
      /\ Running' \/ pc' \in {"undefined", "ready"}
  BY <1>1, <1>2, RunKeeps
<1>5. UNCHANGED <<sampleCount, codesCount, samples, given, testFreqCount, testFrequencies>>
  BY <1>4 DEF entered, tested
<1>6. InStep'
  BY <1>1, <1>3, <1>4, <1>5 DEF InStep
<1>7. SameNumbers'
  BY <1>2, <1>3, <1>5 DEF SameNumbers
<1>8. SameFrequencies'
  BY <1>1, <1>2, <1>3, <1>5 DEF SameFrequencies
<1>9. TruthAnswered'
  <2> SUFFICES ASSUME pc' = "ready"
               PROVE  /\ answer' = Truth!Answer(freqs)'
                      /\ \E acquired : answer' = [acquired |-> acquired,
                                                  codePhase |-> codePhase',
                                                  dopplerFrequency |-> dopplerFrequency']
    BY <1>2 DEF TruthAnswered
  <2>1. Decide
    BY <1>1 DEF Run, Fft, ComputeX, FftByRadix2, ChirpSignal, ConvolutionSpectra,
                ConvolutionProduct, UnchirpResult, ComputeR, ScaleIdft, ComputeMaxValue,
                Undefined, Replace, Transforming,
                Peak!Search, Peak!ScanEntry, Peak!NextRow, Peak!Return
  <2>2. /\ answer' = [acquired |-> /\ sampleCount > 0
                                   /\ ThresholdDen * sMax > ThresholdNum * EstimatePIn,
                      codePhase |-> codePhase,
                      dopplerFrequency |-> dopplerFrequency]
        /\ pc = "estimate" /\ UNCHANGED <<codePhase, dopplerFrequency>>
    BY <2>1 DEF Decide, search
  <2>3. answer' = Promise!Answer(freqs)
    <3>1. freqs \in Frequencies
      BY <1>2, TableFacts
    <3>2. /\ Len(freqs) = testFreqCount
          /\ \A g \in 0 .. testFreqCount - 1 : testFrequencies[g] = freqs[g + 1]
      BY <1>1, <1>3 DEF SameFrequencies
    <3>3. InputsKept /\ ResultsKept /\ SearchKept /\ legal
      BY <1>2, <1>3 DEF DataKept, InStep
    <3> HIDE DEF freqs
    <3> QED BY <1>2, <2>2, <3>1, <3>2, <3>3, AnswerPromised
  <2>4. Promise!Answer(freqs) = Truth!Answer(freqs)
    <3>1. InputsKept
      BY <1>2 DEF DataKept
    <3> QED BY <1>1, <1>2, <1>3, <3>1, WholeCase, TruthIsPromise
  <2>5. Truth!Answer(freqs)' = Truth!Answer(freqs)
    <3>1. UNCHANGED <<SamplesOfCase, CodesOfCase>>
      BY <1>2 DEF SamplesOfCase, CodesOfCase
    <3> QED BY <1>2, <3>1 DEF Truth!Answer, Truth!CorrelationPower, Truth!Correlation, Truth!Lowered, Truth!MeanPower
  <2> QED BY <2>2, <2>3, <2>4, <2>5
<1> QED BY <1>1, <1>6, <1>7, <1>8, <1>9 DEF HandedNow, Verdict

\* main compares what the object answered with what the case notes.
LEMMA FinishHands ==
    ASSUME TruthInv, Finish, Loading', pc' # "undefined"
    PROVE  HandedNow'
<1> DEFINE freqs == testCase.testFrequencies
           true == Truth!Answer(freqs)
<1>1. /\ mpc = "started" /\ mpc' = "exit" /\ [MainNext]_mainVars /\ DeleteAcquisition
      /\ exitCode' = IF Passed THEN 0 ELSE 1
  BY DEF Finish, MainNext
<1>2. /\ pc # "undefined" /\ count = N_SAMPLES /\ UNCHANGED <<count, testCase>>
  BY <1>1, LoadingFacts
<1>3. InStep /\ SameNumbers /\ TruthAnswered
  BY <1>1, <1>2 DEF TruthInv, Handed, Loading
<1>4. /\ pc = "ready" /\ pc' = "deleted"
      /\ UNCHANGED <<nrOfSamples, sampleCount, codesCount, samples, given, starts, legal, answer,
                     codePhase, dopplerFrequency>>
  BY <1>1 DEF DeleteAcquisition, entered, search
<1>5. InStep' /\ SameNumbers'
  BY <1>1, <1>2, <1>3, <1>4 DEF InStep, SameNumbers
<1>6. Passed <=> true = Expected
  <2>1. PICK acquired : answer = [acquired |-> acquired, codePhase |-> codePhase,
                                  dopplerFrequency |-> dopplerFrequency]
    BY <1>1, <1>3, <1>4 DEF TruthAnswered
  <2>2. answer = true
    BY <1>1, <1>3, <1>4 DEF TruthAnswered
  <2> HIDE DEF true
  <2>3. answer.acquired = acquired
    BY <2>1
  <2>4. answer = Expected <=> /\ acquired = testCase.acquisition
                              /\ codePhase = testCase.codePhase
                              /\ dopplerFrequency = testCase.dopplerFrequency
    <3> DEFINE q == testCase.acquisition
               p == testCase.codePhase
               d == testCase.dopplerFrequency
    <3>1. Expected = [acquired |-> q, codePhase |-> p, dopplerFrequency |-> d]
      BY DEF Expected
    <3> HIDE DEF q, p, d
    <3>2. answer = Expected <=> acquired = q /\ codePhase = p /\ dopplerFrequency = d
      BY <2>1, <3>1, SMT
    <3> QED BY <3>2 DEF q, p, d
  <2> QED BY <2>2, <2>3, <2>4 DEF Passed
<1>7. exitCode' = 0 <=> true = Expected
  BY <1>1, <1>6
<1>8. true' = true /\ Expected' = Expected
  <2>1. UNCHANGED <<SamplesOfCase, CodesOfCase>>
    BY <1>2 DEF SamplesOfCase, CodesOfCase
  <2>2. true' = true
    BY <1>2, <2>1 DEF Truth!Answer, Truth!CorrelationPower, Truth!Correlation, Truth!Lowered,
                      Truth!MeanPower
  <2> QED BY <1>2, <2>2 DEF Expected
<1>9. Verdict'
  BY <1>7, <1>8 DEF Verdict
<1> QED BY <1>1, <1>5, <1>9 DEF HandedNow, SameFrequencies, TruthAnswered

\* Every step of main keeps the invariant.
LEMMA TruthStep ==
    ASSUME TruthInv, [MainNext]_mainVars
    PROVE  TruthInv'
<1>1. MainInv'
  BY ObjectStep, CallerStep, OnTrackStep DEF TruthInv, MainInv
<1>2. DefinedAtExit'
  <2>1. CASE Finish
    BY <2>1 DEF Finish, DeleteAcquisition, DefinedAtExit
  <2>2. CASE UNCHANGED mainVars
    BY <2>2 DEF mainVars, callerVars, vars, ghosts, DefinedAtExit, TruthInv
  <2>3. CASE MainNext /\ ~ Finish
    <3>1. mpc' # "exit"
      BY <2>3 DEF MainNext, GetTestCase, Allocate, LoadSample, SamplesLoaded, LoadCode, Start,
                  Answering, callerVars
    <3> QED BY <3>1 DEF DefinedAtExit
  <2> QED BY <2>1, <2>2, <2>3
<1>3. Handed'
  <2> SUFFICES ASSUME Loading', pc' # "undefined" PROVE HandedNow'
    BY DEF Handed, HandedNow
  <2>1. CASE GetTestCase
    BY <2>1 DEF GetTestCase, Loading
  <2>2. CASE UNCHANGED mainVars
    <3>1. UNCHANGED <<mpc, pc, arguments, caseId, loaded, exitCode, nrOfSamples, sampleCount,
                      codesCount, samples, given, starts, legal, answer, codePhase,
                      dopplerFrequency, testFreqCount, testFrequencies>>
      BY <2>2 DEF mainVars, callerVars, vars, entered, tested, search, ghosts
    <3>2. UNCHANGED <<testCase, count>>
      BY <3>1 DEF testCase, count
    <3>3. HandedNow
      BY <3>1, <3>2 DEF TruthInv, Handed, HandedNow, Loading
    <3>4. UNCHANGED <<SamplesOfCase, CodesOfCase, Expected>>
      BY <3>2 DEF SamplesOfCase, CodesOfCase, Expected
    <3>5. Truth!Answer(testCase.testFrequencies)' = Truth!Answer(testCase.testFrequencies)
      BY <3>2, <3>4 DEF Truth!Answer, Truth!CorrelationPower, Truth!Correlation, Truth!Lowered,
                        Truth!MeanPower
    <3>6. InStep' /\ SameNumbers' /\ SameFrequencies'
      BY <3>1, <3>2, <3>3 DEF HandedNow, InStep, SameNumbers, SameFrequencies, Running
    <3>7. TruthAnswered' /\ Verdict'
      BY <3>1, <3>3, <3>4, <3>5 DEF HandedNow, TruthAnswered, Verdict
    <3> QED BY <3>6, <3>7 DEF HandedNow
  <2> QED BY <2>1, <2>2, AllocateHands, LoadSampleHands, SamplesLoadedHands, LoadCodeHands,
             StartHands, AnsweringHands, FinishHands DEF MainNext
<1>4. pc' # "undefined" => DataKept'
  BY DataStep
<1> QED BY <1>1, <1>2, <1>3, <1>4 DEF TruthInv

\* For every table of test cases, every command line that asks for the number of
\* samples the program is compiled for, and all the numbers of a case: the
\* program exits with 0 exactly when what the case notes is the first largest
\* power of the circular correlation of its samples and codes.
THEOREM ExitCodeIsTruth == MainSpec => []ExitCodeTellsAnswer
<1>1. MainInit => TruthInv
  <2> SUFFICES ASSUME MainInit PROVE TruthInv
    OBVIOUS
  <2>1. Init /\ mpc = "args"
    BY DEF MainInit
  <2>2. DataKept
    BY <2>1, SpectraInit DEF DataKept, Init, FieldsAreCandidate, PaddingZero, ResultsKept,
                             SearchKept, Running
  <2>3. DefinedAtExit /\ Handed
    BY <2>1 DEF DefinedAtExit, Handed, Loading
  <2> QED BY <2>2, <2>3, MainStart DEF TruthInv
<1>2. TruthInv /\ [MainNext]_mainVars => TruthInv'
  BY TruthStep
<1>3. TruthInv => ExitCodeTellsAnswer
  BY DEF TruthInv, Handed, Loading, DefinedAtExit, Verdict, ExitCodeTellsAnswer
<1> QED BY <1>1, <1>2, <1>3, PTL DEF MainSpec
===============================================================================
