--------------------------- MODULE AcquisitionMain ----------------------------
(***************************************************************************)
(* The program of gpsAcquisition/main.c: it picks a test case, drives one   *)
(* acquisition object through its life and compares the answer with the     *)
(* answer noted beside the test data (testData.c).  Every call to the       *)
(* object is an action of module Acquisition; this module adds the caller.  *)
(*                                                                          *)
(* The command line is a sequence of at most two numbers, what strtol makes *)
(* of the arguments.  The arrays of a test case are sequences; reading      *)
(* beyond their ends, like any other step outside a block, leads to the     *)
(* state "undefined".                                                       *)
(***************************************************************************)
EXTENDS Acquisition, FiniteSets

CONSTANTS Cases,     \* the table testCases, a function on 0 .. avail - 1
          Arguments  \* the command lines considered

(***************************************************************************)
(* The sizes of acquisition.h belong together, the table of testData.c      *)
(* holds at least one case and keeps to them, and the caller's numbers are  *)
(* among those Acquisition considers.  How many numbers a case holds is not *)
(* assumed, nor what a command line asks for.                               *)
(***************************************************************************)
ASSUME MainAssumption ==
    /\ IF PowerOfTwo(N_SAMPLES) THEN N_SAMPLES = M ELSE 2 * N_SAMPLES - 1 <= M
    /\ Cardinality(DOMAIN Cases) \in Nat \ {0}
    /\ DOMAIN Cases = 0 .. Cardinality(DOMAIN Cases) - 1
    /\ \A id \in DOMAIN Cases :
          LET case == Cases[id] IN
          /\ case.complexSampleCount \in Capacities
          /\ case.inputSamples \in Seq(SampleValues)
          /\ case.inputCodes \in Seq(CodeValues)
          /\ case.testFrequencies \in Frequencies
          /\ Len(case.testFrequencies) <= N_FREQ
    /\ \A args \in Arguments :
          /\ args \in Seq(Int)
          /\ Len(args) >= 2 /\ args[2] \in Nat => args[2] \in Capacities

VARIABLES mpc,           \* where main stands
          arguments,     \* the command line
          caseId,        \* the index getTestCase settles on
          loaded,        \* complex numbers the running loop has handed over
          exitCode

callerVars == <<mpc, arguments, caseId, loaded, exitCode>>
mainVars   == <<vars, callerVars>>

testCase == Cases[caseId]
avail    == Cardinality(DOMAIN Cases)

\* nrOfSamples of main: the second argument, or the size of the test case.
count == IF Len(arguments) >= 2 THEN arguments[2] ELSE testCase.complexSampleCount

MainInit ==
    /\ Init
    /\ mpc = "args" /\ arguments \in Arguments
    /\ caseId = 0 /\ loaded = 0 /\ exitCode = 0

\* The default is the case with index 2.
RequestedCase == IF Len(arguments) >= 1 THEN arguments[1] ELSE 2

\* getTestCase falls back to case 0 above the table, and checks nothing below.
GetTestCase ==
    /\ mpc = "args"
    /\ mpc' = "allocate"
    /\ IF RequestedCase < 0
       THEN Undefined /\ UNCHANGED caseId
       ELSE /\ caseId' = IF RequestedCase >= avail THEN 0 ELSE RequestedCase
            /\ UNCHANGED vars
    /\ UNCHANGED <<arguments, loaded, exitCode>>

Allocate ==
    /\ mpc = "allocate"
    /\ mpc' = "samples"
    /\ IF count \in Nat THEN AllocateAcquisition(count) ELSE pc = "none" /\ Undefined
    /\ UNCHANGED <<arguments, caseId, loaded, exitCode>>

\* The two loops of loadSamplesAndCodes.  The numbers of a test case may be
\* fewer than the loop asks for.
\* Slip: one iteration too many.
LoadSampleBeyond ==
    /\ mpc = "samples" /\ loaded <= count
    /\ IF loaded < Len(testCase.inputSamples)
       THEN EnterSample(testCase.inputSamples[loaded + 1])
       ELSE pc = "ready" /\ Undefined
    /\ loaded' = loaded + 1
    /\ UNCHANGED <<mpc, arguments, caseId, exitCode>>

LoadSample ==
    /\ mpc = "samples" /\ loaded < count
    /\ IF loaded < Len(testCase.inputSamples)
       THEN EnterSample(testCase.inputSamples[loaded + 1])
       ELSE pc = "ready" /\ Undefined
    /\ loaded' = loaded + 1
    /\ UNCHANGED <<mpc, arguments, caseId, exitCode>>

\* Slip: an exit condition the loop never reaches.
SamplesLoadedLate ==
    /\ mpc = "samples" /\ loaded > count /\ pc = "ready"
    /\ mpc' = "codes" /\ loaded' = 0
    /\ UNCHANGED <<vars, arguments, caseId, exitCode>>

SamplesLoaded ==
    /\ mpc = "samples" /\ loaded >= count /\ pc = "ready"
    /\ mpc' = "codes" /\ loaded' = 0
    /\ UNCHANGED <<vars, arguments, caseId, exitCode>>

LoadCode ==
    /\ mpc = "codes" /\ loaded < count
    /\ IF loaded < Len(testCase.inputCodes)
       THEN EnterCode(testCase.inputCodes[loaded + 1])
       ELSE pc = "ready" /\ Undefined
    /\ loaded' = loaded + 1
    /\ UNCHANGED <<mpc, arguments, caseId, exitCode>>

Start ==
    /\ mpc = "codes" /\ loaded >= count
    /\ StartAcquisition(testCase.testFrequencies)
    /\ mpc' = "started"
    /\ UNCHANGED <<arguments, caseId, loaded, exitCode>>

Answering == mpc = "started" /\ Run /\ UNCHANGED callerVars

\* The comparison reads the two fields of the object before it is deleted.
\* Slip: the delay is not compared.
PassedAnyDelay ==
    /\ answer.acquired = testCase.acquisition
    /\ dopplerFrequency = testCase.dopplerFrequency

Passed ==
    /\ answer.acquired = testCase.acquisition
    /\ codePhase = testCase.codePhase
    /\ dopplerFrequency = testCase.dopplerFrequency

Finish ==
    /\ mpc = "started"
    /\ DeleteAcquisition
    /\ exitCode' = IF Passed THEN 0 ELSE 1
    /\ mpc' = "exit"
    /\ UNCHANGED <<arguments, caseId, loaded>>

MainNext == \/ GetTestCase \/ Allocate \/ LoadSample \/ SamplesLoaded \/ LoadCode
            \/ Start \/ Answering \/ Finish

\* One thread runs the program from main to its end.
MainSpec == MainInit /\ [][MainNext]_mainVars /\ WF_mainVars(MainNext)

-------------------------------------------------------------------------------
\* What the object should answer: AcquisitionSpec's Answer for the numbers of
\* the chosen test case.
SamplesOfCase == SubSeq(testCase.inputSamples, 1, count)
CodesOfCase   == SubSeq(testCase.inputCodes, 1, count)

Truth == INSTANCE AcquisitionSpec WITH
    phase <- "open", room <- count, samples <- SamplesOfCase, codes <- CodesOfCase,
    answer <- NoAnswer

Expected == [acquired |-> testCase.acquisition, codePhase |-> testCase.codePhase,
             dopplerFrequency |-> testCase.dopplerFrequency]

(***************************************************************************)
(* The exit code tells whether the expectation of the test case is the      *)
(* correlation answer for its data: the load loops, the padding to the      *)
(* transform size, the default and fallback of the case number and the      *)
(* comparison all lie in between.  (main.c 34-63)                           *)
(***************************************************************************)
ExitCodeTellsAnswer ==
    mpc = "exit" /\ count = N_SAMPLES =>
        (exitCode = 0 <=> Truth!Answer(testCase.testFrequencies) = Expected)

\* When main loads N_SAMPLES numbers, of a case that holds as many, it runs without
\* leaving an array or a block.  (testData.c 36-75)
CompleteCasesAreDefined ==
    /\ mpc # "args"
    /\ count = N_SAMPLES
    /\ Len(testCase.inputSamples) >= N_SAMPLES /\ Len(testCase.inputCodes) >= N_SAMPLES
    /\ RequestedCase >= 0
    => pc # "undefined"

\* Whatever the command line, main comes to its end or C says no more.
MainEnds == <>(mpc = "exit" \/ pc = "undefined")

\* "If present argv[2] = nrOfSamples" (main.c): a smaller number of samples than
\* the test case holds is a legal command line.
FewerSamplesAreDefined ==
    /\ mpc # "args" /\ RequestedCase >= 0
    /\ testCase.complexSampleCount <= Len(testCase.inputSamples)
    /\ count \in 1 .. testCase.complexSampleCount
    => pc # "undefined"

===============================================================================
