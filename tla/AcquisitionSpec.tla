--------------------------- MODULE AcquisitionSpec ----------------------------
(***************************************************************************)
(* What an acquisition object promises its caller (acquisition.h), with no  *)
(* buffers, transforms or matrices: the caller hands over samples and codes *)
(* and asks once, and the answer is the delay and the frequency at which    *)
(* the circular cross-correlation of the samples, moved down by the         *)
(* frequency, with the codes has its first largest power.                   *)
(*                                                                          *)
(* The functions check nothing, so the promise holds for callers that stay  *)
(* within InContract; after any other call the object is "unspecified".     *)
(***************************************************************************)
EXTENDS Signal, Sequences

CONSTANTS M, N_SAMPLES, N_FREQ,        \* the sizes fixed at compile time
          F_S,                         \* the sample frequency
          ThresholdNum, ThresholdDen,  \* 0.015 as a fraction
          SampleValues, CodeValues,    \* what the caller may enter
          Frequencies                  \* the lists of frequencies it may test

VARIABLES phase,     \* "none", "open", "answered", "unspecified", "deleted"
          room,      \* the nrOfSamples of allocateAcquisition
          samples, codes, answer

absVars == <<phase, room, samples, codes, answer>>

NoAnswer == [acquired |-> FALSE, codePhase |-> 0, dopplerFrequency |-> 0]

PowerOfTwo(x) == x = 0 \/ \E k \in 0 .. 30 : x = 2 ^ k

\* The calls the functions are written for.  A number of samples that is a
\* power of two selects radix2, whose size is always M.
InContract(freqs) ==
    LET count == Len(samples) IN
    /\ phase = "open"
    /\ room = N_SAMPLES
    /\ Len(codes) = count
    /\ IF PowerOfTwo(count) THEN count = M ELSE 2 * count - 1 <= M
    /\ Len(freqs) <= N_FREQ

\* The samples moved down by freq, and their correlation with the codes.
Lowered(freq, k) == Mul(samples[k + 1], Conj(Phasor(freq * k, F_S)))

Correlation(freq, shift) ==
    LET count == Len(samples) IN
    Total([k \in 0 .. count - 1 |->
             Mul(Lowered(freq, (k + shift) % count), Conj(codes[k + 1]))], count)

CorrelationPower(freq, shift) ==
    Norm(Scale(Correlation(freq, shift), Recip(Len(samples))))

MeanPower ==
    LET count == Len(samples)
    IN  (Recip(count) * Total([k \in 0 .. count - 1 |-> <<Norm(samples[k + 1]), 0>>], count)[1]) % P

Answer(freqs) ==
    LET cells == (1 .. Len(freqs)) \X (0 .. Len(samples) - 1)
        power == [c \in cells |-> CorrelationPower(freqs[c[1]], c[2])]
        best  == {c \in cells : \A d \in cells : power[d] <= power[c]}
        first == CHOOSE c \in best : \A d \in best :
                    c[1] < d[1] \/ (c[1] = d[1] /\ c[2] <= d[2])
    IN  IF \A c \in cells : power[c] = 0 THEN NoAnswer
        ELSE [acquired |-> ThresholdDen * power[first] > ThresholdNum * MeanPower,
              codePhase |-> first[2],
              dopplerFrequency |-> freqs[first[1]]]

-------------------------------------------------------------------------------
AbsInit == phase = "none" /\ room = 0 /\ samples = <<>> /\ codes = <<>> /\ answer = NoAnswer

Unspecified ==
    /\ phase' = "unspecified"
    /\ samples' = <<>> /\ codes' = <<>> /\ answer' = NoAnswer
    /\ UNCHANGED room

AbsAllocate ==
    /\ phase = "none"
    /\ phase' = "open" /\ room' \in Nat
    /\ UNCHANGED <<samples, codes, answer>>

AbsEnterSample ==
    /\ phase \in {"open", "answered"}
    /\ IF Len(samples) < room
       THEN /\ \E v \in SampleValues : samples' = Append(samples, v)
            /\ UNCHANGED <<phase, room, codes, answer>>
       ELSE Unspecified

AbsEnterCode ==
    /\ phase \in {"open", "answered"}
    /\ IF Len(codes) < room
       THEN /\ \E v \in CodeValues : codes' = Append(codes, v)
            /\ UNCHANGED <<phase, room, samples, answer>>
       ELSE Unspecified

AbsStart ==
    /\ phase \in {"open", "answered"}
    /\ \E freqs \in Frequencies :
          IF InContract(freqs)
          THEN /\ answer' = Answer(freqs) /\ phase' = "answered"
               /\ UNCHANGED <<room, samples, codes>>
          ELSE Unspecified

AbsDelete ==
    /\ phase \in {"open", "answered", "unspecified"}
    /\ phase' = "deleted"
    /\ UNCHANGED <<room, samples, codes, answer>>

AbsNext == AbsAllocate \/ AbsEnterSample \/ AbsEnterCode \/ AbsStart \/ AbsDelete

AbsSpec == AbsInit /\ [][AbsNext]_absVars
===============================================================================
