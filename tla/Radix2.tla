-------------------------------- MODULE Radix2 --------------------------------
(***************************************************************************)
(* One call of radix2 in gpsAcquisition/acquisition.c, loop iteration by    *)
(* loop iteration: the bit reversal of the two argument arrays in place,    *)
(* the copy into the interleaved scratch array `data`, the three nested     *)
(* butterfly loops with their twiddle recurrence, and the copy back.        *)
(*                                                                          *)
(* input and touched are history variables: the signal the caller passed,   *)
(* and the entries of data the butterflies of the current stage have        *)
(* rewritten.                                                               *)
(***************************************************************************)
EXTENDS Signal

CONSTANTS M,          \* the transform size, 2048 in the code
          Levels,     \* the bits of an index, the literal 11 in the code
          Inputs,     \* the signals a caller may pass
          Junk        \* what the scratch array may hold before the call

ASSUME SizeAssumption ==
    /\ M \in Nat /\ M > 1
    /\ Levels \in Nat
    \* M is a power of two: a divisor of 2M other than 1 is even
    /\ \A q \in 2 .. 2 * M, d \in 1 .. 2 * M :
          q * d = 2 * M => \E h \in 1 .. M : q = 2 * h

ASSUME InputAssumption ==
    /\ M = 2 ^ Levels
    /\ Order % (2 * M) = 0
    /\ Inputs \subseteq [0 .. M - 1 -> Complex]
    /\ Junk \subseteq Scalar

VARIABLES pc, real, imag, isign,  \* control state and arguments
          rev,                    \* loop variable of bitReversal
          data,                   \* the scratch array of 2*M floats
          mmax, m, i,             \* loop variables of the butterfly loops
          w,                      \* the twiddle factor <<wr, wi>>
          input, touched

vars == <<pc, real, imag, isign, rev, data, mmax, m, i, w, input, touched>>

n     == 2 * M

\* Slips in the loop arithmetic: shifted too far, not shifted, the partner
\* looked for in the next block.
istepShiftedTwice == 4 * mmax
istepNotShifted   == mmax
jBeyondBlock      == i + 2 * mmax

istep == 2 * mmax
j     == i + mmax

\* Slip: one iteration fewer.
ReverseBitsButLast(num, levels) ==
    LET reversed[l \in 0 .. levels] ==
          IF l <= 1 THEN 0
          ELSE 2 * reversed[l - 1] + ((num \div 2 ^ (l - 2)) % 2)
    IN  reversed[levels]

\* The bits of num, least significant first, read back as a number.
ReverseBits(num, levels) ==
    LET reversed[l \in 0 .. levels] ==
          IF l = 0 THEN 0
          ELSE 2 * reversed[l - 1] + ((num \div 2 ^ (l - 1)) % 2)
    IN  reversed[levels]

SwapArray(array, a, b) == [array EXCEPT ![a] = array[b], ![b] = array[a]]

\* sin and cos of theta = isign * 2*pi/mmax, and the recurrence's constants
\* wpr = -2 sin(theta/2)^2 and wpi = sin(theta).
HalfSineOfTheta == Phasor(isign, mmax)[2]   \* slip: the factor 0.5f forgotten
HalfSine == Phasor(isign, 2 * mmax)[2]
Wpr      == (0 - 2 * HalfSine * HalfSine) % P
Wpi      == Phasor(isign, mmax)[2]

-------------------------------------------------------------------------------
Init ==
    /\ pc = "reverse" /\ rev = 0
    /\ input \in Inputs /\ isign \in {-1, 1}
    /\ real = [k \in 0 .. M - 1 |-> input[k][1]]
    /\ imag = [k \in 0 .. M - 1 |-> input[k][2]]
    /\ \E junk \in Junk : data = [k \in 0 .. n - 1 |-> junk]
    /\ mmax = 2 /\ m = 1 /\ i = 1 /\ w = One /\ touched = {}

\* One iteration of the loop of bitReversal.
BitReversal ==
    /\ pc = "reverse" /\ rev < M
    /\ LET to == ReverseBits(rev, Levels) IN
       /\ real' = IF to > rev THEN SwapArray(real, rev, to) ELSE real
       /\ imag' = IF to > rev THEN SwapArray(imag, rev, to) ELSE imag
    /\ rev' = rev + 1
    /\ UNCHANGED <<pc, isign, data, mmax, m, i, w, input, touched>>

ConcatArrays ==
    /\ pc = "reverse" /\ rev = M
    /\ data' = [k \in 0 .. n - 1 |->
                  IF k % 2 = 0 THEN real[k \div 2] ELSE imag[k \div 2]]
    /\ mmax' = 2
    /\ pc' = "stage"
    /\ UNCHANGED <<real, imag, isign, rev, m, i, w, input, touched>>

\* The head of the external loop, up to the first iteration of the loop on m.
StartStage ==
    /\ pc = "stage" /\ n > mmax
    /\ w' = One /\ m' = 1 /\ i' = 1 /\ touched' = {}
    /\ pc' = "butterfly"
    /\ UNCHANGED <<real, imag, isign, rev, data, mmax, input>>

Butterfly ==
    /\ pc = "butterfly" /\ i <= n
    /\ LET tempr == w[1] * data[j - 1] - w[2] * data[j]
           tempi == w[1] * data[j] + w[2] * data[j - 1]
       IN  data' = [data EXCEPT
                      ![j - 1] = (data[i - 1] - tempr) % P,
                      ![j]     = (data[i] - tempi) % P,
                      ![i - 1] = (data[i - 1] + tempr) % P,
                      ![i]     = (data[i] + tempi) % P]
    /\ touched' = touched \cup {j - 1, j, i - 1, i}
    /\ i' = i + istep
    /\ UNCHANGED <<pc, real, imag, isign, rev, mmax, m, w, input>>

\* Slip: mmax = istep forgotten at the end of a stage.
NextTwiddleSameStage ==
    /\ pc = "butterfly" /\ i > n
    /\ w' = << (w[1] + w[1] * Wpr - w[2] * Wpi) % P,
               (w[2] + w[2] * Wpr + w[1] * Wpi) % P >>
    /\ m' = m + 2 /\ i' = m + 2
    /\ pc' = IF m + 2 < mmax THEN pc ELSE "stage"
    /\ UNCHANGED <<mmax, real, imag, isign, rev, data, input, touched>>

\* The loop on i is over: turn the twiddle factor and go on to the next m, or
\* to the next stage.
NextTwiddle ==
    /\ pc = "butterfly" /\ i > n
    /\ w' = << (w[1] + w[1] * Wpr - w[2] * Wpi) % P,
               (w[2] + w[2] * Wpr + w[1] * Wpi) % P >>
    /\ m' = m + 2 /\ i' = m + 2
    /\ IF m + 2 < mmax
       THEN UNCHANGED <<pc, mmax>>
       ELSE pc' = "stage" /\ mmax' = istep
    /\ UNCHANGED <<real, imag, isign, rev, data, input, touched>>

SeparateArrays ==
    /\ pc = "stage" /\ n <= mmax
    /\ real' = [k \in 0 .. M - 1 |-> data[2 * k]]
    /\ imag' = [k \in 0 .. M - 1 |-> data[2 * k + 1]]
    /\ pc' = "done"
    /\ UNCHANGED <<isign, rev, data, mmax, m, i, w, input, touched>>

Next == \/ BitReversal
        \/ ConcatArrays
        \/ StartStage
        \/ Butterfly
        \/ NextTwiddle
        \/ SeparateArrays

Spec == Init /\ [][Next]_vars /\ WF_vars(Next)

-------------------------------------------------------------------------------
TypeOK ==
    /\ pc \in {"reverse", "stage", "butterfly", "done"}
    /\ isign \in {-1, 1} /\ rev \in 0 .. M
    /\ real \in [0 .. M - 1 -> Scalar] /\ imag \in [0 .. M - 1 -> Scalar]
    /\ data \in [0 .. n - 1 -> Scalar]
    /\ mmax \in 2 .. n /\ m \in Nat /\ i \in Nat /\ w \in Complex
    /\ input \in Inputs /\ touched \subseteq 0 .. n - 1

(***************************************************************************)
(* Every butterfly reads and writes four different entries that lie inside  *)
(* data: the loop test i <= n alone does not say so, since the partner j is *)
(* mmax further on.                                                         *)
(***************************************************************************)
ButterflyInRange ==
    pc = "butterfly" /\ i <= n =>
        /\ 0 <= i - 1 /\ i < j - 1 /\ j <= n - 1

(***************************************************************************)
(* The loops on m and i visit each entry of data once in a stage: the entry *)
(* pair a butterfly takes was not rewritten by an earlier one of the stage. *)
(***************************************************************************)
EachEntryOncePerStage ==
    pc = "butterfly" /\ i <= n => {j - 1, j, i - 1, i} \cap touched = {}

\* No entry is left out either: when a stage ends all of data is rewritten.
StageCoversData ==
    pc = "stage" /\ mmax > 2 => touched = 0 .. n - 1

(***************************************************************************)
(* Danielson-Lanczos: between two stages, data consists of blocks of mmax   *)
(* floats, and block b is the transform of the input decimated by the       *)
(* number of blocks, starting at the bit reversal of b.  This relates the   *)
(* bit reversal, the stage loop and the twiddle recurrence.                 *)
(***************************************************************************)
StageTransforms ==
    pc = "stage" =>
        LET len    == mmax \div 2
            blocks == M \div len
            bits   == CHOOSE l \in 0 .. Levels : 2 ^ l = blocks
            part(b) == [t \in 0 .. len - 1 |-> input[t * blocks + ReverseBits(b, bits)]]
        IN  \A b \in 0 .. blocks - 1 :
              LET spectrum == Dft(part(b), len, isign)
              IN  \A k \in 0 .. len - 1 :
                    << data[2 * (b * len + k)], data[2 * (b * len + k) + 1] >> = spectrum[k]

\* radix2 returns the discrete Fourier transform of the signal it was given,
\* whatever the scratch array held before the call.
ReturnsTransform ==
    pc = "done" =>
        LET spectrum == Dft(input, M, isign)
        IN  \A k \in 0 .. M - 1 : << real[k], imag[k] >> = spectrum[k]

\* The nested loops come to an end.
Terminates == <>(pc = "done")
===============================================================================
