------------------------------ MODULE PeakSearch ------------------------------
(***************************************************************************)
(* computeMaxValue of gpsAcquisition/acquisition.c, entry by entry: the     *)
(* search of the correlation matrix for its largest power, which leaves the *)
(* position of the maximum in codePhase and dopplerFrequency.  power[g][k]  *)
(* is the squared magnitude the code computes from rReal and rImag.  pc     *)
(* leaves "max" for "estimate" when the function returns.                   *)
(***************************************************************************)
EXTENDS Integers

VARIABLES pc, f, n,                    \* control state and loop variables
          power, frequencies,          \* the matrix and the tested frequencies
          freqCount, sampleCount,      \* its rows and columns
          sMax, codePhase, dopplerFrequency

inputs == <<power, frequencies, freqCount, sampleCount>>
vars   == <<pc, f, n, inputs, sMax, codePhase, dopplerFrequency>>

\* The state in which computeMaxValue starts; codePhase and dopplerFrequency
\* keep what an earlier call or allocateAcquisition left in them.
Start == pc = "max" /\ f = 0 /\ n = 0 /\ sMax = 0

\* Slip: an equal power replaces the maximum too.
ScanEntryLastMaximum ==
    /\ pc = "max" /\ f < freqCount /\ n < sampleCount
    /\ n' = n + 1
    /\ IF power[f][n] >= sMax
       THEN /\ sMax' = power[f][n]
            /\ codePhase' = n
            /\ dopplerFrequency' = frequencies[f]
       ELSE UNCHANGED <<sMax, codePhase, dopplerFrequency>>
    /\ UNCHANGED <<pc, f, inputs>>

\* Only a strictly larger power replaces the maximum.
ScanEntry ==
    /\ pc = "max" /\ f < freqCount /\ n < sampleCount
    /\ n' = n + 1
    /\ IF power[f][n] > sMax
       THEN /\ sMax' = power[f][n]
            /\ codePhase' = n
            /\ dopplerFrequency' = frequencies[f]
       ELSE UNCHANGED <<sMax, codePhase, dopplerFrequency>>
    /\ UNCHANGED <<pc, f, inputs>>

\* Slips in the outer loop: one row too many, the row not advanced, one row too
\* few.
NextRowBeyond ==
    /\ pc = "max" /\ f <= freqCount /\ n >= sampleCount
    /\ f' = f + 1 /\ n' = 0
    /\ UNCHANGED <<pc, inputs, sMax, codePhase, dopplerFrequency>>

NextRowAgain ==
    /\ pc = "max" /\ f < freqCount /\ n >= sampleCount
    /\ n' = 0
    /\ UNCHANGED <<pc, f, inputs, sMax, codePhase, dopplerFrequency>>

ReturnEarly ==
    /\ pc = "max" /\ f + 1 >= freqCount
    /\ pc' = "estimate"
    /\ UNCHANGED <<f, n, inputs, sMax, codePhase, dopplerFrequency>>

NextRow ==
    /\ pc = "max" /\ f < freqCount /\ n >= sampleCount
    /\ f' = f + 1 /\ n' = 0
    /\ UNCHANGED <<pc, inputs, sMax, codePhase, dopplerFrequency>>

Return ==
    /\ pc = "max" /\ f >= freqCount
    /\ pc' = "estimate"
    /\ UNCHANGED <<f, n, inputs, sMax, codePhase, dopplerFrequency>>

Search == ScanEntry \/ NextRow \/ Return

Inputs ==
    /\ freqCount \in Nat /\ sampleCount \in Nat
    /\ frequencies \in [0 .. freqCount - 1 -> Int]
    /\ power \in [0 .. freqCount - 1 -> [0 .. sampleCount - 1 -> Nat]]
    /\ codePhase \in Int /\ dopplerFrequency \in Int

Spec == Inputs /\ Start /\ [][Search]_vars /\ WF_vars(Search)

-------------------------------------------------------------------------------
TypeOK ==
    /\ Inputs
    /\ pc \in {"max", "estimate"}
    /\ f \in 0 .. freqCount /\ n \in 0 .. sampleCount
    /\ sMax \in Nat

Precedes(c, d) == c[1] < d[1] \/ (c[1] = d[1] /\ c[2] < d[2])

\* The entries the loops have looked at.
Scanned == {c \in (0 .. freqCount - 1) \X (0 .. sampleCount - 1) :
                Precedes(c, <<f, n>>)}

Power(c) == power[c[1]][c[2]]

(***************************************************************************)
(* sMax is the largest power among the entries looked at, and codePhase and *)
(* dopplerFrequency belong to the FIRST entry that has it.  Two fields and  *)
(* a maximum that are written under one condition must stay in step over    *)
(* the whole matrix.                                                        *)
(***************************************************************************)
PeakOfScanned ==
    /\ \A c \in Scanned : Power(c) <= sMax
    /\ sMax > 0 =>
        \E c \in Scanned :
            /\ Power(c) = sMax
            /\ codePhase = c[2] /\ dopplerFrequency = frequencies[c[1]]
            /\ \A d \in Scanned : Precedes(d, c) => Power(d) < sMax

\* When the function returns the whole matrix has been looked at.
ReturnsAfterAll ==
    pc = "estimate" => Scanned = (0 .. freqCount - 1) \X (0 .. sampleCount - 1)

\* The maximum never falls, and as long as no power is positive the caller
\* keeps the codePhase and dopplerFrequency it had.
SilenceKeepsOldAnswer ==
    [][/\ sMax' >= sMax
       /\ sMax' = 0 => UNCHANGED <<codePhase, dopplerFrequency>>]_vars

\* The search returns.
Returns == <>(pc = "estimate")
===============================================================================
