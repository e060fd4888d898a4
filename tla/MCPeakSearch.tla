----------------------------- MODULE MCPeakSearch -----------------------------
(* All matrices of up to MaxRows x MaxColumns powers, ties included.         *)
EXTENDS PeakSearch

CONSTANTS MaxRows, MaxColumns, MaxPower

MCInit ==
    /\ freqCount \in 0 .. MaxRows /\ sampleCount \in 0 .. MaxColumns
    /\ frequencies = [g \in 0 .. freqCount - 1 |-> 10 * g - 5]
    /\ power \in [0 .. freqCount - 1 -> [0 .. sampleCount - 1 -> 0 .. MaxPower]]
    /\ codePhase = 7 /\ dopplerFrequency = 3
    /\ Start

MCSpec == MCInit /\ [][Search]_vars /\ WF_vars(Search)
===============================================================================
