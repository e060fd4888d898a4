----------------------------- MODULE MCCgraConfig -----------------------------
(* Instances of CgraConfig.                                                    *)
EXTENDS CgraConfig

AllGrids == {"irregular", "toroidal", "performance", "performanceTest", "energy",
             "energyTest", "2x2float", "2x2int", "2x2int1", "4x4float", "4x4int",
             "4x4int1"}
===============================================================================
