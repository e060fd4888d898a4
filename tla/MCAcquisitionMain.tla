--------------------------- MODULE MCAcquisitionMain --------------------------
(* Instances of AcquisitionMain: a table like that of testData.c with N_SAMPLES *)
(* = 3.  Cases 0 to 2 hold the correlation answer of their data, two of them    *)
(* without an acquisition; case 3 says 2 samples and has the data of 1 (there   *)
(* 6 and 5); case 4 is complete and expects the wrong delay.                    *)
EXTENDS AcquisitionMain, Functions, TLC

Root23 == <<4, 10>>
Garbage == {<<7, 1>>}
Sizes == 0 .. 4

one1 == <<1, 0>>
neg1 == <<P - 1, 0>>

Case(size, xs, cs, freqs, acquired, phase, freq) ==
    [complexSampleCount |-> size, inputSamples |-> xs, inputCodes |-> cs,
     testFrequencies |-> freqs, acquisition |-> acquired, codePhase |-> phase,
     dopplerFrequency |-> freq]

Table ==
    0 :> Case(3, <<<<1, 0>>, <<3, 5>>, <<0, 2>>>>, <<one1, one1, neg1>>, <<0, 1>>, FALSE, 0, 1)
 @@ 1 :> Case(3, <<<<0, 0>>, <<2, 5>>, <<0, 2>>>>, <<neg1, one1, one1>>, <<-5, -4>>, FALSE, 1, -4)
 @@ 2 :> Case(3, <<<<3, 5>>, <<4, 4>>, <<1, 7>>>>, <<one1, neg1, one1>>, <<2, -5>>, TRUE, 1, -5)
 @@ 3 :> Case(2, <<<<3, 5>>>>, <<one1, one1, one1, one1>>, <<-5, 2>>, TRUE, 69, -4)
 @@ 4 :> Case(3, <<<<3, 5>>, <<4, 4>>, <<1, 7>>>>, <<one1, neg1, one1>>, <<2, -5>>, TRUE, 2, -5)

CommandLines ==
    {<<>>} \cup {<<id>> : id \in -1 .. 6} \cup {<<id, size>> : id \in {0, 2}, size \in -1 .. 4}

TableSamples == UNION {Range(Table[id].inputSamples) : id \in DOMAIN Table}
TableCodes   == UNION {Range(Table[id].inputCodes) : id \in DOMAIN Table}
TableFrequencies == {Table[id].testFrequencies : id \in DOMAIN Table}
===============================================================================
