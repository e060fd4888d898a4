---------------------------- MODULE MCAcquisition -----------------------------
(* Instances of Acquisition.  A chip is 1 or -1; the samples lie off the axes *)
(* as well as on them.                                                        *)
EXTENDS Acquisition

\* A generator of the circle for P = 23.
Root23 == <<4, 10>>

Chips   == {<<1, 0>>, <<P - 1, 0>>}
OneChip == {<<1, 0>>}

ManySamples == {<<0, 0>>, <<1, 0>>, <<3, 5>>}
TwoSamples  == {<<0, 0>>, <<3, 5>>}
OneSample   == {<<3, 5>>}

\* A list of two frequencies, and one longer than N_FREQ = 2.
OneList   == {<<2, -1>>}
LongLists == {<<3, -1>>, <<1, 2, 3>>}

Garbage == {<<7, 1>>}
===============================================================================
