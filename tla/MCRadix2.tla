------------------------------- MODULE MCRadix2 -------------------------------
(* Instances of Radix2: M = 8 over the field of 47^2 elements.               *)
EXTENDS Radix2

MCRoot == <<4, 19>>

Impulse(at, val) == [k \in 0 .. M - 1 |-> IF k = at THEN val ELSE Zero]
Ramp == [k \in 0 .. M - 1 |-> << (3 * k + 1) % P, (k * k) % P >>]

\* The impulses span all inputs and the transform is linear; the ramp has no
\* zero entry.
MCInputs == {Impulse(k, v) : k \in 0 .. M - 1, v \in {<<1, 0>>, <<0, 1>>}} \cup {Ramp}
===============================================================================
