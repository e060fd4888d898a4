-------------------------------- MODULE Signal --------------------------------
(***************************************************************************)
(* The arithmetic the signal processing of gpsAcquisition works on.         *)
(*                                                                          *)
(* The C code computes with pairs of floats (a real and an imaginary array) *)
(* and takes sines and cosines from libm.  Here a complex number is a pair  *)
(* <<re, im>> over the integers modulo a prime P with P % 4 = 3: in that    *)
(* field -1 has no square root, so the pairs form a field with the usual    *)
(* product, conjugation is well behaved, and there is an element Root of    *)
(* norm 1 whose powers play the angles 2*pi*k/Order.  Every identity between *)
(* sines and cosines that the algorithms rely on holds exactly, and none    *)
(* that fails for complex numbers is gained, apart from the rounding, which *)
(* this arithmetic does not have.  Magnitudes are ordered by their          *)
(* representative in 0..P-1.                                                *)
(***************************************************************************)
EXTENDS Integers

CONSTANTS P,      \* the prime modulus
          Order,  \* the number of angles: the order of Root
          Root    \* the element of norm 1 that stands for the angle 2*pi/Order

Scalar  == 0 .. P - 1
Complex == Scalar \X Scalar

Zero == <<0, 0>>
One  == <<1, 0>>

Add(a, b) == << (a[1] + b[1]) % P, (a[2] + b[2]) % P >>
Mul(a, b) == << (a[1] * b[1] - a[2] * b[2]) % P,
                (a[1] * b[2] + a[2] * b[1]) % P >>
Conj(a)   == << a[1], (0 - a[2]) % P >>
Swap(a)   == << a[2], a[1] >>
Norm(a)   == (a[1] * a[1] + a[2] * a[2]) % P

\* The reciprocal of an integer that P does not divide.
Recip(x)    == CHOOSE y \in 1 .. P - 1 : (x * y) % P = 1
Scale(a, x) == << (a[1] * x) % P, (a[2] * x) % P >>

\* The powers of Root.
Circle == LET pow[k \in 0 .. Order - 1] ==
                IF k = 0 THEN One ELSE Mul(pow[k - 1], Root)
          IN  [k \in 0 .. Order - 1 |-> pow[k]]

\* cos(2*pi*k/len) + i*sin(2*pi*k/len), for a len that divides Order.
Phasor(k, len) == Circle[(k * (Order \div len)) % Order]

\* x[0] + ... + x[len-1].
Total(x, len) ==
    LET upTo[k \in 0 .. len] ==
          IF k = 0 THEN Zero ELSE Add(upTo[k - 1], x[k - 1])
    IN  upTo[len]

\* The reference transform: the sum over t of x[t] * e^(sign*2*pi*i*k*t/len).
Dft(x, len, sign) ==
    [k \in 0 .. len - 1 |->
        Total([t \in 0 .. len - 1 |-> Mul(x[t], Phasor(sign * k * t, len))], len)]

(***************************************************************************)
(* What the arithmetic needs of its constants; TLC evaluates it.            *)
(***************************************************************************)
ASSUME SignalAssumption ==
    /\ P \in Nat /\ P > 2
    /\ \A d \in 2 .. P - 1 : P % d # 0
    \* -1 has no square root: P % 4 = 3
    /\ \A x \in Scalar : (x * x + 1) % P # 0
    /\ Order \in Nat \ {0}
    /\ Root \in Complex
    /\ Norm(Root) = 1
    /\ Mul(Circle[Order - 1], Root) = One
    /\ \A k \in 1 .. Order - 1 : Circle[k] # One
===============================================================================
