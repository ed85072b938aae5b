-------------------------------- MODULE F64 --------------------------------
(***************************************************************************)
(* Floating-point quotients of unsigned integers: `n as f64 / d as f64`.   *)
(* Conversion and division round to the nearest number of Bits significant *)
(* bits, ties to even. A float is given as a multiple of 1/Scale, which is *)
(* fine enough for the smallest quotient to keep all its bits.             *)
(***************************************************************************)
EXTENDS Integers

CONSTANTS
  Bits,        \* of the significand: 53
  Width        \* of the integers: 64

Scale == 2 ^ (Width + Bits)

\* n/d to the nearest integer, ties to even.
Nearest(n, d) ==
  LET q == n \div d
      r == n % d
  IN  IF 2 * r > d \/ (2 * r = d /\ q % 2 = 1) THEN q + 1 ELSE q

\* n/d to the nearest integer of Bits significant bits.
Rounded(n, d) ==
  LET fits(e) == n < d * 2 ^ (Bits + e)
      e == CHOOSE x \in 0 .. 2 * (Width + Bits) : fits(x) /\ \A y \in 0 .. x - 1 : ~fits(y)
  IN  Nearest(n, d * 2 ^ e) * 2 ^ e

AsF64(n) == Rounded(n, 1)

DivideF64(n, d) == Rounded(AsF64(n) * Scale, AsF64(d))
=============================================================================
