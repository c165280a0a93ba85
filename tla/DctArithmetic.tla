---------------------------- MODULE DctArithmetic ----------------------------
(***************************************************************************)
(* The fixed-point arithmetic that the integer DCT routines share (jdct.h  *)
(* and the heads of jfdctint.c and jidctint.c), and the reference they are *)
(* compared with: the cosines their constants stand for.                   *)
(*                                                                         *)
(* Multipliers are integers scaled by 2^CONST_BITS.  The source writes     *)
(* them with nine decimals, FIX(0.541196100); six decimals give the same   *)
(* scaled integer for every constant of the two files, so here they are    *)
(* whole numbers of millionths, FIX(541196).                               *)
(***************************************************************************)
EXTENDS Integers

DCTSIZE == 8
CONST_BITS == 13
PASS1_BITS == 2
CENTERJSAMPLE == 128
MAXJSAMPLE == 255

CONST_SCALE == 2^CONST_BITS

\* v millionths times the ratio num / den, scaled by CONST_SCALE and rounded
\* (1000000 / 2^6 = 15625, so the factor 2^13 becomes 2^7).
ScaledFIX(v, num, den) == (128 * ((v * num) \div den) + 7812) \div 15625

FIX(v) == ScaledFIX(v, 1, 1)

\* Right shift with rounding; \div rounds to minus infinity as >> does.
DESCALE(x, n) == (x + 2^(n - 1)) \div 2^n

Least(a, b) == IF a < b THEN a ELSE b

\* The butterflies that open a forward kernel of n points: sums of mirrored
\* inputs (the middle one of an odd number stands alone) and differences.
Sums(x, n) == [k \in 0 .. (n - 1) \div 2 |->
                 IF 2 * k + 1 = n THEN x[k] ELSE x[k] + x[n - 1 - k]]
Diffs(x, n) == [k \in 0 .. n \div 2 - 1 |-> x[k] - x[n - 1 - k]]

\* The butterfly that closes an inverse kernel of n points: output k and its
\* mirror image are the sum and the difference of an even and an odd part.
Mirror(n, even, odd) ==
  [k \in 0 .. n - 1 |->
     IF 2 * k + 1 = n THEN even[k + 1]
     ELSE IF k < n \div 2 THEN even[k + 1] + odd[k + 1]
     ELSE even[n - k] - odd[n - k]]

-----------------------------------------------------------------------------
(***************************************************************************)
(* Reference.  Comments in the two files say "cK represents sqrt(2) *      *)
(* cos(K*pi/32)" and the like.  RootTwoCos(k, n) is sqrt(2) * cos(k*pi/2n) *)
(* scaled by CONST_SCALE, within one unit, from the Taylor series.         *)
(***************************************************************************)
Round(a, b) == (2 * a + b) \div (2 * b)

\* sqrt(2) cos(k pi / 2n) for 0 <= k <= n; 40426 is (pi/2)^2 scaled by 2^14.
FirstQuadrant(k, n) ==
  LET one == 2^14
      q == Round(40426 * k * k, n * n)
      p6 == one - Round(q, 132)
      p5 == one - Round(Round(q * p6, one), 90)
      p4 == one - Round(Round(q * p5, one), 56)
      p3 == one - Round(Round(q * p4, one), 30)
      p2 == one - Round(Round(q * p3, one), 12)
      p1 == one - Round(Round(q * p2, one), 2)
  IN Round(p1 * 11585, one)

RootTwoCos(k, n) ==
  LET m == k % (4 * n)
  IN CASE m <= n -> FirstQuadrant(m, n)
       [] m > n /\ m <= 2 * n -> -FirstQuadrant(2 * n - m, n)
       [] m > 2 * n /\ m <= 3 * n -> -FirstQuadrant(m - 2 * n, n)
       [] OTHER -> FirstQuadrant(4 * n - m, n)

\* The value of basis function k of an n-point DCT at sample i.
Basis(k, i, n) == IF k = 0 THEN CONST_SCALE ELSE RootTwoCos((2 * i + 1) * k, n)

\* The same for two dimensions.
Basis2(v, u, y, x, h, w) == Round(Basis(v, y, h) * Basis(u, x, w), CONST_SCALE)
=============================================================================
