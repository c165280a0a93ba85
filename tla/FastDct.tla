------------------------------- MODULE FastDct -------------------------------
(***************************************************************************)
(* The fast integer DCT (jfdctfst.c, jidctfst.c), 8x8 only, after Arai,    *)
(* Agui and Nakajima.  It leaves out one multiplication per input, which   *)
(* is folded into the quantization tables (aanscales below; the tables are  *)
(* built in jcdctmgr.c and jddctmgr.c), keeps only eight fraction bits in  *)
(* its multipliers and drops the rounding of every product.                *)
(***************************************************************************)
EXTENDS DctArithmetic

FAST_CONST_BITS == 8
IFAST_SCALE_BITS == PASS1_BITS

\* A product cut, not rounded, back to an integer.
MULTIPLY(v, const) == (v * const) \div 2^FAST_CONST_BITS

\* The table aanscales of both managers: 2^14 times the product of
\* sqrt(2) cos(k pi / 16), 1 for k = 0, over the row and the column.
aanscales ==
  << 16384, 22725, 21407, 19266, 16384, 12873,  8867,  4520,
     22725, 31521, 29692, 26722, 22725, 17855, 12299,  6270,
     21407, 29692, 27969, 25172, 21407, 16819, 11585,  5906,
     19266, 26722, 25172, 22654, 19266, 15137, 10426,  5315,
     16384, 22725, 21407, 19266, 16384, 12873,  8867,  4520,
     12873, 17855, 16819, 15137, 12873, 10114,  6967,  3552,
      8867, 12299, 11585, 10426,  8867,  6967,  4799,  2446,
      4520,  6270,  5906,  5315,  4520,  3552,  2446,  1247 >>

AanScale(v, u) == aanscales[8 * v + u + 1]

\* One pass of jpeg_fdct_ifast over eight values.
FastForward(x) ==
  LET s == Sums(x, 8)
      d == Diffs(x, 8)
      tmp10 == s[0] + s[3]
      tmp13 == s[0] - s[3]
      tmp11 == s[1] + s[2]
      z1 == MULTIPLY(s[1] - s[2] + tmp13, 181)
      odd10 == d[3] + d[2]
      odd12 == d[1] + d[0]
      z5 == MULTIPLY(odd10 - odd12, 98)
      z2 == MULTIPLY(odd10, 139) + z5
      z4 == MULTIPLY(odd12, 334) + z5
      z3 == MULTIPLY(d[2] + d[1], 181)
      z11 == d[0] + z3
      z13 == d[0] - z3
  IN <<tmp10 + tmp11, z11 + z4, tmp13 + z1, z13 - z2,
       tmp10 - tmp11, z13 + z2, tmp13 - z1, z11 - z4>>

FastForwardRows(samples) ==
  [y \in 0 .. 7 |->
     LET d == FastForward(samples[y])
     IN [u \in 0 .. 7 |-> IF u = 0 THEN d[1] - 8 * CENTERJSAMPLE ELSE d[u + 1]]]

FastForwardColumns(rows) ==
  LET data == [u \in 0 .. 7 |-> FastForward([y \in 0 .. 7 |-> rows[y][u]])]
  IN [v \in 0 .. 7 |-> [u \in 0 .. 7 |-> data[u][v + 1]]]

\* One pass of jpeg_idct_ifast.
FastInverse(x) ==
  LET tmp10 == x[0] + x[4]
      tmp11 == x[0] - x[4]
      tmp13 == x[2] + x[6]
      tmp12 == MULTIPLY(x[2] - x[6], 362) - tmp13
      z13 == x[5] + x[3]
      z10 == x[5] - x[3]
      z11 == x[1] + x[7]
      z12 == x[1] - x[7]
      tmp7 == z11 + z13
      z5 == MULTIPLY(z10 + z12, 473)
      tmp6 == MULTIPLY(z10, -669) + z5 - tmp7
      tmp5 == MULTIPLY(z11 - z13, 362) - tmp6
      tmp4 == MULTIPLY(z12, 277) - z5 + tmp5
  IN Mirror(8, <<tmp10 + tmp13, tmp11 + tmp12, tmp11 - tmp12, tmp10 - tmp13>>,
               <<tmp7, tmp6, tmp5, -tmp4>>)

FastInverseColumns(coef) ==
  [u \in 0 .. 7 |-> FastInverse([v \in 0 .. 7 |-> coef[v][u]])]

FastInverseRows(workspace) ==
  [y \in 0 .. 7 |->
     LET x == FastInverse([u \in 0 .. 7 |-> workspace[u][y]])
     IN [k \in 0 .. 7 |-> x[k] \div 2^(PASS1_BITS + 3)]]
=============================================================================
