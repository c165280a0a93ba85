----------------------------- MODULE ForwardDct -----------------------------
(***************************************************************************)
(* The accurate integer forward DCT (jfdctint.c) for every block size from *)
(* 1x1 to 16x16: downscaling and subsampling by the encoder is done here.  *)
(* Each C routine runs a one-dimensional kernel over the rows of samples   *)
(* and one over the columns of the result; data[] keeps at most 8 x 8      *)
(* values.  The two passes use the same kernel with all its constants      *)
(* multiplied by one factor, part of the (8/width)*(8/height) by which the *)
(* result is scaled; the rest of that scaling is in the shifts.  A kernel  *)
(* is defined once, for the factor r.num / r.den.                          *)
(*                                                                         *)
(* Two row passes do not compute what the column pass of their size does:  *)
(* jpeg_fdct_12x12 and jpeg_fdct_12x6 add tmp14 - tmp15, and               *)
(* jpeg_fdct_14x14 and jpeg_fdct_14x7 add tmp6, to a sum scaled by         *)
(* CONST_SCALE without scaling it.  The parameter one of these two kernels *)
(* is the weight that term has: 1 in rows, FIX(1.0) in columns.            *)
(***************************************************************************)
EXTENDS DctArithmetic

\* A constant of a kernel whose constants carry the factor of r.
FIX1(v, r) == ScaledFIX(v, r.num, r.den)

Fdct1(x, r) == <<x[0] * FIX1(1000000, r)>>

Fdct2(x, r) == <<(x[0] + x[1]) * FIX1(1000000, r), (x[0] - x[1]) * FIX1(1000000, r)>>

Fdct3(x, r) ==
  LET s == Sums(x, 3)
      d == Diffs(x, 3)

  IN <<(s[0] + x[1]) * FIX1(1000000, r),
       d[0] * FIX1(1224745, r),
       (s[0] - x[1] - x[1]) * FIX1(707107, r)>>

Fdct4(x, r) ==
  LET s == Sums(x, 4)
      d == Diffs(x, 4)
      tmp0 == (d[0] + d[1]) * FIX1(541196, r)
  IN <<(s[0] + s[1]) * FIX1(1000000, r),
       tmp0 + d[0] * FIX1(765367, r),
       (s[0] - s[1]) * FIX1(1000000, r),
       tmp0 - d[1] * FIX1(1847759, r)>>

Fdct5(x, r) ==
  LET s == Sums(x, 5)
      d == Diffs(x, 5)
      tmp10 == s[0] + s[1]
      tmp11 == (s[0] - s[1]) * FIX1(790569, r)
      tmp10a == (tmp10 - x[2] * 4) * FIX1(353553, r)
      tmp10b == (d[0] + d[1]) * FIX1(831254, r)
  IN <<(tmp10 + x[2]) * FIX1(1000000, r),
       tmp10b + d[0] * FIX1(513743, r),
       tmp11 + tmp10a,
       tmp10b - d[1] * FIX1(2176251, r),
       tmp11 - tmp10a>>

Fdct6(x, r) ==
  LET s == Sums(x, 6)
      d == Diffs(x, 6)
      tmp10 == s[0] + s[2]
      tmp10a == (d[0] + d[2]) * FIX1(366025, r)
  IN <<(tmp10 + s[1]) * FIX1(1000000, r),
       tmp10a + (d[0] + d[1]) * FIX1(1000000, r),
       (s[0] - s[2]) * FIX1(1224745, r),
       (d[0] - d[1] - d[2]) * FIX1(1000000, r),
       (tmp10 - s[1] - s[1]) * FIX1(707107, r),
       tmp10a + (d[2] - d[1]) * FIX1(1000000, r)>>

Fdct7(x, r) ==
  LET s == Sums(x, 7)
      d == Diffs(x, 7)
      z1 == s[0] + s[2]
      tmp3 == x[3] + x[3]
      z1a == (z1 - tmp3 - tmp3) * FIX1(353553, r)
      z2 == (s[0] - s[2]) * FIX1(920609, r)
      z3 == (s[1] - s[2]) * FIX1(314692, r)
      z2a == (s[0] - s[1]) * FIX1(881748, r)
      tmp1 == (d[0] + d[1]) * FIX1(935414, r)
      tmp2 == (d[0] - d[1]) * FIX1(170262, r)
      tmp2a == (d[1] + d[2]) * (-FIX1(1378756, r))
      tmp3a == (d[0] + d[2]) * FIX1(613604, r)
  IN <<(z1 + s[1] + x[3]) * FIX1(1000000, r),
       tmp1 - tmp2 + tmp3a,
       z1a + z2 + z3,
       tmp1 + tmp2 + tmp2a,
       z2a + z3 - (s[1] - tmp3) * FIX1(707107, r),
       tmp2a + tmp3a + d[2] * FIX1(1870829, r),
       z1a - z2 + z2a>>

Fdct8(x, r) ==
  LET s == Sums(x, 8)
      d == Diffs(x, 8)
      tmp10 == s[0] + s[3]
      tmp12 == s[0] - s[3]
      tmp11 == s[1] + s[2]
      tmp13 == s[1] - s[2]
      z1 == (tmp12 + tmp13) * FIX1(541196, r)
      tmp12a == d[0] + d[2]
      tmp13a == d[1] + d[3]
      z1a == (tmp12a + tmp13a) * FIX1(1175876, r)
      tmp10a == (d[0] + d[3]) * (-FIX1(899976, r))
      tmp11a == (d[1] + d[2]) * (-FIX1(2562915, r))
      tmp12b == tmp12a * (-FIX1(390181, r)) + z1a
      tmp13b == tmp13a * (-FIX1(1961571, r)) + z1a
  IN <<(tmp10 + tmp11) * FIX1(1000000, r),
       d[0] * FIX1(1501321, r) + tmp10a + tmp12b,
       z1 + tmp12 * FIX1(765367, r),
       d[1] * FIX1(3072711, r) + tmp11a + tmp13b,
       (tmp10 - tmp11) * FIX1(1000000, r),
       d[2] * FIX1(2053120, r) + tmp11a + tmp12b,
       z1 - tmp13 * FIX1(1847759, r),
       d[3] * FIX1(298631, r) + tmp10a + tmp13b>>

Fdct9(x, r) ==
  LET s == Sums(x, 9)
      d == Diffs(x, 9)
      z1 == s[0] + s[2] + s[3]
      z2 == s[1] + x[4]
      z1a == (s[0] - s[2]) * FIX1(1328926, r)
      z2a == (s[1] - x[4] - x[4]) * FIX1(707107, r)
      tmp11 == d[1] * FIX1(1224745, r)
      tmp0 == (d[0] + d[2]) * FIX1(909039, r)
      tmp1 == (d[0] + d[3]) * FIX1(483690, r)
      tmp2 == (d[2] - d[3]) * FIX1(1392728, r)
  IN <<(z1 + z2) * FIX1(1000000, r),
       tmp11 + tmp0 + tmp1,
       (s[2] - s[3]) * FIX1(1083350, r) + z1a + z2a,
       (d[0] - d[2] - d[3]) * FIX1(1224745, r),
       (s[3] - s[0]) * FIX1(245576, r) + z1a - z2a,
       tmp0 - tmp11 - tmp2,
       (z1 - z2 - z2) * FIX1(707107, r),
       tmp1 - tmp11 + tmp2>>

Fdct10(x, r) ==
  LET s == Sums(x, 10)
      d == Diffs(x, 10)
      tmp10 == s[0] + s[4]
      tmp13 == s[0] - s[4]
      tmp11 == s[1] + s[3]
      tmp14 == s[1] - s[3]
      tmp12 == s[2] + s[2]
      tmp10a == (tmp13 + tmp14) * FIX1(831254, r)
      tmp10b == d[0] + d[4]
      tmp11a == d[1] - d[3]
      tmp2 == d[2] * FIX1(1000000, r)
      tmp12a == (d[0] - d[4]) * FIX1(951057, r) - (d[1] + d[3]) * FIX1(587785, r)
      tmp13a == (tmp10b + tmp11a) * FIX1(309017, r) + tmp11a * FIX1(500000, r) - tmp2
  IN <<(tmp10 + tmp11 + s[2]) * FIX1(1000000, r),
       d[0] * FIX1(1396802, r) + d[1] * FIX1(1260074, r) + tmp2 + d[3] * FIX1(642040, r)
       + d[4] * FIX1(221232, r),
       tmp10a + tmp13 * FIX1(513743, r),
       tmp12a + tmp13a,
       (tmp10 - tmp12) * FIX1(1144123, r) - (tmp11 - tmp12) * FIX1(437016, r),
       (tmp10b - tmp11a - d[2]) * FIX1(1000000, r),
       tmp10a - tmp14 * FIX1(2176251, r),
       tmp12a - tmp13a>>

Fdct11(x, r) ==
  LET s == Sums(x, 11)
      d == Diffs(x, 11)
      tmp5 == x[5] + x[5]
      tmp0 == s[0] - tmp5
      tmp1 == s[1] - tmp5
      tmp2 == s[2] - tmp5
      tmp3 == s[3] - tmp5
      tmp4 == s[4] - tmp5
      z1 == (tmp0 + tmp3) * FIX1(1356928, r) + (tmp2 + tmp4) * FIX1(201264, r)
      z2 == (tmp1 - tmp3) * FIX1(926113, r)
      z3 == (tmp0 - tmp1) * FIX1(1189712, r)
      tmp1a == (d[0] + d[1]) * FIX1(1286414, r)
      tmp2a == (d[0] + d[2]) * FIX1(1068791, r)
      tmp3a == (d[0] + d[3]) * FIX1(764582, r)
      tmp0a == tmp1a + tmp2a + tmp3a - d[0] * FIX1(1719968, r) + d[4] * FIX1(398430, r)
      tmp4a == (d[1] + d[2]) * (-FIX1(764582, r))
      tmp5a == (d[1] + d[3]) * (-FIX1(1399819, r))
      tmp1b == tmp1a + tmp4a + tmp5a + d[1] * FIX1(1276417, r) - d[4] * FIX1(1068791, r)
      tmp10 == (d[2] + d[3]) * FIX1(398430, r)
      tmp2b == tmp2a + tmp4a + tmp10 - d[2] * FIX1(1989054, r) + d[4] * FIX1(1399819, r)
      tmp3b == tmp3a + tmp5a + tmp10 + d[3] * FIX1(1305599, r) - d[4] * FIX1(1286414, r)
  IN <<(s[0] + s[1] + s[2] + s[3] + s[4] + x[5]) * FIX1(1000000, r),
       tmp0a,
       z1 + z2 - tmp3 * FIX1(1018301, r) - tmp4 * FIX1(1390976, r),
       tmp1b,
       z2 + z3 + tmp1 * FIX1(62336, r) - tmp2 * FIX1(1356928, r) + tmp4 * FIX1(587486, r),
       tmp2b,
       z1 + z3 - tmp0 * FIX1(1620527, r) - tmp2 * FIX1(788749, r),
       tmp3b>>

Fdct12(x, r, one) ==
  LET s == Sums(x, 12)
      d == Diffs(x, 12)
      tmp10 == s[0] + s[5]
      tmp13 == s[0] - s[5]
      tmp14 == s[1] - s[4]
      tmp12 == s[2] + s[3]
      tmp15 == s[2] - s[3]
      tmp10a == (d[1] + d[4]) * FIX1(541196, r)
      tmp14a == tmp10a + d[1] * FIX1(765367, r)
      tmp15a == tmp10a - d[4] * FIX1(1847759, r)
      tmp12a == (d[0] + d[2]) * FIX1(1121971, r)
      tmp13a == (d[0] + d[3]) * FIX1(860919, r)
      tmp10b == tmp12a + tmp13a + tmp14a - d[0] * FIX1(580775, r) + d[5] * FIX1(184592, r)
      tmp11 == (d[2] + d[3]) * (-FIX1(184592, r))
      tmp12b == tmp12a + tmp11 - tmp15a - d[2] * FIX1(2339494, r) + d[5] * FIX1(860919, r)
      tmp13b == tmp13a + tmp11 - tmp14a + d[3] * FIX1(725788, r) - d[5] * FIX1(1121971, r)
      tmp11a == tmp15a + (d[0] - d[3]) * FIX1(1306563, r) - (d[2] + d[5]) * FIX1(541196, r)
  IN <<(tmp10 + s[1] + s[4] + tmp12) * FIX1(1000000, r),
       tmp10b,
       (tmp14 - tmp15) * one + (tmp13 + tmp15) * FIX1(1366025, r),
       tmp11a,
       (tmp10 - tmp12) * FIX1(1224745, r),
       tmp12b,
       (tmp13 - tmp14 - tmp15) * FIX1(1000000, r),
       tmp13b>>

Fdct13(x, r) ==
  LET s == Sums(x, 13)
      d == Diffs(x, 13)
      tmp6 == x[6] + x[6]
      tmp0 == s[0] - tmp6
      tmp1 == s[1] - tmp6
      tmp2 == s[2] - tmp6
      tmp3 == s[3] - tmp6
      tmp4 == s[4] - tmp6
      tmp5 == s[5] - tmp6
      z1 == (tmp0 - tmp2) * FIX1(1155389, r) - (tmp3 - tmp4) * FIX1(435816, r) - (tmp1 - tmp5) * FIX1(316450, r)
      z2 == (tmp0 + tmp2) * FIX1(96835, r) - (tmp3 + tmp4) * FIX1(937303, r) + (tmp1 + tmp5) * FIX1(486915, r)
      tmp1a == (d[0] + d[1]) * FIX1(1322313, r)
      tmp2a == (d[0] + d[2]) * FIX1(1163875, r)
      tmp3a == (d[0] + d[3]) * FIX1(937797, r) + (d[4] + d[5]) * FIX1(338443, r)
      tmp0a == tmp1a + tmp2a + tmp3a - d[0] * FIX1(2020082, r) + d[4] * FIX1(318774, r)
      tmp4a == (d[4] - d[5]) * FIX1(937797, r) - (d[1] + d[2]) * FIX1(338443, r)
      tmp5a == (d[1] + d[3]) * (-FIX1(1163875, r))
      tmp1b == tmp1a + tmp4a + tmp5a + d[1] * FIX1(837224, r) - d[4] * FIX1(2341699, r)
      tmp6a == (d[2] + d[3]) * (-FIX1(657218, r))
      tmp2b == tmp2a + tmp4a + tmp6a - d[2] * FIX1(1572116, r) + d[5] * FIX1(2260110, r)
      tmp3b == tmp3a + tmp5a + tmp6a + d[3] * FIX1(2205608, r) - d[5] * FIX1(1742346, r)
  IN <<(s[0] + s[1] + s[2] + s[3] + s[4] + s[5] + x[6]) * FIX1(1000000, r),
       tmp0a,
       tmp0 * FIX1(1373119, r) + tmp1 * FIX1(1058554, r) + tmp2 * FIX1(501487, r)
       - tmp3 * FIX1(170465, r)
          - tmp4 * FIX1(803365, r) - tmp5 * FIX1(1252224, r),
       tmp1b,
       z1 + z2,
       tmp2b,
       z1 - z2,
       tmp3b>>

Fdct14(x, r, one) ==
  LET s == Sums(x, 14)
      d == Diffs(x, 14)
      tmp10 == s[0] + s[6]
      tmp14 == s[0] - s[6]
      tmp11 == s[1] + s[5]
      tmp15 == s[1] - s[5]
      tmp12 == s[2] + s[4]
      tmp16 == s[2] - s[4]
      tmp13 == s[3] + s[3]
      tmp10a == (tmp14 + tmp15) * FIX1(1105677, r)
      tmp10b == d[1] + d[2]
      tmp11a == d[5] - d[4]
      tmp3 == d[3] * FIX1(1000000, r)
      tmp10c == tmp10b * (-FIX1(158342, r)) + tmp11a * FIX1(1405321, r) - tmp3
      tmp11b == (d[0] + d[2]) * FIX1(1197449, r) + (d[4] + d[6]) * FIX1(752407, r)
      tmp12a == (d[0] + d[1]) * FIX1(1334853, r) + (d[5] - d[6]) * FIX1(467085, r)
  IN <<(tmp10 + tmp11 + tmp12 + s[3]) * FIX1(1000000, r),
       tmp11b + tmp12a + tmp3 + d[6] * one - (d[0] + d[6]) * FIX1(1126980, r),
       tmp10a + tmp14 * FIX1(273080, r) + tmp16 * FIX1(613604, r),
       tmp10c + tmp12a - d[1] * FIX1(424104, r) - d[5] * FIX1(3069855, r),
       (tmp10 - tmp13) * FIX1(1274162, r) + (tmp11 - tmp13) * FIX1(314692, r) - (tmp12 - tmp13) * FIX1(881748, r),
       tmp10c + tmp11b - d[2] * FIX1(2373960, r) + d[4] * FIX1(1119999, r),
       tmp10a - tmp15 * FIX1(1719281, r) - tmp16 * FIX1(1378756, r),
       (d[0] - tmp10b + d[3] - tmp11a - d[6]) * FIX1(1000000, r)>>

Fdct15(x, r) ==
  LET s == Sums(x, 15)
      d == Diffs(x, 15)
      z1 == s[0] + s[4] + s[5]
      z2 == s[1] + s[3] + s[6]
      z3 == s[2] + x[7]
      z3a == z3 + z3
      tmp2 == s[2] + ((s[1] + s[4]) \div 2) - x[7] - x[7]
      z1a == (s[3] - tmp2) * FIX1(1531135, r) - (s[6] - tmp2) * FIX1(2238242, r)
      z2a == (s[5] - tmp2) * FIX1(798468, r) - (s[0] - tmp2) * FIX1(91361, r)
      z3b == (s[0] - s[3]) * FIX1(1383310, r) + (s[6] - s[5]) * FIX1(946294, r) + (s[1] - s[4]) * FIX1(790569, r)
      tmp1 == (d[0] - d[4] - d[5]) * FIX1(1344997, r) + (d[1] - d[3] - d[6]) * FIX1(831254, r)
      tmp12 == d[2] * FIX1(1224745, r)
      tmp4 == (d[0] - d[6]) * FIX1(1406466, r) + (d[1] + d[4]) * FIX1(1344997, r) + (d[3] + d[5]) * FIX1(575212, r)
      tmp0 == d[3] * FIX1(475753, r) - d[4] * FIX1(513743, r) + d[6] * FIX1(1700498, r) + tmp4
              + tmp12
      tmp3 == d[0] * (-FIX1(355501, r)) - d[1] * FIX1(2176251, r) - d[5] * FIX1(869244, r) + tmp4
              - tmp12
  IN <<(z1 + z2 + z3) * FIX1(1000000, r),
       tmp0,
       z1a + z3b,
       tmp1,
       z2a + z3b,
       (d[0] - d[2] - d[3] + d[5] + d[6]) * FIX1(1224745, r),
       (z1 - z3a) * FIX1(1144123, r) - (z2 - z3a) * FIX1(437016, r),
       tmp3>>

Fdct16(x, r) ==
  LET s == Sums(x, 16)
      d == Diffs(x, 16)
      tmp10 == s[0] + s[7]
      tmp14 == s[0] - s[7]
      tmp11 == s[1] + s[6]
      tmp15 == s[1] - s[6]
      tmp12 == s[2] + s[5]
      tmp16 == s[2] - s[5]
      tmp13 == s[3] + s[4]
      tmp17 == s[3] - s[4]
      tmp10a == (tmp17 - tmp15) * FIX1(275899, r) + (tmp14 - tmp16) * FIX1(1387040, r)
      tmp11a == (d[0] + d[1]) * FIX1(1353318, r) + (d[6] - d[7]) * FIX1(410525, r)
      tmp12a == (d[0] + d[2]) * FIX1(1247225, r) + (d[5] + d[7]) * FIX1(666656, r)
      tmp13a == (d[0] + d[3]) * FIX1(1093202, r) + (d[4] - d[7]) * FIX1(897168, r)
      tmp14a == (d[1] + d[2]) * FIX1(138617, r) + (d[6] - d[5]) * FIX1(1407404, r)
      tmp15a == (d[1] + d[3]) * (-FIX1(666656, r)) + (d[4] + d[6]) * (-FIX1(1247225, r))
      tmp16a == (d[2] + d[3]) * (-FIX1(1353318, r)) + (d[5] - d[4]) * FIX1(410525, r)
      tmp10b == tmp11a + tmp12a + tmp13a - d[0] * FIX1(2286341, r) + d[7] * FIX1(779654, r)
      tmp11b == tmp11a + tmp14a + tmp15a + d[1] * FIX1(71888, r) - d[6] * FIX1(1663905, r)
      tmp12b == tmp12a + tmp14a + tmp16a - d[2] * FIX1(1125726, r) + d[5] * FIX1(1227391, r)
      tmp13b == tmp13a + tmp15a + tmp16a + d[3] * FIX1(1065389, r) + d[4] * FIX1(2167986, r)
  IN <<(tmp10 + tmp11 + tmp12 + tmp13) * FIX1(1000000, r),
       tmp10b,
       tmp10a + tmp15 * FIX1(1451775, r) + tmp16 * FIX1(2172735, r),
       tmp11b,
       (tmp10 - tmp13) * FIX1(1306563, r) + (tmp11 - tmp12) * FIX1(541196, r),
       tmp12b,
       tmp10a - tmp14 * FIX1(211164, r) - tmp17 * FIX1(1061594, r),
       tmp13b>>

\* The kernel of n points.
Fdct(n, x, r, one) ==
  CASE n = 1 -> Fdct1(x, r)
    [] n = 2 -> Fdct2(x, r)
    [] n = 3 -> Fdct3(x, r)
    [] n = 4 -> Fdct4(x, r)
    [] n = 5 -> Fdct5(x, r)
    [] n = 6 -> Fdct6(x, r)
    [] n = 7 -> Fdct7(x, r)
    [] n = 8 -> Fdct8(x, r)
    [] n = 9 -> Fdct9(x, r)
    [] n = 10 -> Fdct10(x, r)
    [] n = 11 -> Fdct11(x, r)
    [] n = 12 -> Fdct12(x, r, one)
    [] n = 13 -> Fdct13(x, r)
    [] n = 14 -> Fdct14(x, r, one)
    [] n = 15 -> Fdct15(x, r)
    [] n = 16 -> Fdct16(x, r)

-----------------------------------------------------------------------------
(***************************************************************************)
(* The routines: the size of the sample block, the descaling shift of the  *)
(* row pass, the factor num/den in the constants of the column pass and    *)
(* the descaling shift of that pass.                                       *)
(***************************************************************************)
jpeg_fdct_islow ==
  [width |-> 8, height |-> 8, rowShift |-> CONST_BITS - PASS1_BITS,
   num |-> 1, den |-> 1, columnShift |-> CONST_BITS + PASS1_BITS]

jpeg_fdct_7x7 ==
  [width |-> 7, height |-> 7, rowShift |-> CONST_BITS - PASS1_BITS,
   num |-> 64, den |-> 49, columnShift |-> CONST_BITS + PASS1_BITS]

jpeg_fdct_6x6 ==
  [width |-> 6, height |-> 6, rowShift |-> CONST_BITS - PASS1_BITS,
   num |-> 16, den |-> 9, columnShift |-> CONST_BITS + PASS1_BITS]

jpeg_fdct_5x5 ==
  [width |-> 5, height |-> 5, rowShift |-> CONST_BITS - PASS1_BITS - 1,
   num |-> 32, den |-> 25, columnShift |-> CONST_BITS + PASS1_BITS]

jpeg_fdct_4x4 ==
  [width |-> 4, height |-> 4, rowShift |-> CONST_BITS - PASS1_BITS - 2,
   num |-> 1, den |-> 1, columnShift |-> CONST_BITS + PASS1_BITS]

jpeg_fdct_3x3 ==
  [width |-> 3, height |-> 3, rowShift |-> CONST_BITS - PASS1_BITS - 2,
   num |-> 16, den |-> 9, columnShift |-> CONST_BITS + PASS1_BITS]

jpeg_fdct_2x2 ==
  [width |-> 2, height |-> 2, rowShift |-> CONST_BITS,
   num |-> 1, den |-> 1, columnShift |-> CONST_BITS - 4]

jpeg_fdct_1x1 ==
  [width |-> 1, height |-> 1, rowShift |-> CONST_BITS,
   num |-> 1, den |-> 1, columnShift |-> CONST_BITS - 6]

jpeg_fdct_9x9 ==
  [width |-> 9, height |-> 9, rowShift |-> CONST_BITS - 1,
   num |-> 128, den |-> 81, columnShift |-> CONST_BITS + 2]

jpeg_fdct_10x10 ==
  [width |-> 10, height |-> 10, rowShift |-> CONST_BITS - 1,
   num |-> 32, den |-> 25, columnShift |-> CONST_BITS + 2]

jpeg_fdct_11x11 ==
  [width |-> 11, height |-> 11, rowShift |-> CONST_BITS - 1,
   num |-> 128, den |-> 121, columnShift |-> CONST_BITS + 2]

jpeg_fdct_12x12 ==
  [width |-> 12, height |-> 12, rowShift |-> CONST_BITS,
   num |-> 8, den |-> 9, columnShift |-> CONST_BITS + 1]

jpeg_fdct_13x13 ==
  [width |-> 13, height |-> 13, rowShift |-> CONST_BITS,
   num |-> 128, den |-> 169, columnShift |-> CONST_BITS + 1]

jpeg_fdct_14x14 ==
  [width |-> 14, height |-> 14, rowShift |-> CONST_BITS,
   num |-> 32, den |-> 49, columnShift |-> CONST_BITS + 1]

jpeg_fdct_15x15 ==
  [width |-> 15, height |-> 15, rowShift |-> CONST_BITS,
   num |-> 256, den |-> 225, columnShift |-> CONST_BITS + 2]

jpeg_fdct_16x16 ==
  [width |-> 16, height |-> 16, rowShift |-> CONST_BITS - PASS1_BITS,
   num |-> 1, den |-> 1, columnShift |-> CONST_BITS + PASS1_BITS + 2]

jpeg_fdct_16x8 ==
  [width |-> 16, height |-> 8, rowShift |-> CONST_BITS - PASS1_BITS,
   num |-> 1, den |-> 1, columnShift |-> CONST_BITS + PASS1_BITS + 1]

jpeg_fdct_14x7 ==
  [width |-> 14, height |-> 7, rowShift |-> CONST_BITS - PASS1_BITS,
   num |-> 64, den |-> 49, columnShift |-> CONST_BITS + PASS1_BITS + 1]

jpeg_fdct_12x6 ==
  [width |-> 12, height |-> 6, rowShift |-> CONST_BITS - PASS1_BITS,
   num |-> 16, den |-> 9, columnShift |-> CONST_BITS + PASS1_BITS + 1]

jpeg_fdct_10x5 ==
  [width |-> 10, height |-> 5, rowShift |-> CONST_BITS - PASS1_BITS,
   num |-> 32, den |-> 25, columnShift |-> CONST_BITS + PASS1_BITS]

jpeg_fdct_8x4 ==
  [width |-> 8, height |-> 4, rowShift |-> CONST_BITS - PASS1_BITS - 1,
   num |-> 1, den |-> 1, columnShift |-> CONST_BITS + PASS1_BITS]

jpeg_fdct_6x3 ==
  [width |-> 6, height |-> 3, rowShift |-> CONST_BITS - PASS1_BITS - 1,
   num |-> 16, den |-> 9, columnShift |-> CONST_BITS + PASS1_BITS]

jpeg_fdct_4x2 ==
  [width |-> 4, height |-> 2, rowShift |-> CONST_BITS - PASS1_BITS - 3,
   num |-> 1, den |-> 1, columnShift |-> CONST_BITS + PASS1_BITS]

jpeg_fdct_2x1 ==
  [width |-> 2, height |-> 1, rowShift |-> CONST_BITS,
   num |-> 1, den |-> 1, columnShift |-> CONST_BITS - 5]

jpeg_fdct_8x16 ==
  [width |-> 8, height |-> 16, rowShift |-> CONST_BITS - PASS1_BITS,
   num |-> 1, den |-> 1, columnShift |-> CONST_BITS + PASS1_BITS + 1]

jpeg_fdct_7x14 ==
  [width |-> 7, height |-> 14, rowShift |-> CONST_BITS - PASS1_BITS,
   num |-> 32, den |-> 49, columnShift |-> CONST_BITS + PASS1_BITS]

\* Seeded fault: the final shift of the square routines.
SixByTwelveShiftedMore ==
  [width |-> 6, height |-> 12, rowShift |-> CONST_BITS - PASS1_BITS,
   num |-> 8, den |-> 9, columnShift |-> CONST_BITS + PASS1_BITS + 1]

jpeg_fdct_6x12 ==
  [width |-> 6, height |-> 12, rowShift |-> CONST_BITS - PASS1_BITS,
   num |-> 8, den |-> 9, columnShift |-> CONST_BITS + PASS1_BITS]

jpeg_fdct_5x10 ==
  [width |-> 5, height |-> 10, rowShift |-> CONST_BITS - PASS1_BITS,
   num |-> 32, den |-> 25, columnShift |-> CONST_BITS + PASS1_BITS]

jpeg_fdct_4x8 ==
  [width |-> 4, height |-> 8, rowShift |-> CONST_BITS - PASS1_BITS - 1,
   num |-> 1, den |-> 1, columnShift |-> CONST_BITS + PASS1_BITS]

jpeg_fdct_3x6 ==
  [width |-> 3, height |-> 6, rowShift |-> CONST_BITS - PASS1_BITS - 1,
   num |-> 16, den |-> 9, columnShift |-> CONST_BITS + PASS1_BITS]

jpeg_fdct_2x4 ==
  [width |-> 2, height |-> 4, rowShift |-> CONST_BITS - 3,
   num |-> 1, den |-> 1, columnShift |-> CONST_BITS]

jpeg_fdct_1x2 ==
  [width |-> 1, height |-> 2, rowShift |-> CONST_BITS,
   num |-> 1, den |-> 1, columnShift |-> CONST_BITS - 5]

\* Pass 1: the rows of samples.  The signed conversion subtracts
\* width * CENTERJSAMPLE from the DC term.
RowKernel(width, x) == Fdct(width, x, [num |-> 1, den |-> 1], 1)

ForwardRows(r, samples) ==
  [y \in 0 .. r.height - 1 |->
     LET d == RowKernel(r.width, samples[y])
         dc == d[1] - r.width * CENTERJSAMPLE * CONST_SCALE
     IN [u \in 0 .. Least(r.width, DCTSIZE) - 1 |->
           DESCALE(IF u = 0 THEN dc ELSE d[u + 1], r.rowShift)]]

\* Pass 2: the columns; what lies outside the routine's block is zero.
ColumnKernel(r, x) == Fdct(r.height, x, r, FIX1(1000000, r))

ForwardColumns(r, rows) ==
  LET column(u) == ColumnKernel(r, [y \in 0 .. r.height - 1 |-> rows[y][u]])
      data == [u \in 0 .. Least(r.width, DCTSIZE) - 1 |-> column(u)]
  IN [v \in 0 .. DCTSIZE - 1 |-> [u \in 0 .. DCTSIZE - 1 |->
        IF u < r.width /\ v < r.height
        THEN DESCALE(data[u][v + 1], r.columnShift) ELSE 0]]
=============================================================================
