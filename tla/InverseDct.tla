----------------------------- MODULE InverseDct -----------------------------
(***************************************************************************)
(* The accurate integer inverse DCT (jidctint.c): every block size from    *)
(* 1x1 to 16x16 that scaled decoding and subsampled components can ask     *)
(* for.  Each C routine runs a one-dimensional kernel over the columns of  *)
(* the coefficient block into a workspace scaled up by 2^PASS1_BITS, and a *)
(* kernel over the rows of the workspace into the samples.  The two passes *)
(* of a routine and all routines of a size compute the same kernel, so a   *)
(* kernel is defined once, over the input x[0], x[1], ... whose element 0  *)
(* arrives in dc, already scaled and holding the rounding fudge of the     *)
(* final shift.  What the source spells per routine, the early shifts of   *)
(* outputs that are whole multiples of CONST_SCALE and the shortcut of     *)
(* jpeg_idct_islow for columns and rows without AC terms, computes the     *)
(* same numbers and is not repeated here.                                  *)
(***************************************************************************)
EXTENDS DctArithmetic

Idct1(dc, x) == Mirror(1, <<dc>>, <<>>)

Idct2(dc, x) == Mirror(2, <<dc>>, <<x[1] * CONST_SCALE>>)

Idct3(dc, x) ==
  LET tmp12 == x[2] * FIX(707107)
  IN Mirror(3, <<dc + tmp12,
                 dc - tmp12 - tmp12>>,
               <<x[1] * FIX(1224745)>>)

Idct4(dc, x) ==
  LET z1 == (x[1] + x[3]) * FIX(541196)
  IN Mirror(4, <<dc + x[2] * CONST_SCALE,
                 dc - x[2] * CONST_SCALE>>,
               <<z1 + x[1] * FIX(765367),
                 z1 - x[3] * FIX(1847759)>>)

Idct5(dc, x) ==
  LET z1 == (x[2] + x[4]) * FIX(790569)
      z2 == (x[2] - x[4]) * FIX(353553)
      z3 == dc + z2
      z1a == (x[1] + x[3]) * FIX(831254)
  IN Mirror(5, <<z3 + z1,
                 z3 - z1,
                 dc - z2 * 4>>,
               <<z1a + x[1] * FIX(513743),
                 z1a - x[3] * FIX(2176251)>>)

Idct6(dc, x) ==
  LET tmp10 == x[4] * FIX(707107)
      tmp1 == dc + tmp10
      tmp0 == x[2] * FIX(1224745)
      tmp1a == (x[1] + x[5]) * FIX(366025)
  IN Mirror(6, <<tmp1 + tmp0,
                 dc - tmp10 - tmp10,
                 tmp1 - tmp0>>,
               <<tmp1a + (x[1] + x[3]) * CONST_SCALE,
                 (x[1] - x[3] - x[5]) * CONST_SCALE,
                 tmp1a + (x[5] - x[3]) * CONST_SCALE>>)

Idct7(dc, x) ==
  LET tmp10 == (x[4] - x[6]) * FIX(881748)
      tmp12 == (x[2] - x[4]) * FIX(314692)
      tmp0 == x[2] + x[6]
      tmp0a == tmp0 * FIX(1274162) + dc
      tmp1 == (x[1] + x[3]) * FIX(935414)
      tmp2 == (x[1] - x[3]) * FIX(170262)
      tmp2a == (x[3] + x[5]) * (-FIX(1378756))
      z2 == (x[1] + x[5]) * FIX(613604)
  IN Mirror(7, <<tmp10 + tmp0a - x[6] * FIX(77723),
                 tmp10 + tmp12 + dc - x[4] * FIX(1841218),
                 tmp12 + tmp0a - x[2] * FIX(2470602),
                 dc + (x[4] - tmp0) * FIX(1414214)>>,
               <<tmp1 - tmp2 + z2,
                 tmp1 + tmp2 + tmp2a,
                 tmp2a + z2 + x[5] * FIX(1870829)>>)

Idct8(dc, x) ==
  LET z1 == (x[2] + x[6]) * FIX(541196)
      tmp2 == z1 + x[2] * FIX(765367)
      tmp3 == z1 - x[6] * FIX(1847759)
      tmp0 == dc + x[4] * CONST_SCALE
      tmp1 == dc - x[4] * CONST_SCALE
      z2 == x[7] + x[3]
      z3 == x[5] + x[1]
      z1a == (z2 + z3) * FIX(1175876)
      z2a == z2 * (-FIX(1961571)) + z1a
      z3a == z3 * (-FIX(390181)) + z1a
      z1b == (x[7] + x[1]) * (-FIX(899976))
      z1c == (x[5] + x[3]) * (-FIX(2562915))
  IN Mirror(8, <<tmp0 + tmp2,
                 tmp1 + tmp3,
                 tmp1 - tmp3,
                 tmp0 - tmp2>>,
               <<x[1] * FIX(1501321) + z1b + z3a,
                 x[3] * FIX(3072711) + z1c + z2a,
                 x[5] * FIX(2053120) + z1c + z3a,
                 x[7] * FIX(298631) + z1b + z2a>>)

Idct9(dc, x) ==
  LET tmp3 == x[6] * FIX(707107)
      tmp1 == dc + tmp3
      tmp2 == dc - tmp3 - tmp3
      tmp0 == (x[2] - x[4]) * FIX(707107)
      tmp0a == (x[2] + x[4]) * FIX(1328926)
      tmp2a == x[2] * FIX(1083350)
      tmp3a == x[4] * FIX(245576)
      z2 == x[3] * (-FIX(1224745))
      tmp2b == (x[1] + x[5]) * FIX(909039)
      tmp3b == (x[1] + x[7]) * FIX(483690)
      tmp1a == (x[5] - x[7]) * FIX(1392728)
  IN Mirror(9, <<tmp1 + tmp0a - tmp3a,
                 tmp2 + tmp0,
                 tmp1 - tmp0a + tmp2a,
                 tmp1 - tmp2a + tmp3a,
                 tmp2 - tmp0 - tmp0>>,
               <<tmp2b + tmp3b - z2,
                 (x[1] - x[5] - x[7]) * FIX(1224745),
                 tmp2b + z2 - tmp1a,
                 tmp3b + z2 + tmp1a>>)

Idct10(dc, x) ==
  LET z1 == x[4] * FIX(1144123)
      z2 == x[4] * FIX(437016)
      tmp10 == dc + z1
      tmp11 == dc - z2
      z1a == (x[2] + x[6]) * FIX(831254)
      tmp12 == z1a + x[2] * FIX(513743)
      tmp13 == z1a - x[6] * FIX(2176251)
      z3 == x[5] * CONST_SCALE
      tmp11a == x[3] + x[7]
      tmp13a == x[3] - x[7]
      tmp12a == tmp13a * FIX(309017)
      z2a == tmp11a * FIX(951057)
      z4 == z3 + tmp12a
      z2b == tmp11a * FIX(587785)
      z4a == z3 - tmp12a - tmp13a * FIX(500000)
  IN Mirror(10, <<tmp10 + tmp12,
                  tmp11 + tmp13,
                  dc - (z1 - z2) * 2,
                  tmp11 - tmp13,
                  tmp10 - tmp12>>,
               <<x[1] * FIX(1396802) + z2a + z4,
                  x[1] * FIX(1260074) - z2b - z4a,
                  (x[1] - tmp13a) * CONST_SCALE - z3,
                  x[1] * FIX(642040) - z2b + z4a,
                  x[1] * FIX(221232) - z2a + z4>>)

Idct11(dc, x) ==
  LET tmp20 == (x[4] - x[6]) * FIX(2546640)
      tmp23 == (x[4] - x[2]) * FIX(430815)
      z4 == x[2] + x[6]
      z4a == z4 - x[4]
      tmp25 == dc + z4a * FIX(1356928)
      tmp24 == z4 * (-FIX(1155664)) + tmp25
      tmp11 == x[1] + x[3]
      tmp14 == (tmp11 + x[5] + x[7]) * FIX(398430)
      tmp11a == tmp11 * FIX(887984)
      tmp12 == (x[1] + x[5]) * FIX(670361)
      tmp13 == tmp14 + (x[1] + x[7]) * FIX(366152)
      z1 == tmp14 - (x[3] + x[5]) * FIX(1163012)
      z1a == (x[3] + x[7]) * (-FIX(1798249))
      tmp14a == tmp14 + x[3] * (-FIX(1467221)) + x[5] * FIX(1001389)
                - x[7] * FIX(1684844)
  IN Mirror(11, <<tmp20 + tmp25 + x[6] * FIX(2115825),
                  tmp20 + tmp23 + tmp25 - x[4] * FIX(1821791),
                  tmp24 - x[6] * FIX(788749),
                  tmp23 + tmp25 - x[2] * FIX(1513598),
                  tmp24 + x[4] * FIX(1944414) - x[2] * FIX(1390976),
                  dc - z4a * FIX(1414214)>>,
               <<tmp11a + tmp12 + tmp13 - x[1] * FIX(923108),
                  tmp11a + z1 + x[3] * FIX(2073277) + z1a,
                  tmp12 + z1 - x[5] * FIX(1192194),
                  tmp13 + z1a + x[7] * FIX(2102459),
                  tmp14a>>)

Idct12(dc, x) ==
  LET z4 == x[4] * FIX(1224745)
      tmp10 == dc + z4
      tmp11 == dc - z4
      z4a == x[2] * FIX(1366025)
      z1 == x[2] * CONST_SCALE
      z2 == x[6] * CONST_SCALE
      tmp12 == z1 - z2
      tmp12a == z4a + z2
      tmp12b == z4a - z1 - z2
      tmp11a == x[3] * FIX(1306563)
      tmp14 == x[3] * (-FIX(541196))
      tmp10a == x[1] + x[5]
      tmp15 == (tmp10a + x[7]) * FIX(860919)
      tmp12c == tmp15 + tmp10a * FIX(261052)
      tmp13 == (x[5] + x[7]) * (-FIX(1045511))
      z1a == x[1] - x[7]
      z2a == x[3] - x[5]
      z3 == (z1a + z2a) * FIX(541196)
  IN Mirror(12, <<tmp10 + tmp12a,
                  dc + tmp12,
                  tmp11 + tmp12b,
                  tmp11 - tmp12b,
                  dc - tmp12,
                  tmp10 - tmp12a>>,
               <<tmp12c + tmp11a + x[1] * FIX(280144),
                  z3 + z1a * FIX(765367),
                  tmp12c + tmp13 + tmp14 - x[5] * FIX(1478575),
                  tmp13 + tmp15 - tmp11a + x[7] * FIX(1586707),
                  z3 - z2a * FIX(1847759),
                  tmp15 + tmp14 - x[1] * FIX(676327) - x[7] * FIX(1982890)>>)

Idct13(dc, x) ==
  LET tmp10 == x[4] + x[6]
      tmp11 == x[4] - x[6]
      tmp12 == tmp10 * FIX(1155389)
      tmp13 == tmp11 * FIX(96835) + dc
      tmp12a == tmp10 * FIX(316450)
      tmp13a == tmp11 * FIX(486915) + dc
      tmp12b == tmp10 * FIX(435816)
      tmp13b == tmp11 * FIX(937303) - dc
      tmp11a == (x[1] + x[3]) * FIX(1322313)
      tmp12c == (x[1] + x[5]) * FIX(1163875)
      tmp15 == x[1] + x[7]
      tmp13c == tmp15 * FIX(937797)
      tmp14 == (x[3] + x[5]) * (-FIX(338443))
      tmp14a == (x[3] + x[7]) * (-FIX(1163875))
      tmp14b == (x[5] + x[7]) * (-FIX(657218))
      tmp15a == tmp15 * FIX(338443)
      z1 == (x[5] - x[3]) * FIX(937797)
  IN Mirror(13, <<x[2] * FIX(1373119) + tmp12 + tmp13,
                  x[2] * FIX(1058554) - tmp12a + tmp13a,
                  x[2] * FIX(501487) - tmp12 + tmp13,
                  x[2] * (-FIX(170465)) - tmp12b - tmp13b,
                  x[2] * (-FIX(803365)) + tmp12b - tmp13b,
                  x[2] * (-FIX(1252224)) + tmp12a + tmp13a,
                  (tmp11 - x[2]) * FIX(1414214) + dc>>,
               <<tmp11a + tmp12c + tmp13c - x[1] * FIX(2020082),
                  tmp11a + tmp14 + x[3] * FIX(837224) + tmp14a,
                  tmp12c + tmp14 - x[5] * FIX(1572116) + tmp14b,
                  tmp13c + tmp14a + x[7] * FIX(2205608) + tmp14b,
                  tmp15a + x[1] * FIX(318774) - x[3] * FIX(466105) + z1,
                  tmp15a + z1 + x[5] * FIX(384516) - x[7] * FIX(1742346)>>)

Idct14(dc, x) ==
  LET z2 == x[4] * FIX(1274162)
      z3 == x[4] * FIX(314692)
      z4 == x[4] * FIX(881748)
      tmp10 == dc + z2
      tmp11 == dc + z3
      tmp12 == dc - z4
      z3a == (x[2] + x[6]) * FIX(1105677)
      tmp13 == z3a + x[2] * FIX(273080)
      tmp14 == z3a - x[6] * FIX(1719281)
      tmp15 == x[2] * FIX(613604) - x[6] * FIX(1378756)
      z4a == x[7] * CONST_SCALE
      tmp14a == x[1] + x[5]
      tmp11a == (x[1] + x[3]) * FIX(1334853)
      tmp12a == tmp14a * FIX(1197449)
      tmp14b == tmp14a * FIX(752407)
      z1 == x[1] - x[3]
      tmp15a == z1 * FIX(467085) - z4a
      tmp13a == (x[3] + x[5]) * (-FIX(158342)) - z4a
      tmp13b == (x[5] - x[3]) * FIX(1405321)
  IN Mirror(14, <<tmp10 + tmp13,
                  tmp11 + tmp14,
                  tmp12 + tmp15,
                  dc - (z2 + z3 - z4) * 2,
                  tmp12 - tmp15,
                  tmp11 - tmp14,
                  tmp10 - tmp13>>,
               <<tmp11a + tmp12a + z4a - x[1] * FIX(1126980),
                  tmp11a + tmp13a - x[3] * FIX(424104),
                  tmp12a + tmp13a - x[5] * FIX(2373960),
                  (z1 - x[5]) * CONST_SCALE + z4a,
                  tmp14b + tmp13b + z4a - x[5] * FIX(1690643),
                  tmp15a + tmp13b + x[3] * FIX(674958),
                  tmp14b - x[1] * FIX(1061150) + tmp15a>>)

Idct15(dc, x) ==
  LET tmp10 == x[6] * FIX(437016)
      tmp11 == x[6] * FIX(1144123)
      tmp12 == dc - tmp10
      tmp13 == dc + tmp11
      z1 == dc - (tmp11 - tmp10) * 2
      z4 == x[2] - x[4]
      z3 == x[4] + x[2]
      tmp10a == z3 * FIX(1337629)
      tmp11a == z4 * FIX(45681)
      z2 == x[2] * FIX(1439774)
      tmp10b == z3 * FIX(547060)
      tmp11b == z4 * FIX(399234)
      tmp10c == z3 * FIX(790569)
      tmp11c == z4 * FIX(353553)
      tmp11d == tmp11c + tmp11c
      z3a == x[5] * FIX(1224745)
      tmp13a == x[3] - x[7]
      tmp15 == (x[1] + tmp13a) * FIX(831254)
      tmp13b == x[3] * (-FIX(831254))
      tmp15a == x[3] * (-FIX(1344997))
      z2a == x[1] - x[7]
      tmp12a == z3a + z2a * FIX(1406466)
      z2b == (x[1] + x[7]) * FIX(575212)
  IN Mirror(15, <<tmp13 + tmp10a + tmp11a,
                  tmp12 + tmp10c + tmp11c,
                  z1 + tmp11d,
                  tmp12 - tmp10a + tmp11a + z2,
                  tmp13 - tmp10c + tmp11c,
                  tmp13 - tmp10b - tmp11b,
                  tmp12 + tmp10b - tmp11b - z2,
                  z1 - tmp11d - tmp11d>>,
               <<tmp12a + x[7] * FIX(2457432) - tmp15a,
                  tmp15 + x[1] * FIX(513743),
                  z2a * FIX(1224745) - z3a,
                  tmp13b + z2b + x[1] * FIX(475753) - z3a,
                  tmp15 - tmp13a * FIX(2176251),
                  tmp15a + z2b - x[7] * FIX(869244) + z3a,
                  tmp12a - x[1] * FIX(1112435) + tmp13b>>)

Idct16(dc, x) ==
  LET tmp1 == x[4] * FIX(1306563)
      tmp2 == x[4] * FIX(541196)
      tmp10 == dc + tmp1
      tmp11 == dc - tmp1
      tmp12 == dc + tmp2
      tmp13 == dc - tmp2
      z3 == x[2] - x[6]
      z4 == z3 * FIX(275899)
      z3a == z3 * FIX(1387040)
      tmp0 == z3a + x[6] * FIX(2562915)
      tmp1a == z4 + x[2] * FIX(899976)
      tmp2a == z3a - x[2] * FIX(601345)
      tmp3 == z4 - x[6] * FIX(509796)
      tmp11a == x[1] + x[5]
      tmp1b == (x[1] + x[3]) * FIX(1353318)
      tmp2b == tmp11a * FIX(1247225)
      tmp3a == (x[1] + x[7]) * FIX(1093202)
      tmp10a == (x[1] - x[7]) * FIX(897168)
      tmp11b == tmp11a * FIX(666656)
      tmp12a == (x[1] - x[3]) * FIX(410525)
      z1 == (x[3] + x[5]) * FIX(138617)
      z1a == (x[5] - x[3]) * FIX(1407404)
      z2 == x[3] + x[7]
      z1b == z2 * (-FIX(666656))
      z2a == z2 * (-FIX(1247225))
      z2b == (x[5] + x[7]) * (-FIX(1353318))
      z2c == (x[7] - x[5]) * FIX(410525)
  IN Mirror(16, <<tmp10 + tmp0,
                  tmp12 + tmp1a,
                  tmp13 + tmp2a,
                  tmp11 + tmp3,
                  tmp11 - tmp3,
                  tmp13 - tmp2a,
                  tmp12 - tmp1a,
                  tmp10 - tmp0>>,
               <<tmp1b + tmp2b + tmp3a - x[1] * FIX(2286341),
                  tmp1b + z1 + x[3] * FIX(71888) + z1b,
                  tmp2b + z1 - x[5] * FIX(1125726) + z2b,
                  tmp3a + z1b + x[7] * FIX(1065389) + z2b,
                  tmp10a + z2a + x[7] * FIX(3141272) + z2c,
                  tmp11b + z1a - x[5] * FIX(766367) + z2c,
                  tmp12a + z1a + x[3] * FIX(1971951) + z2a,
                  tmp10a + tmp11b + tmp12a - x[1] * FIX(1835731)>>)

\* The kernel of n points.
Idct(n, dc, x) ==
  CASE n = 1 -> Idct1(dc, x)
    [] n = 2 -> Idct2(dc, x)
    [] n = 3 -> Idct3(dc, x)
    [] n = 4 -> Idct4(dc, x)
    [] n = 5 -> Idct5(dc, x)
    [] n = 6 -> Idct6(dc, x)
    [] n = 7 -> Idct7(dc, x)
    [] n = 8 -> Idct8(dc, x)
    [] n = 9 -> Idct9(dc, x)
    [] n = 10 -> Idct10(dc, x)
    [] n = 11 -> Idct11(dc, x)
    [] n = 12 -> Idct12(dc, x)
    [] n = 13 -> Idct13(dc, x)
    [] n = 14 -> Idct14(dc, x)
    [] n = 15 -> Idct15(dc, x)
    [] n = 16 -> Idct16(dc, x)

-----------------------------------------------------------------------------
(***************************************************************************)
(* The routines.  width x height is the sample block a routine produces:   *)
(* its columns go through the height-point kernel, its rows through the    *)
(* width-point one.  Of the 8 x 8 coefficients a routine reads the first   *)
(* width columns and height rows.                                          *)
(***************************************************************************)
jpeg_idct_islow == [width |-> 8, height |-> 8]
jpeg_idct_7x7 == [width |-> 7, height |-> 7]
jpeg_idct_6x6 == [width |-> 6, height |-> 6]
jpeg_idct_5x5 == [width |-> 5, height |-> 5]
jpeg_idct_4x4 == [width |-> 4, height |-> 4]
jpeg_idct_3x3 == [width |-> 3, height |-> 3]
jpeg_idct_2x2 == [width |-> 2, height |-> 2]
jpeg_idct_1x1 == [width |-> 1, height |-> 1]
jpeg_idct_9x9 == [width |-> 9, height |-> 9]
jpeg_idct_10x10 == [width |-> 10, height |-> 10]
jpeg_idct_11x11 == [width |-> 11, height |-> 11]
jpeg_idct_12x12 == [width |-> 12, height |-> 12]
jpeg_idct_13x13 == [width |-> 13, height |-> 13]
jpeg_idct_14x14 == [width |-> 14, height |-> 14]
jpeg_idct_15x15 == [width |-> 15, height |-> 15]
jpeg_idct_16x16 == [width |-> 16, height |-> 16]
jpeg_idct_16x8 == [width |-> 16, height |-> 8]
jpeg_idct_14x7 == [width |-> 14, height |-> 7]
jpeg_idct_12x6 == [width |-> 12, height |-> 6]
jpeg_idct_10x5 == [width |-> 10, height |-> 5]
jpeg_idct_8x4 == [width |-> 8, height |-> 4]
jpeg_idct_6x3 == [width |-> 6, height |-> 3]
jpeg_idct_4x2 == [width |-> 4, height |-> 2]
jpeg_idct_2x1 == [width |-> 2, height |-> 1]
jpeg_idct_8x16 == [width |-> 8, height |-> 16]
jpeg_idct_7x14 == [width |-> 7, height |-> 14]
jpeg_idct_6x12 == [width |-> 6, height |-> 12]
jpeg_idct_5x10 == [width |-> 5, height |-> 10]
jpeg_idct_4x8 == [width |-> 4, height |-> 8]
jpeg_idct_3x6 == [width |-> 3, height |-> 6]
jpeg_idct_2x4 == [width |-> 2, height |-> 4]
jpeg_idct_1x2 == [width |-> 1, height |-> 2]

\* Pass 1: column u of the dequantized coefficients, into the workspace.
InverseColumns(r, coef) ==
  [u \in 0 .. Least(r.width, DCTSIZE) - 1 |->
     LET dc == coef[0][u] * CONST_SCALE + 2^(CONST_BITS - PASS1_BITS - 1)
         y == Idct(r.height, dc, [v \in 0 .. DCTSIZE - 1 |-> coef[v][u]])
     IN [k \in 0 .. r.height - 1 |-> y[k] \div 2^(CONST_BITS - PASS1_BITS)]]

\* Pass 2: row y of the workspace, before the range limit.
InverseRows(r, workspace) ==
  [y \in 0 .. r.height - 1 |->
     LET dc == (workspace[0][y] + 2^(PASS1_BITS + 2)) * CONST_SCALE
         x == Idct(r.width, dc, [u \in 0 .. Least(r.width, DCTSIZE) - 1 |-> workspace[u][y]])
     IN [k \in 0 .. r.width - 1 |-> x[k] \div 2^(CONST_BITS + PASS1_BITS + 3)]]

-----------------------------------------------------------------------------
(***************************************************************************)
(* The range limit.  prepare_range_limit_table (jdmaster.c) lays out one   *)
(* table for two uses; the IDCT addresses it CENTERJSAMPLE entries after   *)
(* sample_range_limit and masks the index with RANGE_MASK, so that every   *)
(* sum lands in the table and the post-IDCT part of the table centres and  *)
(* clamps it.                                                              *)
(***************************************************************************)
RANGE_MASK == MAXJSAMPLE * 4 + 3

\* sample_range_limit[i]; the table runs from -(MAXJSAMPLE+1) to
\* 4 * (MAXJSAMPLE+1) + CENTERJSAMPLE - 1.
sample_range_limit ==
  [i \in -(MAXJSAMPLE + 1) .. 4 * (MAXJSAMPLE + 1) + CENTERJSAMPLE - 1 |->
     LET j == i - CENTERJSAMPLE  \* position in the post-IDCT part
     IN CASE i < 0 -> 0
          [] i >= 0 /\ i <= MAXJSAMPLE -> i
          [] i > MAXJSAMPLE /\ j < 2 * (MAXJSAMPLE + 1) -> MAXJSAMPLE
          [] j >= 2 * (MAXJSAMPLE + 1) /\ j < 4 * (MAXJSAMPLE + 1) - CENTERJSAMPLE -> 0
          [] OTHER -> j - (4 * (MAXJSAMPLE + 1) - CENTERJSAMPLE)]

\* Seeded fault: the mask of a table that only covers the sample range twice.
ShortMaskLimit(x) == sample_range_limit[CENTERJSAMPLE + (x % (2 * (MAXJSAMPLE + 1)))]

range_limit(x) == sample_range_limit[CENTERJSAMPLE + (x % (RANGE_MASK + 1))]
=============================================================================
