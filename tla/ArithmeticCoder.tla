---------------------------- MODULE ArithmeticCoder ----------------------------
(***************************************************************************)
(* The arithmetic entropy encoder and decoder (jcarith.c, jdarith.c,       *)
(* jaricom.c), sequential and progressive.                                 *)
(*                                                                         *)
(* "ci" is what the coders use of cinfo for one scan: progressive_mode,    *)
(* Ss, Se, Ah, Al, lim_Se, MCU_membership, tbl (the table number of each   *)
(* component), L, U, K (conditioning values) and restart_interval.  A      *)
(* block is a function from 0 .. lim_Se in zigzag order, so natural_order  *)
(* is the identity here.  An encoder or decoder is a record with the       *)
(* fields of the C struct; the statistics areas are one function, from     *)
(* <<class, table, bin>> to <<index, MPS>>, of the bins that are not zero. *)
(***************************************************************************)
EXTENDS CodedBytes, SequencesExt

\* jpeg_aritab: Qe_Value, Next_Index_LPS, Next_Index_MPS, Switch_MPS.
jpeg_aritab == <<
  <<23069, 1, 1, 1>>, <<9606, 14, 2, 0>>, <<4372, 16, 3, 0>>, <<2059, 18, 4, 0>>,
  <<984, 20, 5, 0>>, <<474, 23, 6, 0>>, <<229, 25, 7, 0>>, <<111, 28, 8, 0>>,
  <<54, 30, 9, 0>>, <<26, 33, 10, 0>>, <<13, 35, 11, 0>>, <<6, 9, 12, 0>>,
  <<3, 10, 13, 0>>, <<1, 12, 13, 0>>, <<23167, 15, 15, 1>>, <<16165, 36, 16, 0>>,
  <<11506, 38, 17, 0>>, <<8316, 39, 18, 0>>, <<6073, 40, 19, 0>>, <<4482, 42, 20, 0>>,
  <<3311, 43, 21, 0>>, <<2465, 45, 22, 0>>, <<1839, 46, 23, 0>>, <<1372, 48, 24, 0>>,
  <<1030, 49, 25, 0>>, <<771, 51, 26, 0>>, <<576, 52, 27, 0>>, <<433, 54, 28, 0>>,
  <<324, 56, 29, 0>>, <<245, 57, 30, 0>>, <<183, 59, 31, 0>>, <<138, 60, 32, 0>>,
  <<104, 62, 33, 0>>, <<78, 63, 34, 0>>, <<59, 32, 35, 0>>, <<44, 33, 9, 0>>,
  <<23265, 37, 37, 1>>, <<18508, 64, 38, 0>>, <<14861, 65, 39, 0>>, <<12017, 67, 40, 0>>,
  <<9759, 68, 41, 0>>, <<7987, 69, 42, 0>>, <<6568, 70, 43, 0>>, <<5400, 72, 44, 0>>,
  <<4471, 73, 45, 0>>, <<3700, 74, 46, 0>>, <<3067, 75, 47, 0>>, <<2552, 77, 48, 0>>,
  <<2145, 78, 49, 0>>, <<1798, 79, 50, 0>>, <<1485, 48, 51, 0>>, <<1246, 50, 52, 0>>,
  <<1039, 50, 53, 0>>, <<867, 51, 54, 0>>, <<724, 52, 55, 0>>, <<604, 53, 56, 0>>,
  <<504, 54, 57, 0>>, <<420, 55, 58, 0>>, <<352, 56, 59, 0>>, <<293, 57, 60, 0>>,
  <<246, 58, 61, 0>>, <<203, 59, 62, 0>>, <<171, 61, 63, 0>>, <<143, 61, 32, 0>>,
  <<23314, 65, 65, 1>>, <<19716, 80, 66, 0>>, <<16684, 81, 67, 0>>, <<14296, 82, 68, 0>>,
  <<12264, 83, 69, 0>>, <<10556, 84, 70, 0>>, <<9081, 86, 71, 0>>, <<7903, 87, 72, 0>>,
  <<6825, 87, 73, 0>>, <<5966, 72, 74, 0>>, <<5156, 72, 75, 0>>, <<4508, 74, 76, 0>>,
  <<3947, 74, 77, 0>>, <<3409, 75, 78, 0>>, <<2998, 77, 79, 0>>, <<2624, 77, 48, 0>>,
  <<22578, 80, 81, 1>>, <<19740, 88, 82, 0>>, <<17294, 89, 83, 0>>, <<15325, 90, 84, 0>>,
  <<13550, 91, 85, 0>>, <<11950, 92, 86, 0>>, <<10650, 93, 87, 0>>, <<9494, 86, 71, 0>>,
  <<21872, 88, 89, 1>>, <<19625, 95, 90, 0>>, <<17625, 96, 91, 0>>, <<15906, 97, 92, 0>>,
  <<14372, 99, 93, 0>>, <<12980, 99, 94, 0>>, <<11799, 93, 86, 0>>, <<22184, 95, 96, 1>>,
  <<20294, 101, 97, 0>>, <<18405, 102, 98, 0>>, <<16847, 103, 99, 0>>, <<15421, 104, 100, 0>>,
  <<14174, 99, 93, 0>>, <<21041, 105, 102, 0>>, <<19471, 106, 103, 0>>, <<17977, 107, 104, 0>>,
  <<16734, 103, 99, 0>>, <<22055, 105, 106, 1>>, <<20711, 108, 107, 0>>, <<19333, 109, 103, 0>>,
  <<21911, 110, 109, 0>>, <<20559, 111, 107, 0>>, <<23056, 110, 111, 1>>, <<21794, 112, 109, 0>>,
  <<23019, 112, 111, 1>>, <<23069, 113, 113, 0>>>>

FixedBin == <<"fixed", 0, 0>>          \* probability 0.5, never adapted
NoStats == FixedBin :> <<113, 0>>

Statistics(stats, bin) ==
  IF bin \in DOMAIN stats THEN stats[bin] ELSE <<0, 0>>

\* MEMZERO of the statistics areas of some classes.
ZeroStats(stats, classes) ==
  [b \in {x \in DOMAIN stats : x[1] \notin classes} |-> stats[b]]

\* Estimate_after_LPS, Estimate_after_MPS.
Estimate(st, lps) ==
  LET row == jpeg_aritab[st[1] + 1]
  IN IF lps THEN <<row[2], IF row[4] = 1 THEN 1 - st[2] ELSE st[2]>>
     ELSE <<row[3], st[2]>>

Magnitude(v) == IF v < 0 THEN -v ELSE v
Bit(n, i) == (n \div 2 ^ i) % 2
Log2(n) == CHOOSE i \in 0 .. 15 : 2 ^ i <= n /\ n < 2 ^ (i + 1)

\* The point transform of an AC coefficient rounds towards zero ...
Shifted(v, al) == IF v < 0 THEN -((-v) \div 2 ^ al) ELSE v \div 2 ^ al
\* ... that of a DC coefficient is an arithmetic shift.
DcShifted(v, al) == v \div 2 ^ al

-------------------------------------------------------------------------------
(***************************************************************************)
(* Encoder.  out: the bytes written so far.                                *)
(***************************************************************************)
PendingZeros(e) == [e EXCEPT !.out = @ \o ZeroBytes(e.zc), !.zc = 0]

\* Overflow over all stacked 0xFF bytes.
CarryOver(e) ==
  LET e1 == IF e.buffer >= 0
            THEN LET z == PendingZeros(e)
                 IN [z EXCEPT !.out = @ \o Stuffed(e.buffer + 1)]
            ELSE e
  IN [e1 EXCEPT !.zc = @ + e.sc, !.sc = 0]

\* The pending byte and the stacked 0xFF bytes cannot overflow any more.
NoCarry(e) ==
  LET e1 == IF e.buffer = 0 THEN [e EXCEPT !.zc = @ + 1]
            ELSE IF e.buffer > 0
                 THEN LET z == PendingZeros(e) IN [z EXCEPT !.out = Append(@, e.buffer)]
                 ELSE e
      z1 == PendingZeros(e1)
  IN IF e.sc > 0
     THEN [z1 EXCEPT !.out = @ \o FlattenSeq([i \in 1 .. e.sc |-> <<255, 0>>]),
                     !.sc = 0]
     ELSE e1

ByteOut(e) ==
  LET temp == e.c \div 2 ^ 19
      e1 == IF temp > 255 THEN [CarryOver(e) EXCEPT !.buffer = temp % 256]
            ELSE IF temp = 255 THEN [e EXCEPT !.sc = @ + 1]
            ELSE [NoCarry(e) EXCEPT !.buffer = temp]
  IN [e1 EXCEPT !.c = e.c % 2 ^ 19, !.ct = e.ct + 8]

RECURSIVE Renormalize(_)
Renormalize(e) ==
  LET e1 == [e EXCEPT !.a = 2 * @, !.c = 2 * @, !.ct = @ - 1]
      e2 == IF e1.ct = 0 THEN ByteOut(e1) ELSE e1
  IN IF e2.a < 32768 THEN Renormalize(e2) ELSE e2

(***************************************************************************)
(* arith_encode: the less probable symbol has the upper part of the        *)
(* interval, of size qe, except that the two parts are exchanged when the  *)
(* other one is the smaller.                                               *)
(***************************************************************************)
arith_encode(e, bin, val) ==
  LET st == Statistics(e.stats, bin)
      qe == jpeg_aritab[st[1] + 1][1]
      rest == e.a - qe
      lps == val # st[2]
      upper == lps # (rest < qe)
      e1 == IF upper THEN [e EXCEPT !.c = @ + rest, !.a = qe]
            ELSE [e EXCEPT !.a = rest]
  IN IF ~lps /\ rest >= 32768 THEN e1
     ELSE Renormalize([e1 EXCEPT !.stats = bin :> Estimate(st, lps) @@ @])

\* The decisions of a sequence; between any two the interval is normalized.
RECURSIVE EncodeFrom(_, _, _)
EncodeFrom(e, decisions, i) ==
  IF e.a < 32768 \/ i > Len(decisions) THEN e
  ELSE EncodeFrom(arith_encode(e, decisions[i][1], decisions[i][2]), decisions, i + 1)
EncodeDecisions(e, decisions) == EncodeFrom(e, decisions, 1)

(***************************************************************************)
(* finish_pass: the value of the interval with the most trailing zeros,    *)
(* and no trailing zero bytes ("Pacman" termination).                      *)
(***************************************************************************)
finish_pass(e) ==
  LET temp == ((e.a - 1 + e.c) \div 2 ^ 16) * 2 ^ 16
      c == (IF temp < e.c THEN temp + 2 ^ 15 ELSE temp) * 2 ^ e.ct
      e1 == IF c >= 2 ^ 27 THEN CarryOver(e) ELSE NoCarry(e)
      first == (c \div 2 ^ 19) % 256
      second == (c \div 2 ^ 11) % 256
  IN IF first = 0 /\ second = 0 THEN e1
     ELSE [PendingZeros(e1) EXCEPT
             !.out = @ \o Stuffed(first)
                       \o (IF second = 0 THEN <<>> ELSE Stuffed(second))]

ResetRegisters(e) ==
  [e EXCEPT !.c = 0, !.a = 65536, !.sc = 0, !.zc = 0, !.ct = 11, !.buffer = -1]

DcTableNeeded(ci) == ci.Ss = 0 /\ ci.Ah = 0
Components(ci) == {ci.MCU_membership[b] : b \in DOMAIN ci.MCU_membership}

\* emit_restart
emit_restart(e, ci) ==
  LET done == finish_pass(e)
      dc == IF DcTableNeeded(ci) THEN {"dc"} ELSE {}
      ac == IF ci.Se # 0 THEN {"ac"} ELSE {}
      zeroed == [done EXCEPT
        !.out = @ \o <<255, RST0 + e.next_restart_num>>,
        !.stats = ZeroStats(@, dc \union ac),
        !.last_dc_val = IF dc = {} THEN @ ELSE [c \in DOMAIN @ |-> 0],
        !.dc_context = IF dc = {} THEN @ ELSE [c \in DOMAIN @ |-> 0]]
  IN ResetRegisters(zeroed)

\* Emit restart marker if needed, at the start of every MCU.
RestartIfNeeded(e, ci) ==
  IF ci.restart_interval = 0 THEN e
  ELSE LET e1 == IF e.restarts_to_go = 0
                 THEN [emit_restart(e, ci) EXCEPT
                         !.restarts_to_go = ci.restart_interval,
                         !.next_restart_num = (@ + 1) % 8]
                 ELSE e
       IN [e1 EXCEPT !.restarts_to_go = @ - 1]

\* The pattern of the n bits of v below its leading one, coded with one bin.
PatternBits(bin, v, n) == [i \in 1 .. n |-> <<bin, Bit(v, n - i)>>]

\* The bins of the magnitude category of v - 1 >= 1, and its decisions.
CategoryBits(class, tbl, first, n) ==
  [i \in 1 .. n |-> <<<<class, tbl, first + i - 1>>, 1>>]
  \o <<<<<<class, tbl, first + n>>, 0>>>>

\* Encode_DC_DIFF for a nonzero difference: sign, category, pattern.
DcDecisions(tbl, context, diff) ==
  LET v == Magnitude(diff) - 1
      n == Log2(v)
      sign == IF diff > 0 THEN 0 ELSE 1
      Dc(i) == <<"dc", tbl, i>>
      small == Dc(context + 2 + sign)
  IN <<<<Dc(context), 1>>, <<Dc(context + 1), sign>>>>
     \o (IF v = 0 THEN <<<<small, 0>>>>
         ELSE <<<<small, 1>>>> \o CategoryBits("dc", tbl, 20, n)
              \o PatternBits(Dc(20 + n + 14), v, n))

\* Section F.1.4.4.1.2: the conditioning category of a nonzero difference.
DcContext(ci, diff) ==
  LET v == Magnitude(diff) - 1
      m == IF v = 0 THEN 0 ELSE 2 ^ Log2(v)
      base == IF diff > 0 THEN 4 ELSE 8
  IN IF m < (2 ^ ci.L) \div 2 THEN 0
     ELSE IF m > (2 ^ ci.U) \div 2 THEN base + 8 ELSE base

\* One DC coefficient, after the point transform, of component c.
EncodeDc(e, ci, c, m) ==
  LET diff == m - e.last_dc_val[c]
      context == e.dc_context[c]
      tbl == ci.tbl[c]
  IN IF diff = 0
     THEN [arith_encode(e, <<"dc", tbl, context>>, 0) EXCEPT !.dc_context[c] = 0]
     ELSE [EncodeDecisions(e, DcDecisions(tbl, context, diff)) EXCEPT
             !.last_dc_val[c] = m, !.dc_context[c] = DcContext(ci, diff)]

\* encode_mcu_DC_first
encode_mcu_DC_first(e, ci, mcu) ==
  ForBlocks(LAMBDA x, b : EncodeDc(x, ci, ci.MCU_membership[b], DcShifted(mcu[b][0], ci.Al)),
           RestartIfNeeded(e, ci), Len(mcu))

\* The last coefficient up to k that is not zero at precision al, or 0.
LastNonzero(block, k, al) ==
  Max({0} \union {j \in 1 .. k : Shifted(block[j], al) # 0})

Ac(tbl, k, i) == <<"ac", tbl, 3 * (k - 1) + i>>

\* The magnitude of a newly nonzero coefficient.
AcMagnitude(ci, tbl, k, v) ==
  LET n == Log2(v)
      first == IF k <= ci.K THEN 189 ELSE 217
  IN IF v = 0 THEN <<<<Ac(tbl, k, 2), 0>>>>
     ELSE IF v = 1 THEN <<<<Ac(tbl, k, 2), 1>>, <<Ac(tbl, k, 2), 0>>>>
     ELSE <<<<Ac(tbl, k, 2), 1>>, <<Ac(tbl, k, 2), 1>>>>
          \o CategoryBits("ac", tbl, first, n - 1)
          \o PatternBits(<<"ac", tbl, first + n - 1 + 14>>, v, n)

\* Encode_AC_Coefficients of one block, from Ss to Se at precision al.
AcDecisions(ci, tbl, block, Ss, Se, al) ==
  LET ke == LastNonzero(block, Se, al)
      V(k) == Shifted(block[k], al)
      Sign(k) == IF V(k) > 0 THEN 0 ELSE 1
      Coefficient(k) ==
        (IF k = Ss \/ V(k - 1) # 0 THEN <<<<Ac(tbl, k, 0), 0>>>> ELSE <<>>)
        \o (IF V(k) = 0 THEN <<<<Ac(tbl, k, 1), 0>>>>
            ELSE <<<<Ac(tbl, k, 1), 1>>, <<FixedBin, Sign(k)>>>>
                 \o AcMagnitude(ci, tbl, k, Magnitude(V(k)) - 1))
      next == IF ke < Ss THEN Ss ELSE ke + 1
  IN FlattenSeq([i \in 1 .. next - Ss |-> Coefficient(Ss + i - 1)])
     \o (IF next <= Se THEN <<<<Ac(tbl, next, 0), 1>>>> ELSE <<>>)

\* encode_mcu_AC_first
encode_mcu_AC_first(e, ci, mcu) ==
  EncodeDecisions(RestartIfNeeded(e, ci),
                  AcDecisions(ci, ci.tbl[ci.MCU_membership[1]], mcu[1], ci.Ss, ci.Se, ci.Al))

\* encode_mcu_DC_refine
encode_mcu_DC_refine(e, ci, mcu) ==
  EncodeDecisions(RestartIfNeeded(e, ci),
                  [b \in DOMAIN mcu |-> <<FixedBin, Bit(mcu[b][0], ci.Al)>>])

\* Encode_AC_Coefficients_SA of one block.
RefineDecisions(ci, tbl, block) ==
  LET ke == LastNonzero(block, ci.Se, ci.Al)
      kex == LastNonzero(block, ke, ci.Ah)
      V(k) == Shifted(block[k], ci.Al)
      Coefficient(k) ==
        (IF (k = ci.Ss \/ V(k - 1) # 0) /\ k > kex THEN <<<<Ac(tbl, k, 0), 0>>>>
         ELSE <<>>)
        \o (IF V(k) = 0 THEN <<<<Ac(tbl, k, 1), 0>>>>
            ELSE IF Magnitude(V(k)) > 1
            THEN <<<<Ac(tbl, k, 2), Magnitude(V(k)) % 2>>>>
            ELSE <<<<Ac(tbl, k, 1), 1>>, <<FixedBin, IF V(k) > 0 THEN 0 ELSE 1>>>>)
      next == IF ke < ci.Ss THEN ci.Ss ELSE ke + 1
  IN FlattenSeq([i \in 1 .. next - ci.Ss |-> Coefficient(ci.Ss + i - 1)])
     \o (IF next <= ci.Se THEN <<<<Ac(tbl, next, 0), 1>>>> ELSE <<>>)

\* encode_mcu_AC_refine
encode_mcu_AC_refine(e, ci, mcu) ==
  EncodeDecisions(RestartIfNeeded(e, ci),
                  RefineDecisions(ci, ci.tbl[ci.MCU_membership[1]], mcu[1]))

\* encode_mcu
encode_mcu(e, ci, mcu) ==
  LET Block(x, b) ==
        LET c == ci.MCU_membership[b]
            x1 == EncodeDc(x, ci, c, mcu[b][0])
        IN IF ci.lim_Se = 0 THEN x1
           ELSE EncodeDecisions(x1, AcDecisions(ci, ci.tbl[c], mcu[b], 1, ci.lim_Se, 0))
  IN ForBlocks(Block, RestartIfNeeded(e, ci), Len(mcu))

\* start_pass
start_encoder(ci) ==
  [c |-> 0, a |-> 65536, sc |-> 0, zc |-> 0, ct |-> 11, buffer |-> -1,
   stats |-> NoStats, last_dc_val |-> [c \in Components(ci) |-> 0],
   dc_context |-> [c \in Components(ci) |-> 0],
   restarts_to_go |-> ci.restart_interval, next_restart_num |-> 0, out |-> <<>>,
   status |-> "ok"]

encode(e, ci, mcu) ==
  IF ~ci.progressive_mode THEN encode_mcu(e, ci, mcu)
  ELSE IF ci.Ss = 0
  THEN IF ci.Ah = 0 THEN encode_mcu_DC_first(e, ci, mcu) ELSE encode_mcu_DC_refine(e, ci, mcu)
  ELSE IF ci.Ah = 0 THEN encode_mcu_AC_first(e, ci, mcu) ELSE encode_mcu_AC_refine(e, ci, mcu)

-------------------------------------------------------------------------------
(***************************************************************************)
(* Decoder.  bit: the last decision; block: the coefficients of the MCU,   *)
(* in which it works in place; ct = -1 marks an error that lasts until the *)
(* next restart.  This module does not support suspension: the data source *)
(* has the whole file.                                                     *)
(***************************************************************************)
\* One more byte of data; zeros once a marker has been met.
GetData(d) ==
  LET n == NextByte(d.file, d.avail, d.pos)
  IN IF d.unread_marker # 0 THEN <<d, 0>>
     ELSE IF n.kind = "data" THEN <<[d EXCEPT !.pos = n.pos], n.val>>
     ELSE <<[d EXCEPT !.pos = n.pos, !.unread_marker = n.val], 0>>

\* Renormalization and data input; a = 0 asks for the two initial bytes.
RECURSIVE Refill(_)
Refill(d) ==
  IF d.a >= 32768 THEN d
  ELSE IF d.ct > 0 THEN Refill([d EXCEPT !.a = 2 * @, !.ct = @ - 1])
  ELSE LET got == GetData(d)
           ct == d.ct - 1 + 8
           d1 == [got[1] EXCEPT !.c = 256 * @ + got[2]]
       IN IF ct >= 0 THEN Refill([d1 EXCEPT !.a = 2 * @, !.ct = ct])
          ELSE IF ct + 1 = 0 THEN [d1 EXCEPT !.a = 65536, !.ct = 0]
          ELSE Refill([d1 EXCEPT !.ct = ct + 1])

\* The decision in the interval of d, for the statistics st of the bin.
Decision(d, bin, st, qe) ==
  LET rest == d.a - qe
      upper == d.c >= rest * 2 ^ d.ct
      lps == upper # (rest < qe)
      d1 == IF upper THEN [d EXCEPT !.c = @ - rest * 2 ^ d.ct, !.a = qe]
            ELSE [d EXCEPT !.a = rest]
  IN IF ~upper /\ rest >= 32768 THEN [d1 EXCEPT !.bit = st[2]]
     ELSE [d1 EXCEPT !.bit = IF lps THEN 1 - st[2] ELSE st[2],
                     !.stats = bin :> Estimate(st, lps) @@ @]

\* arith_decode
arith_decode(d, bin) ==
  LET st == Statistics(d.stats, bin)
  IN Decision(Refill(d), bin, st, jpeg_aritab[st[1] + 1][1])

\* The way on after a decision.
Branch(d, Zero(_), One(_)) == IF d.bit = 0 THEN Zero(d) ELSE One(d)

BadCode(d) == [d EXCEPT !.ct = -1, !.warned = TRUE]
UnlessBad(d, Rest(_)) == IF d.ct = -1 THEN d ELSE Rest(d)

\* The rest of a magnitude category that is m at bin i: <<decoder, m, bin>>.
RECURSIVE DecodeCategory(_, _, _, _, _)
DecodeCategory(d, class, tbl, i, m) ==
  Branch(arith_decode(d, <<class, tbl, i>>),
         LAMBDA x : <<x, m, i>>,
         LAMBDA x : IF 2 * m = 32768 THEN <<BadCode(x), m, i>>
                    ELSE DecodeCategory(x, class, tbl, i + 1, 2 * m))

\* The pattern below the leading one m of v: <<decoder, v>>.
RECURSIVE DecodePattern(_, _, _, _)
DecodePattern(d, bin, m, v) ==
  IF m <= 1 THEN <<d, v>>
  ELSE Given(arith_decode(d, bin),
             LAMBDA x : DecodePattern(x, bin, m \div 2, v + x.bit * (m \div 2)))

Signed(v, sign) == IF sign = 1 THEN -(v + 1) ELSE v + 1

\* The conditioning category of a difference whose magnitude category is m.
DcCategory(ci, m, sign) ==
  IF m < (2 ^ ci.L) \div 2 THEN 0
  ELSE IF m > (2 ^ ci.U) \div 2 THEN 12 + sign * 4
  ELSE 4 + sign * 4

\* The difference of component c, of the category found.
DcValue(cat, ci, c, sign) ==
  LET m == cat[2]
  IN UnlessBad(cat[1], LAMBDA x :
       Given(DecodePattern(x, <<"dc", ci.tbl[c], cat[3] + 14>>, m, m), LAMBDA pattern :
         [pattern[1] EXCEPT !.dc_context[c] = DcCategory(ci, m, sign),
                            !.last_dc_val[c] = @ + Signed(pattern[2], sign)]))

\* Decode_DC_DIFF for component c.
DecodeDc(d, ci, c) ==
  LET context == d.dc_context[c]
      Dc(i) == <<"dc", ci.tbl[c], i>>
      Category(x, bin) ==
        Branch(arith_decode(x, Dc(bin)), LAMBDA y : <<y, 0, bin>>,
               LAMBDA y : DecodeCategory(y, "dc", ci.tbl[c], 20, 1))
  IN Branch(arith_decode(d, Dc(context)),
            LAMBDA x : [x EXCEPT !.dc_context[c] = 0],
            LAMBDA x : Given(arith_decode(x, Dc(context + 1)), LAMBDA y :
                         DcValue(Category(y, context + 2 + y.bit), ci, c, y.bit)))

\* The sign and magnitude of coefficient k of block b, stored at precision al.
DecodeCoefficient(d, ci, tbl, b, k, al) ==
  LET Category(x) ==
        Branch(arith_decode(x, Ac(tbl, k, 2)), LAMBDA y : <<y, 0, 0>>, LAMBDA y :
          Branch(arith_decode(y, Ac(tbl, k, 2)), LAMBDA z : <<z, 1, 0>>, LAMBDA z :
            DecodeCategory(z, "ac", tbl, IF k <= ci.K THEN 189 ELSE 217, 2)))
      Magnitudes(cat, sign) ==
        UnlessBad(cat[1], LAMBDA x :
          Given(DecodePattern(x, <<"ac", tbl, cat[3] + 14>>, cat[2], cat[2]), LAMBDA pattern :
            [pattern[1] EXCEPT !.block[b][k] = Signed(pattern[2], sign) * 2 ^ al]))
  IN Given(arith_decode(d, FixedBin), LAMBDA x : Magnitudes(Category(x), x.bit))

\* Decode_AC_coefficients from k to Se, with an EOB decision first if eob.
RECURSIVE DecodeAc(_, _, _, _, _, _, _, _)
DecodeAc(d, ci, tbl, b, k, eob, Se, al) ==
  LET Coefficient(x) ==
        Branch(arith_decode(x, Ac(tbl, k, 1)),
               LAMBDA y : DecodeAc(y, ci, tbl, b, k + 1, FALSE, Se, al),
               LAMBDA y : UnlessBad(DecodeCoefficient(y, ci, tbl, b, k, al), LAMBDA z :
                            DecodeAc(z, ci, tbl, b, k + 1, TRUE, Se, al)))
  IN IF k > Se THEN IF eob THEN d ELSE BadCode(d)
     ELSE Branch(IF eob THEN arith_decode(d, Ac(tbl, k, 0)) ELSE [d EXCEPT !.bit = 0],
                 Coefficient, LAMBDA x : x)

\* process_restart
process_restart(d, ci) ==
  LET r == ReadRestartMarker(d)
      dc == IF ~ci.progressive_mode \/ DcTableNeeded(ci) THEN {"dc"} ELSE {}
      ac == IF (~ci.progressive_mode /\ ci.lim_Se # 0) \/ (ci.progressive_mode /\ ci.Ss # 0)
            THEN {"ac"} ELSE {}
  IN [r EXCEPT !.stats = ZeroStats(@, dc \union ac),
               !.last_dc_val = IF dc = {} THEN @ ELSE [c \in DOMAIN @ |-> 0],
               !.dc_context = IF dc = {} THEN @ ELSE [c \in DOMAIN @ |-> 0],
               !.c = 0, !.a = 0, !.ct = -16, !.restarts_to_go = ci.restart_interval]

\* Process restart marker if needed, at the start of every MCU.
ProcessRestartIfNeeded(d, ci) ==
  IF ci.restart_interval = 0 THEN d
  ELSE LET d1 == IF d.restarts_to_go = 0 THEN process_restart(d, ci) ELSE d
       IN [d1 EXCEPT !.restarts_to_go = @ - 1]

\* decode_mcu_DC_first
decode_mcu_DC_first(d, ci) ==
  LET Block(x, b) ==
        LET c == ci.MCU_membership[b]
        IN UnlessBad(DecodeDc(x, ci, c), LAMBDA y :
             [y EXCEPT !.block[b][0] = y.last_dc_val[c] * 2 ^ ci.Al])
  IN ForBlocks(LAMBDA x, b : IF x.ct = -1 THEN x ELSE Block(x, b),
               ProcessRestartIfNeeded(d, ci), Len(d.block))

\* decode_mcu_AC_first
decode_mcu_AC_first(d, ci) ==
  UnlessBad(ProcessRestartIfNeeded(d, ci), LAMBDA start :
    DecodeAc(start, ci, ci.tbl[ci.MCU_membership[1]], 1, ci.Ss, TRUE, ci.Se, ci.Al))

\* decode_mcu_DC_refine
decode_mcu_DC_refine(d, ci) ==
  LET Block(x, b) ==
        Branch(arith_decode(x, FixedBin), LAMBDA y : y,
               LAMBDA y : IF Bit(y.block[b][0], ci.Al) = 0
                          THEN [y EXCEPT !.block[b][0] = @ + 2 ^ ci.Al] ELSE y)
  IN ForBlocks(Block, ProcessRestartIfNeeded(d, ci), Len(d.block))

\* A correction bit increases the absolute value of a coefficient.
Corrected(v, al) == IF v < 0 THEN v - 2 ^ al ELSE v + 2 ^ al

\* The refinement of the coefficients from k; kex: where the block ended before.
RECURSIVE DecodeRefine(_, _, _, _, _, _)
DecodeRefine(d, ci, tbl, k, eob, kex) ==
  LET Next(x, first) == DecodeRefine(x, ci, tbl, k + 1, first, kex)
      Old(x) ==
        Branch(arith_decode(x, Ac(tbl, k, 2)), LAMBDA y : Next(y, TRUE),
               LAMBDA y : Next([y EXCEPT !.block[1][k] = Corrected(@, ci.Al)], TRUE))
      New(x) ==
        Branch(arith_decode(x, Ac(tbl, k, 1)), LAMBDA y : Next(y, FALSE), LAMBDA y :
          Given(arith_decode(y, FixedBin), LAMBDA z :
            Next([z EXCEPT !.block[1][k] = (IF z.bit = 1 THEN -1 ELSE 1) * 2 ^ ci.Al], TRUE)))
  IN IF k > ci.Se THEN IF eob THEN d ELSE BadCode(d)
     ELSE Branch(IF eob /\ k > kex THEN arith_decode(d, Ac(tbl, k, 0)) ELSE [d EXCEPT !.bit = 0],
                 LAMBDA x : IF d.block[1][k] # 0 THEN Old(x) ELSE New(x),
                 LAMBDA x : x)

\* decode_mcu_AC_refine
decode_mcu_AC_refine(d, ci) ==
  LET kex == Max({0} \union {k \in 1 .. ci.Se : d.block[1][k] # 0})
  IN UnlessBad(ProcessRestartIfNeeded(d, ci), LAMBDA start :
       DecodeRefine(start, ci, ci.tbl[ci.MCU_membership[1]], ci.Ss, TRUE, kex))

\* decode_mcu
decode_mcu(d, ci) ==
  LET Block(x, b) ==
        LET c == ci.MCU_membership[b]
            Stored(y) == [y EXCEPT !.block[b][0] = y.last_dc_val[c]]
        IN UnlessBad(DecodeDc(x, ci, c), LAMBDA y :
             IF ci.lim_Se = 0 THEN Stored(y)
             ELSE DecodeAc(Stored(y), ci, ci.tbl[c], b, 1, TRUE, ci.lim_Se, 0))
  IN ForBlocks(LAMBDA x, b : IF x.ct = -1 THEN x ELSE Block(x, b),
               ProcessRestartIfNeeded(d, ci), Len(d.block))

\* start_pass
start_decoder(ci) ==
  [c |-> 0, a |-> 0, ct |-> -16, stats |-> NoStats, bit |-> 0,
   last_dc_val |-> [c \in Components(ci) |-> 0],
   dc_context |-> [c \in Components(ci) |-> 0],
   restarts_to_go |-> ci.restart_interval, next_restart_num |-> 0,
   pos |-> 1, unread_marker |-> 0, warned |-> FALSE, status |-> "ok"]

decode(d, ci) ==
  IF ~ci.progressive_mode THEN decode_mcu(d, ci)
  ELSE IF ci.Ss = 0
  THEN IF ci.Ah = 0 THEN decode_mcu_DC_first(d, ci) ELSE decode_mcu_DC_refine(d, ci)
  ELSE IF ci.Ah = 0 THEN decode_mcu_AC_first(d, ci) ELSE decode_mcu_AC_refine(d, ci)
===============================================================================
