------------------------------ MODULE HuffmanCoder ------------------------------
(***************************************************************************)
(* The Huffman entropy encoder and decoder (jchuff.c, jdhuff.c),           *)
(* sequential and progressive, with their suspension.                      *)
(*                                                                         *)
(* "ci" is what the coders use of cinfo for one scan, as in module         *)
(* ArithmeticCoder, with coef_limit, the number of coefficients the        *)
(* decoder cares about in each component.  The bit buffers are sequences   *)
(* of bits; a code is known by <<class, table, symbol>>.                   *)
(***************************************************************************)
EXTENDS CodedBytes, HuffmanTables

MAX_COEF_BITS == 10
MAX_CORR_BITS == 1000
DCTSIZE2 == 64
MAX_EOBRUN == 32767
MIN_GET_BITS == 25

Magnitude(v) == IF v < 0 THEN -v ELSE v
Bit(v, i) == (v \div 2 ^ i) % 2
BitsOf(v, n) == [i \in 1 .. n |-> Bit(v, n - i)]
\* The value of the first n of some bits.
Value(bits, n) ==
  LET value[i \in 0 .. n] == IF i = 0 THEN 0 ELSE 2 * value[i - 1] + bits[i]
  IN value[n]
NumBits(n) == CHOOSE i \in 0 .. 16 : n < 2 ^ i /\ (i > 0 => 2 ^ (i - 1) <= n)
Shifted(v, al) == IF v < 0 THEN -((-v) \div 2 ^ al) ELSE v \div 2 ^ al
Components(ci) == {ci.MCU_membership[b] : b \in DOMAIN ci.MCU_membership}

\* The appended bits of a value: those of a negative one less 1.
ValueBits(v) == BitsOf(IF v < 0 THEN v - 1 ELSE v, NumBits(Magnitude(v)))

-------------------------------------------------------------------------------
(***************************************************************************)
(* Encoder.  put: the bits not yet written, fewer than 8; BE: the buffered *)
(* correction bits; counts: the counts of a gathering pass; codes: the     *)
(* derived tables, otherwise; error: an ERREXIT, or a write past the end   *)
(* of the correction bit buffer.                                           *)
(***************************************************************************)
RECURSIVE WriteBytes(_, _)
WriteBytes(out, bits) ==
  IF Len(bits) < 8 THEN <<out, bits>>
  ELSE WriteBytes(out \o Stuffed(Value(bits, 8)), SubSeq(bits, 9, Len(bits)))

\* emit_bits, emit_buffered_bits: nothing while gathering statistics.
emit_bits(e, bits) ==
  IF e.gather_statistics THEN e
  ELSE LET w == WriteBytes(e.out, e.put \o bits)
       IN [e EXCEPT !.out = w[1], !.put = w[2]]

\* emit_dc_symbol, emit_ac_symbol: emit or just count.
emit_symbol(e, class, tbl, symbol) ==
  LET key == <<class, tbl, symbol>>
  IN IF e.gather_statistics
     THEN [e EXCEPT !.counts = key :> (IF key \in DOMAIN @ THEN @[key] + 1 ELSE 1) @@ @]
     ELSE IF key \in DOMAIN e.codes
     THEN emit_bits(e, BitsOf(e.codes[key].code, e.codes[key].size))
     ELSE [e EXCEPT !.error = TRUE]

\* Seeded fault: one more bit of padding.
FlushEight(e) == [emit_bits(e, [i \in 1 .. 8 |-> 1]) EXCEPT !.put = <<>>]

\* flush_bits: fill any partial byte with ones.
flush_bits(e) == [emit_bits(e, [i \in 1 .. 7 |-> 1]) EXCEPT !.put = <<>>]

\* emit_eobrun
emit_eobrun(e, ci) ==
  LET nbits == NumBits(e.EOBRUN) - 1
      tbl == ci.tbl[ci.MCU_membership[1]]
      e1 == emit_symbol(e, "ac", tbl, 16 * nbits)
      e2 == emit_bits(e1, BitsOf(e.EOBRUN, nbits) \o e.BE)
  IN IF e.EOBRUN = 0 THEN e
     ELSE IF nbits > 14 THEN [e EXCEPT !.error = TRUE]
     ELSE [e2 EXCEPT !.EOBRUN = 0, !.BE = <<>>]

\* emit_restart: the marker, and what the decoder forgets with it.
emit_restart(e, ci) ==
  LET flushed == flush_bits(IF ci.progressive_mode THEN emit_eobrun(e, ci) ELSE e)
      marked == IF e.gather_statistics THEN flushed
                ELSE [flushed EXCEPT !.out = @ \o <<255, RST0 + e.next_restart_num>>]
  IN IF ci.Ss = 0 THEN [marked EXCEPT !.last_dc_val = [c \in DOMAIN @ |-> 0]]
     ELSE [marked EXCEPT !.EOBRUN = 0, !.BE = <<>>]

RestartIfNeeded(e, ci) ==
  IF ci.restart_interval # 0 /\ e.restarts_to_go = 0 THEN emit_restart(e, ci) ELSE e

\* Update restart-interval state, when the MCU is complete.
CountMcu(e, ci) ==
  IF ci.restart_interval = 0 THEN e
  ELSE IF e.restarts_to_go = 0
  THEN [e EXCEPT !.restarts_to_go = ci.restart_interval - 1,
                 !.next_restart_num = (@ + 1) % 8]
  ELSE [e EXCEPT !.restarts_to_go = @ - 1]

\* A DC difference, after the point transform, of component c.
EmitDc(e, ci, c, value) ==
  LET diff == value - e.last_dc_val[c]
      nbits == NumBits(Magnitude(diff))
      e1 == emit_symbol(e, "dc", ci.tbl[c], nbits)
  IN IF nbits > MAX_COEF_BITS + 1 THEN [e EXCEPT !.error = TRUE]
     ELSE [emit_bits(e1, ValueBits(diff)) EXCEPT !.last_dc_val[c] = value]

\* encode_mcu_DC_first
encode_mcu_DC_first(e, ci, mcu) ==
  CountMcu(ForBlocks(LAMBDA x, b : EmitDc(x, ci, ci.MCU_membership[b],
                                         mcu[b][0] \div 2 ^ ci.Al),
                    RestartIfNeeded(e, ci), Len(mcu)), ci)

\* ZRL codes for a run of more than 15 zeros.
RECURSIVE EmitZrls(_, _, _)
EmitZrls(e, tbl, r) ==
  IF r > 15 THEN EmitZrls(emit_symbol(e, "ac", tbl, 240), tbl, r - 16) ELSE e

\* A nonzero AC coefficient v after r zeros.
EmitAc(e, tbl, r, v) ==
  LET nbits == NumBits(Magnitude(v))
  IN IF nbits > MAX_COEF_BITS THEN [e EXCEPT !.error = TRUE]
     ELSE emit_bits(emit_symbol(EmitZrls(e, tbl, r), "ac", tbl, 16 * (r % 16) + nbits),
                    ValueBits(v))

\* encode_mcu_AC_first, from coefficient k with r zeros before it.
RECURSIVE AcFirstFrom(_, _, _, _, _)
AcFirstFrom(e, ci, block, k, r) ==
  LET v == Shifted(block[k], ci.Al)
      counted == [e EXCEPT !.EOBRUN = @ + 1]
  IN IF e.error THEN e
     ELSE IF k > ci.Se
     THEN IF r = 0 THEN e
          ELSE IF counted.EOBRUN = MAX_EOBRUN THEN emit_eobrun(counted, ci) ELSE counted
     ELSE IF v = 0 THEN AcFirstFrom(e, ci, block, k + 1, r + 1)
     ELSE AcFirstFrom(EmitAc(emit_eobrun(e, ci), ci.tbl[ci.MCU_membership[1]], r, v),
                      ci, block, k + 1, 0)

encode_mcu_AC_first(e, ci, mcu) ==
  CountMcu(AcFirstFrom(RestartIfNeeded(e, ci), ci, mcu[1], ci.Ss, 0), ci)

\* encode_mcu_DC_refine
encode_mcu_DC_refine(e, ci, mcu) ==
  CountMcu(emit_bits(RestartIfNeeded(e, ci), [b \in DOMAIN mcu |-> Bit(mcu[b][0], ci.Al)]),
           ci)

(***************************************************************************)
(* encode_mcu_AC_refine, from coefficient k with r zeros and the           *)
(* correction bits BR before it, which go to the buffer after those of BE. *)
(* EOB: the last newly nonzero coefficient; zeros after it are folded into *)
(* the EOB.                                                                *)
(***************************************************************************)
\* Seeded fault: one more correction bit than there is room for.
MustFlushLater(e) ==
  e.EOBRUN = MAX_EOBRUN \/ Len(e.BE) > MAX_CORR_BITS - DCTSIZE2 + 2

\* Force out the EOB run when it, or the correction bits, could overflow.
MustFlush(e) == e.EOBRUN = MAX_EOBRUN \/ Len(e.BE) > MAX_CORR_BITS - DCTSIZE2 + 1

Buffered(e, BR) ==
  IF Len(e.BE) + Len(BR) > MAX_CORR_BITS THEN [e EXCEPT !.error = TRUE] ELSE e

RECURSIVE AcRefineFrom(_, _, _, _, _, _, _)
AcRefineFrom(e, ci, block, k, r, BR, EOB) ==
  LET tbl == ci.tbl[ci.MCU_membership[1]]
      v == Magnitude(block[k]) \div 2 ^ ci.Al
      zrl == emit_bits(emit_symbol(emit_eobrun(e, ci), "ac", tbl, 240), BR)
      newly == emit_bits(emit_symbol(emit_eobrun(e, ci), "ac", tbl, 16 * r + 1),
                         <<IF block[k] < 0 THEN 0 ELSE 1>> \o BR)
      counted == [e EXCEPT !.EOBRUN = @ + 1, !.BE = @ \o BR]
  IN IF e.error THEN e
     ELSE IF k > ci.Se
     THEN IF r = 0 /\ BR = <<>> THEN e
          ELSE IF MustFlush(counted) THEN emit_eobrun(counted, ci) ELSE counted
     ELSE IF v = 0 THEN AcRefineFrom(e, ci, block, k + 1, r + 1, BR, EOB)
     ELSE IF r > 15 /\ k <= EOB THEN AcRefineFrom(zrl, ci, block, k, r - 16, <<>>, EOB)
     ELSE IF v > 1
     THEN AcRefineFrom(Buffered(e, Append(BR, v % 2)), ci, block, k + 1, r,
                       Append(BR, v % 2), EOB)
     ELSE AcRefineFrom(newly, ci, block, k + 1, 0, <<>>, EOB)

encode_mcu_AC_refine(e, ci, mcu) ==
  LET EOB == Max({0} \union {k \in ci.Ss .. ci.Se :
                               Magnitude(mcu[1][k]) \div 2 ^ ci.Al = 1})
  IN CountMcu(AcRefineFrom(RestartIfNeeded(e, ci), ci, mcu[1], ci.Ss, 0, <<>>, EOB), ci)

\* encode_one_block: the AC coefficients from k, with r zeros before it.
RECURSIVE OneBlockFrom(_, _, _, _, _, _)
OneBlockFrom(e, ci, tbl, block, k, r) ==
  IF e.error THEN e
  ELSE IF k > ci.lim_Se THEN IF r > 0 THEN emit_symbol(e, "ac", tbl, 0) ELSE e
  ELSE IF block[k] = 0 THEN OneBlockFrom(e, ci, tbl, block, k + 1, r + 1)
  ELSE OneBlockFrom(EmitAc(e, tbl, r, block[k]), ci, tbl, block, k + 1, 0)

encode_one_block(e, ci, c, block) ==
  OneBlockFrom(EmitDc(e, ci, c, block[0]), ci, ci.tbl[c], block, 1, 0)

(***************************************************************************)
(* encode_mcu_huff: with free bytes left in the output buffer; when it     *)
(* fills up the encoder suspends, and the whole MCU is done again later.   *)
(***************************************************************************)
encode_mcu_huff(e, ci, mcu, free) ==
  LET done == ForBlocks(LAMBDA x, b : encode_one_block(x, ci, ci.MCU_membership[b], mcu[b]),
                       RestartIfNeeded(e, ci), Len(mcu))
  IN IF Len(done.out) - Len(e.out) < free THEN CountMcu(done, ci)
     ELSE [e EXCEPT !.status = "suspend"]

\* htest_one_block: the symbols encode_one_block will emit, counted.
RECURSIVE TestFrom(_, _, _, _, _, _)
TestFrom(e, ci, tbl, block, k, r) ==
  LET nbits == NumBits(Magnitude(block[k]))
      symbol == 16 * (r % 16) + nbits
  IN IF e.error THEN e
     ELSE IF k > ci.lim_Se THEN IF r > 0 THEN emit_symbol(e, "ac", tbl, 0) ELSE e
     ELSE IF block[k] = 0 THEN TestFrom(e, ci, tbl, block, k + 1, r + 1)
     ELSE IF nbits > MAX_COEF_BITS THEN [e EXCEPT !.error = TRUE]
     ELSE TestFrom(emit_symbol(EmitZrls(e, tbl, r), "ac", tbl, symbol),
                   ci, tbl, block, k + 1, 0)

htest_one_block(e, ci, c, block) ==
  LET nbits == NumBits(Magnitude(block[0] - e.last_dc_val[c]))
  IN IF nbits > MAX_COEF_BITS + 1 THEN [e EXCEPT !.error = TRUE]
     ELSE [TestFrom(emit_symbol(e, "dc", ci.tbl[c], nbits), ci, ci.tbl[c], block, 1, 0)
             EXCEPT !.last_dc_val[c] = block[0]]

\* encode_mcu_gather
encode_mcu_gather(e, ci, mcu) ==
  LET e1 == IF ci.restart_interval # 0 /\ e.restarts_to_go = 0
            THEN [e EXCEPT !.last_dc_val = [c \in DOMAIN @ |-> 0],
                           !.restarts_to_go = ci.restart_interval]
            ELSE e
      e2 == IF ci.restart_interval # 0 THEN [e1 EXCEPT !.restarts_to_go = @ - 1] ELSE e1
  IN ForBlocks(LAMBDA x, b : htest_one_block(x, ci, ci.MCU_membership[b], mcu[b]),
              e2, Len(mcu))

\* finish_pass_huff
finish_pass_huff(e, ci) ==
  flush_bits(IF ci.progressive_mode THEN emit_eobrun(e, ci) ELSE e)

\* finish_pass_gather: one optimal table for each that was counted.
finish_pass_gather(e, ci) ==
  LET counts == (IF ci.progressive_mode THEN emit_eobrun(e, ci) ELSE e).counts
      tables == {<<key[1], key[2]>> : key \in DOMAIN counts}
  IN [t \in tables |->
        jpeg_gen_optimal_table(
          [s \in {key[3] : key \in {x \in DOMAIN counts : <<x[1], x[2]>> = t}} |->
             counts[<<t[1], t[2], s>>]])]

\* start_pass_huff; tables: those of the DHT markers.
MaxSymbol(t) == IF t[1] = "dc" THEN 15 ELSE 255

DerivedCodes(tables) ==
  LET derived == [t \in DOMAIN tables |-> jpeg_make_c_derived_tbl(tables[t], MaxSymbol(t))]
  IN [key \in UNION {{<<t[1], t[2], s>> : s \in DOMAIN derived[t]} : t \in DOMAIN tables} |->
        derived[<<key[1], key[2]>>][key[3]]]

start_pass_huff(ci, gather, tables) ==
  [put |-> <<>>, out |-> <<>>, last_dc_val |-> [c \in Components(ci) |-> 0],
   EOBRUN |-> 0, BE |-> <<>>, gather_statistics |-> gather, counts |-> <<>>,
   codes |-> IF gather THEN <<>> ELSE DerivedCodes(tables),
   error |-> ~gather /\ \E t \in DOMAIN tables :
                             jpeg_make_c_derived_tbl(tables[t], MaxSymbol(t)) = <<>>,
   restarts_to_go |-> ci.restart_interval, next_restart_num |-> 0, status |-> "ok"]

encode(e, ci, mcu, free) ==
  IF ~ci.progressive_mode
  THEN IF e.gather_statistics THEN encode_mcu_gather(e, ci, mcu)
       ELSE encode_mcu_huff(e, ci, mcu, free)
  ELSE IF ci.Ss = 0
  THEN IF ci.Ah = 0 THEN encode_mcu_DC_first(e, ci, mcu) ELSE encode_mcu_DC_refine(e, ci, mcu)
  ELSE IF ci.Ah = 0 THEN encode_mcu_AC_first(e, ci, mcu) ELSE encode_mcu_AC_refine(e, ci, mcu)

-------------------------------------------------------------------------------
(***************************************************************************)
(* Decoder.  get: the bits in the bit buffer; val: the last value read;    *)
(* block: the coefficients of the MCU, in which it works in place; status  *)
(* "suspend": the source has no more data, and everything but the block    *)
(* goes back to what it was at the start of the MCU.                       *)
(***************************************************************************)
\* No more bytes: zero bits are made up, with one warning per segment.
NoMoreBytes(d, nbits) ==
  IF nbits <= Len(d.get) THEN d
  ELSE [d EXCEPT !.warned = TRUE, !.insufficient_data = TRUE,
                 !.get = @ \o [i \in 1 .. MIN_GET_BITS - Len(@) |-> 0]]

\* jpeg_fill_bit_buffer: load at least nbits, and as many as there is room for.
RECURSIVE jpeg_fill_bit_buffer(_, _)
jpeg_fill_bit_buffer(d, nbits) ==
  LET n == NextByte(d.file, d.avail, d.pos)
  IN IF d.unread_marker # 0 THEN NoMoreBytes(d, nbits)
     ELSE IF Len(d.get) >= MIN_GET_BITS THEN d
     ELSE IF n.kind = "starved" THEN [d EXCEPT !.status = "suspend"]
     ELSE IF n.kind = "marker"
     THEN NoMoreBytes([d EXCEPT !.unread_marker = n.val, !.pos = n.pos], nbits)
     ELSE jpeg_fill_bit_buffer([d EXCEPT !.pos = n.pos, !.get = @ \o BitsOf(n.val, 8)], nbits)

Suspended(d) == d.status = "suspend"
Then(d, Rest(_)) == IF Suspended(d) THEN d ELSE Rest(d)

\* CHECK_BIT_BUFFER and GET_BITS.
GetBits(d, n) ==
  Then(IF Len(d.get) < n THEN jpeg_fill_bit_buffer(d, n) ELSE d,
       LAMBDA x : [x EXCEPT !.val = Value(x.get, n), !.get = SubSeq(@, n + 1, Len(@))])

\* jpeg_huff_decode: the rest of a code of which l bits are in val.
RECURSIVE DecodeLonger(_, _, _)
DecodeLonger(d, tbl, l) ==
  IF d.val > tbl.maxcode[l]
  THEN Then(GetBits(d, 1), LAMBDA x :
         DecodeLonger([x EXCEPT !.val = 2 * d.val + @], tbl, l + 1))
  ELSE IF l > 16 THEN [d EXCEPT !.val = 0, !.warned = TRUE]
  ELSE [d EXCEPT !.val = tbl.huffval[@ + tbl.valoffset[l]]]

jpeg_huff_decode(d, tbl, min_bits) ==
  Then(GetBits(d, min_bits), LAMBDA x : DecodeLonger(x, tbl, min_bits))

\* HUFF_DECODE: by the lookahead table, when there are bits enough for it.
LookUp(d, tbl) ==
  LET short == {l \in 1 .. HUFF_LOOKAHEAD : <<l, Value(d.get, l)>> \in DOMAIN tbl.look}
      nb == Min(short)
  IN IF Len(d.get) < HUFF_LOOKAHEAD THEN jpeg_huff_decode(d, tbl, 1)
     ELSE IF short = {} THEN jpeg_huff_decode(d, tbl, HUFF_LOOKAHEAD + 1)
     ELSE [d EXCEPT !.val = tbl.look[<<nb, Value(d.get, nb)>>],
                    !.get = SubSeq(@, nb + 1, Len(@))]

HuffDecode(d, tbl) ==
  Then(IF Len(d.get) < HUFF_LOOKAHEAD THEN jpeg_fill_bit_buffer(d, 0) ELSE d,
       LAMBDA x : LookUp(x, tbl))

\* HUFF_EXTEND
Extended(x, s) == IF s > 0 /\ x < 2 ^ (s - 1) THEN x - (2 ^ s - 1) ELSE x

\* The value of s appended bits.
GetValue(d, s) ==
  IF s = 0 THEN [d EXCEPT !.val = 0]
  ELSE Then(GetBits(d, s), LAMBDA x : [x EXCEPT !.val = Extended(@, s)])

\* The r bits of an EOB run.
GetRun(d, r) == IF r = 0 THEN [d EXCEPT !.val = 0] ELSE GetBits(d, r)

(***************************************************************************)
(* A coefficient past the last one, which only a damaged file asks for,    *)
(* goes where the extra entries of natural_order send it: to the last one  *)
(* of a full-size block, outside of a smaller one.                         *)
(***************************************************************************)
Position(ci, k) == IF k <= ci.lim_Se THEN k ELSE DCTSIZE2 - 1
Store(d, ci, b, k, v) ==
  IF Position(ci, k) <= ci.lim_Se THEN [d EXCEPT !.block[b][Position(ci, k)] = v] ELSE d

DcTable(d, ci, c) == d.tables[<<"dc", ci.tbl[c]>>]
AcTable(d, ci, c) == d.tables[<<"ac", ci.tbl[c]>>]

\* Seeded fault: a segment that ran out of data leaves the next one without.
RestartStillShort(d, ci) ==
  LET r == ReadRestartMarker([d EXCEPT !.warned = @ \/ Len(d.get) >= 8, !.get = <<>>])
  IN IF Suspended(r) THEN r
     ELSE [r EXCEPT !.last_dc_val = [c \in DOMAIN @ |-> 0], !.EOBRUN = 0,
                    !.restarts_to_go = ci.restart_interval]
\* process_restart
process_restart(d, ci) ==
  LET r == ReadRestartMarker([d EXCEPT !.warned = @ \/ Len(d.get) >= 8, !.get = <<>>])
  IN IF Suspended(r) THEN r
     ELSE [r EXCEPT !.last_dc_val = [c \in DOMAIN @ |-> 0], !.EOBRUN = 0,
                    !.restarts_to_go = ci.restart_interval,
                    !.insufficient_data = @ /\ r.unread_marker # 0]

ProcessRestartIfNeeded(d, ci) ==
  IF ci.restart_interval # 0 /\ d.restarts_to_go = 0 THEN process_restart(d, ci) ELSE d

\* Account for restart interval (restarts_to_go is not used without restarts).
Counted(d, ci) ==
  IF ci.restart_interval = 0 THEN d ELSE [d EXCEPT !.restarts_to_go = @ - 1]

\* On suspension everything but the coefficients is as at the start.
Ended(start, done, ci) ==
  IF Suspended(done) THEN [start EXCEPT !.block = done.block, !.status = "suspend"]
  ELSE Counted(done, ci)

(***************************************************************************)
(* What every MCU does, from the state start it has after the restart to   *)
(* the state done once decoded: the effects of the restart last even if    *)
(* the MCU suspends, and nothing is decoded when the segment has run out   *)
(* of data.                                                                *)
(***************************************************************************)
Mcu(start, done, ci) ==
  IF Suspended(start) THEN start
  ELSE IF start.insufficient_data THEN Counted(start, ci)
  ELSE Ended(start, done, ci)

\* The DC coefficient of block b.
DecodeDc(d, ci, b) ==
  LET c == ci.MCU_membership[b]
  IN Then(HuffDecode(d, DcTable(d, ci, c)), LAMBDA x :
       Then(GetValue(x, x.val), LAMBDA y :
         LET dc == y.val + y.last_dc_val[c]
         IN Store([y EXCEPT !.last_dc_val[c] = dc], ci, b, 0, dc * 2 ^ ci.Al)))

\* decode_mcu_DC_first
decode_mcu_DC_first(d, ci) ==
  LET start == ProcessRestartIfNeeded(d, ci)
  IN Mcu(start, ForBlocks(LAMBDA x, b : Then(x, LAMBDA y : DecodeDc(y, ci, b)),
                          start, Len(d.block)), ci)

\* decode_mcu_AC_first, from coefficient k.
RECURSIVE DecodeAcFirst(_, _, _)
DecodeAcFirst(d, ci, k) ==
  IF k > ci.Se THEN d
  ELSE Then(HuffDecode(d, AcTable(d, ci, ci.MCU_membership[1])), LAMBDA x :
         LET r == x.val \div 16
             s == x.val % 16
         IN IF s # 0
            THEN Then(GetValue(x, s), LAMBDA y :
                   DecodeAcFirst(Store(y, ci, 1, k + r, y.val * 2 ^ ci.Al), ci, k + r + 1))
            ELSE IF r = 15 THEN DecodeAcFirst(x, ci, k + 16)
            ELSE Then(GetRun(x, r), LAMBDA y : [y EXCEPT !.EOBRUN = 2 ^ r + y.val - 1]))

decode_mcu_AC_first(d, ci) ==
  LET start == ProcessRestartIfNeeded(d, ci)
  IN Mcu(start, IF start.EOBRUN > 0 THEN [start EXCEPT !.EOBRUN = @ - 1]
                ELSE DecodeAcFirst(start, ci, ci.Ss), ci)

\* decode_mcu_DC_refine, which does not look at insufficient_data.
decode_mcu_DC_refine(d, ci) ==
  LET Refined(x, b) ==
        Then(GetBits(x, 1), LAMBDA y :
          IF y.val = 0 \/ Bit(y.block[b][0], ci.Al) = 1 THEN y
          ELSE [y EXCEPT !.block[b][0] = @ + 2 ^ ci.Al])
      start == ProcessRestartIfNeeded(d, ci)
  IN IF Suspended(start) THEN start
     ELSE Ended(start, ForBlocks(LAMBDA x, b : Then(x, LAMBDA y : Refined(y, b)),
                                 start, Len(d.block)), ci)

\* Seeded fault: a correction is made again when the MCU is.
CorrectAgain(d, ci, k) ==
  Then(GetBits(d, 1), LAMBDA x :
    IF x.val = 0 THEN x
    ELSE [x EXCEPT !.block[1][k] = IF @ >= 0 THEN @ + 2 ^ ci.Al ELSE @ - 2 ^ ci.Al])

(***************************************************************************)
(* A correction bit for coefficient k, unless a suspended call has already *)
(* added it.                                                               *)
(***************************************************************************)
Correct(d, ci, k) ==
  Then(GetBits(d, 1), LAMBDA x :
    IF x.val = 0 \/ Bit(x.block[1][k], ci.Al) = 1 THEN x
    ELSE [x EXCEPT !.block[1][k] = IF @ >= 0 THEN @ + 2 ^ ci.Al ELSE @ - 2 ^ ci.Al])

(***************************************************************************)
(* Advance over already-nonzero coefficients and r still-zero ones: the    *)
(* decoder, and in "k" where it is.                                        *)
(***************************************************************************)
RECURSIVE AdvanceOver(_, _, _, _)
AdvanceOver(d, ci, k, r) ==
  IF k > ci.Se THEN [d EXCEPT !.k = k]
  ELSE IF d.block[1][k] # 0
  THEN Then(Correct(d, ci, k), LAMBDA x : AdvanceOver(x, ci, k + 1, r))
  ELSE IF r = 0 THEN [d EXCEPT !.k = k] ELSE AdvanceOver(d, ci, k + 1, r - 1)

\* The correction bits after the end of the band.
RECURSIVE CorrectRest(_, _, _)
CorrectRest(d, ci, k) ==
  IF k > ci.Se \/ Suspended(d) THEN d
  ELSE CorrectRest(IF d.block[1][k] # 0 THEN Correct(d, ci, k) ELSE d, ci, k + 1)

\* Coefficient k becomes nonzero.
NewlyNonzero(d, ci, k, v) ==
  Store([d EXCEPT !.newnz = @ \union {Position(ci, k)}], ci, 1, k, v)

\* The band from coefficient k, up to an EOB; newnz: the newly nonzero ones.
RECURSIVE DecodeAcRefine(_, _, _)
DecodeAcRefine(d, ci, k) ==
  IF k > ci.Se THEN d
  ELSE Then(HuffDecode(d, AcTable(d, ci, ci.MCU_membership[1])), LAMBDA x :
         LET r == x.val \div 16
             s == x.val % 16
         IN IF s # 0
            THEN Then(GetBits(x, 1), LAMBDA y :
                   Then(AdvanceOver([y EXCEPT !.warned = @ \/ s # 1], ci, k, r), LAMBDA z :
                     DecodeAcRefine(NewlyNonzero(z, ci, z.k, (IF y.val = 1 THEN 1 ELSE -1) * 2 ^ ci.Al),
                                    ci, z.k + 1)))
            ELSE IF r = 15
            THEN Then(AdvanceOver(x, ci, k, 15), LAMBDA y : DecodeAcRefine(y, ci, y.k + 1))
            ELSE Then(GetRun(x, r), LAMBDA y :
                   CorrectRest([y EXCEPT !.EOBRUN = 2 ^ r + y.val], ci, k)))

\* Re-zero any coefficients that a suspended call made newly nonzero.
Undo(d) ==
  [d EXCEPT !.block[1] = [k \in DOMAIN @ |-> IF k \in d.newnz THEN 0 ELSE @[k]]]

\* The end of decode_mcu_AC_refine.
Refined(d) ==
  IF Suspended(d) THEN Undo(d)
  ELSE [d EXCEPT !.EOBRUN = IF @ > 0 THEN @ - 1 ELSE 0, !.newnz = {}, !.k = 0]

\* decode_mcu_AC_refine
decode_mcu_AC_refine(d, ci) ==
  LET start == ProcessRestartIfNeeded(d, ci)
  IN Mcu(start, Refined(IF start.EOBRUN > 0 THEN CorrectRest(start, ci, ci.Ss)
                        ELSE DecodeAcRefine([start EXCEPT !.newnz = {}], ci, ci.Ss)), ci)

\* The AC coefficients of block b from k; from limit on they are discarded.
RECURSIVE DecodeAc(_, _, _, _, _)
DecodeAc(d, ci, b, k, limit) ==
  IF k > ci.lim_Se THEN d
  ELSE Then(HuffDecode(d, AcTable(d, ci, ci.MCU_membership[b])), LAMBDA x :
         LET r == x.val \div 16
             s == x.val % 16
         IN IF s # 0
            THEN Then(GetValue(x, s), LAMBDA y :
                   DecodeAc(IF k < limit THEN Store(y, ci, b, k + r, y.val) ELSE y,
                            ci, b, k + r + 1, limit))
            ELSE IF r = 15 THEN DecodeAc(x, ci, b, k + 16, limit) ELSE x)

\* One block: of a component nobody needs even the DC coefficient is discarded.
DecodeBlock(d, ci, b) ==
  LET c == ci.MCU_membership[b]
      limit == ci.coef_limit[c]
  IN Then(IF limit > 0 THEN DecodeDc(d, ci, b)
          ELSE Then(HuffDecode(d, DcTable(d, ci, c)), LAMBDA x : GetValue(x, x.val)),
          LAMBDA x : DecodeAc(x, ci, b, 1, limit))

\* decode_mcu_sub, and decode_mcu for full-size blocks.
decode_mcu(d, ci) ==
  LET start == ProcessRestartIfNeeded(d, ci)
  IN Mcu(start, ForBlocks(LAMBDA x, b : Then(x, LAMBDA y : DecodeBlock(y, ci, b)),
                          start, Len(d.block)), ci)

\* start_pass_huff_decoder
start_pass_huff_decoder(ci, tables) ==
  [get |-> <<>>, val |-> 0, last_dc_val |-> [c \in Components(ci) |-> 0], EOBRUN |-> 0,
   insufficient_data |-> FALSE, newnz |-> {}, k |-> 0,
   tables |-> [t \in DOMAIN tables |-> jpeg_make_d_derived_tbl(tables[t])],
   restarts_to_go |-> ci.restart_interval, next_restart_num |-> 0,
   pos |-> 1, unread_marker |-> 0, warned |-> FALSE, status |-> "ok"]

decode(d, ci) ==
  IF ~ci.progressive_mode THEN decode_mcu(d, ci)
  ELSE IF ci.Ss = 0
  THEN IF ci.Ah = 0 THEN decode_mcu_DC_first(d, ci) ELSE decode_mcu_DC_refine(d, ci)
  ELSE IF ci.Ah = 0 THEN decode_mcu_AC_first(d, ci) ELSE decode_mcu_AC_refine(d, ci)
===============================================================================
