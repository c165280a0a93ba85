------------------------------ MODULE Datastream ------------------------------
(***************************************************************************)
(* What a JPEG datastream says, segment by segment: the bytes a segment is *)
(* written as, and what a decoder that has read it knows.  This is the     *)
(* standard's side of MarkerReader, written without regard to how the      *)
(* bytes are read.                                                         *)
(***************************************************************************)
EXTENDS Integers, Sequences, SequencesExt

CONSTANTS
  DCTSIZE2,         \* entries of a quantization table: 64 in the standard
  NUM_ARITH_TBLS    \* conditioning tables of each class: 16 in the code

\* A segment is a record with a field m naming its kind.
SOI == [m |-> "SOI"]
EOI == [m |-> "EOI"]
TEM == [m |-> "TEM"]
Restart(n) == [m |-> "RST", n |-> n]
Pad(n) == [m |-> "pad", n |-> n]                    \* fill bytes
Garbage(bytes) == [m |-> "garbage", bytes |-> bytes]
Codes(code, bytes) == [m |-> "codes", code |-> code, bytes |-> bytes]  \* an MCU's code
DRI(interval) == [m |-> "DRI", interval |-> interval]
DQT(tables) == [m |-> "DQT", tables |-> tables]     \* [slot, prec, vals]
DHT(class, slot, vals) == [m |-> "DHT", class |-> class, slot |-> slot, vals |-> vals]
DAC(pairs) == [m |-> "DAC", pairs |-> pairs]        \* [class, slot, value]
SOF(width, height, comps) ==
  [m |-> "SOF", width |-> width, height |-> height, comps |-> comps]   \* <<id, hv, tq>>
SOS(comps, Ss, Se, AhAl) ==                         \* <<id, position in SOF, tables>>
  [m |-> "SOS", comps |-> comps, Ss |-> Ss, Se |-> Se, AhAl |-> AhAl]
JFIFSeg(major, minor, unit, X, Y, extra) ==
  [m |-> "JFIF", values |-> <<major, minor, unit, X, Y>>, extra |-> extra]
AdobeSeg(transform) == [m |-> "Adobe", transform |-> transform]
Other(code, data) == [m |-> "other", code |-> code, data |-> data]     \* APPn, COM, DNL

-------------------------------------------------------------------------------
(* Bytes                                                                   *)

Word(n) == <<n \div 256, n % 256>>
WithLength(code, body) == <<255, code>> \o Word(Len(body) + 2) \o body
Concat(seqs) ==
  LET First[i \in 0 .. Len(seqs)] == IF i = 0 THEN <<>> ELSE First[i - 1] \o seqs[i]
  IN First[Len(seqs)]
Each(Op(_), seq) == Concat([i \in DOMAIN seq |-> Op(seq[i])])

Data(s) ==
  CASE s.m = "JFIF" -> <<74, 70, 73, 70, 0>> \o SubSeq(s.values, 1, 3) \o Word(s.values[4])
                       \o Word(s.values[5]) \o <<0, 0>> \o s.extra
    [] s.m = "Adobe" -> <<65, 100, 111, 98, 101, 0, 100, 0, 0, 0, 0, s.transform>>
    [] s.m = "other" -> s.data

Code(s) == CASE s.m = "JFIF" -> 224 [] s.m = "Adobe" -> 238 [] s.m = "other" -> s.code

Table(t) == <<16 * t.prec + t.slot - 1>> \o (IF t.prec = 0 THEN t.vals ELSE Each(Word, t.vals))
Bits(n) == [i \in 1 .. 16 |-> IF i = 2 THEN n ELSE 0]
Pair(c) == IF c.class = "dc" THEN <<c.slot - 1, 16 * c.value[2] + c.value[1]>>
           ELSE <<c.slot + NUM_ARITH_TBLS - 1, c.value>>

Bytes(s) ==
  CASE s.m = "SOI" -> <<255, 216>>
    [] s.m = "EOI" -> <<255, 217>>
    [] s.m = "TEM" -> <<255, 1>>
    [] s.m = "RST" -> <<255, 208 + (s.n % 8)>>
    [] s.m = "pad" -> [i \in 1 .. s.n |-> 255]
    [] s.m \in {"garbage", "codes"} -> s.bytes
    [] s.m = "DRI" -> WithLength(221, Word(s.interval))
    [] s.m = "DQT" -> WithLength(219, Each(Table, s.tables))
    [] s.m = "DHT" -> WithLength(196, <<s.slot - 1 + (IF s.class = "ac" THEN 16 ELSE 0)>>
                                      \o Bits(Len(s.vals)) \o s.vals)
    [] s.m = "DAC" -> WithLength(204, Each(Pair, s.pairs))
    [] s.m = "SOF" -> WithLength(194, <<8>> \o Word(s.height) \o Word(s.width)
                                      \o <<Len(s.comps)>> \o Concat(s.comps))
    [] s.m = "SOS" -> WithLength(218, <<Len(s.comps)>>
                                      \o Each(LAMBDA c : <<c[1], c[3]>>, s.comps)
                                      \o <<s.Ss, s.Se, s.AhAl>>)
    [] OTHER -> WithLength(Code(s), Data(s))

Written(segs) == Each(Bytes, segs)

\* For each byte, the MCU it is the code of, or 0.
Homes(segs) ==
  Each(LAMBDA s : [i \in DOMAIN Bytes(s) |-> IF s.m = "codes" THEN s.code ELSE 0], segs)

-------------------------------------------------------------------------------
(* Meaning                                                                 *)

Filled(vals) == [i \in 1 .. DCTSIZE2 |-> IF i <= Len(vals) THEN vals[i] ELSE 1]

\* What is known after the segment s, when par was known before it.
Meaning(par, s) ==
  CASE s.m = "SOI" ->
         [par EXCEPT !.arith_dc = [i \in 1 .. NUM_ARITH_TBLS |-> <<0, 1>>],
                     !.arith_ac_K = [i \in 1 .. NUM_ARITH_TBLS |-> 5], !.restart_interval = 0,
                     !.saw_JFIF_marker = FALSE, !.JFIF = <<1, 1, 0, 1, 1>>,
                     !.saw_Adobe_marker = FALSE, !.Adobe_transform = 0, !.saw_SOI = TRUE]
    [] s.m = "DRI" -> [par EXCEPT !.restart_interval = s.interval]
    [] s.m = "DQT" ->
         FoldLeft(LAMBDA a, t : [a EXCEPT !.quant[t.slot] = Filled(t.vals)], par, s.tables)
    [] s.m = "DHT" ->
         IF s.class = "dc" THEN [par EXCEPT !.dc_huff[s.slot] = <<Bits(Len(s.vals)), s.vals>>]
         ELSE [par EXCEPT !.ac_huff[s.slot] = <<Bits(Len(s.vals)), s.vals>>]
    [] s.m = "DAC" ->
         FoldLeft(LAMBDA a, c : IF c.class = "dc" THEN [a EXCEPT !.arith_dc[c.slot] = c.value]
                                ELSE [a EXCEPT !.arith_ac_K[c.slot] = c.value],
                  par, s.pairs)
    [] s.m = "SOF" ->
         [par EXCEPT !.coding = <<FALSE, TRUE, FALSE>>, !.data_precision = 8,
                     !.image_height = s.height, !.image_width = s.width,
                     !.num_components = Len(s.comps), !.saw_SOF = TRUE,
                     !.comp_info = [i \in DOMAIN @ |-> IF i <= Len(s.comps) THEN s.comps[i]
                                                       ELSE @[i]]]
    [] s.m = "SOS" ->
         [par EXCEPT !.comps_in_scan = Len(s.comps), !.Ss = s.Ss, !.Se = s.Se,
                     !.AhAl = s.AhAl, !.next_restart_num = 0,
                     !.input_scan_number = @ + (IF s.comps = <<>> THEN 0 ELSE 1),
                     !.cur_comp_info = [i \in DOMAIN @ |->
                        IF i <= Len(s.comps) THEN <<s.comps[i][2], s.comps[i][3]>> ELSE @[i]]]
    [] s.m = "JFIF" -> [par EXCEPT !.saw_JFIF_marker = TRUE, !.JFIF = s.values]
    [] s.m = "Adobe" -> [par EXCEPT !.saw_Adobe_marker = TRUE, !.Adobe_transform = s.transform]
    [] OTHER -> par

MeaningOf(par, segs) == FoldLeft(Meaning, par, segs)
===============================================================================
