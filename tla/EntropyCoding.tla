---------------------------- MODULE EntropyCoding ----------------------------
(***************************************************************************)
(* The scans of an image on their way through an entropy encoder and an    *)
(* entropy decoder.  For each scan the encoder first counts the symbols of *)
(* all MCUs when the Huffman tables are optimized (the huff_opt pass of    *)
(* jcmaster.c), then codes them, suspending when the output buffer is      *)
(* full; the file then arrives at the decoder, which suspends when it      *)
(* needs bytes that have not come; bytes of one restart interval may be    *)
(* damaged or lost on the way.                                             *)
(*                                                                         *)
(* A job is an image, as a sequence of blocks, with the way it is coded:   *)
(*   arith       cinfo->arith_code                                         *)
(*   optimize    cinfo->optimize_coding                                    *)
(*   blocks      the coefficients, functions from 0 .. lim_Se              *)
(*   component   the component of each block                               *)
(*   scans       the scans: ci of module HuffmanCoder, with mcus, the      *)
(*               blocks of each MCU                                        *)
(*   tables      the Huffman tables of a file that does not optimize       *)
(*   counted     counts of the part of the image whose coding the model    *)
(*               does not follow (the blocks are too many)                 *)
(*   blanks      number of MCUs without coefficients before the blocks, in *)
(*               each AC scan                                              *)
(*   free        room in the output buffer at each call, in bytes; where   *)
(*               the encoder cannot suspend, too little ends the image       *)
(*   arriving    bytes that arrive at a time; empty when all are there     *)
(*   harm        what happens to the bytes: "none", "lost", or "changed"   *)
(***************************************************************************)
EXTENDS Integers, Sequences, FiniteSets, TLC
Arith == INSTANCE ArithmeticCoder
Huff == INSTANCE HuffmanCoder

CONSTANTS
  Jobs,    \* a set of jobs
  Wrong    \* the values a damaged byte may have

VARIABLES
  job,     \* one of Jobs
  scan,    \* which of its scans
  phase,   \* "start", "gather", "encode", "transmit", "decode", "finished", "failed"
  mcu,     \* the next MCU of the pass
  enc,     \* the entropy encoder
  tables,  \* the Huffman tables of the scan
  file,    \* the entropy-coded data of the scan with the marker after it
  harmed,  \* the restart interval that was damaged, 0: none
  dec,     \* the entropy decoder
  image    \* the decoder's coefficients

vars == <<job, scan, phase, mcu, enc, tables, file, harmed, dec, image>>

Ci == job.scans[scan]
McuCount == Len(Ci.mcus)
Source(m) == [b \in DOMAIN Ci.mcus[m] |-> job.blocks[Ci.mcus[m][b]]]

\* EOI after the last scan, SOS after the others.
EndMarker == IF scan = Len(job.scans) THEN 217 ELSE 218

\* The huff_opt pass is made for scans that use a Huffman table.
Gathers(j, ci) == ~j.arith /\ j.optimize /\ (ci.Ss # 0 \/ ci.Ah = 0)

\* The blank MCUs before the blocks of an AC scan, which are only counted.
Blanks(j, ci) == IF ci.Ss = 0 THEN 0 ELSE j.blanks

Encoder(j, ci, gather, tbls) ==
  IF j.arith THEN Arith!start_encoder(ci)
  ELSE LET e == Huff!start_pass_huff(ci, gather, tbls)
       IN [e EXCEPT !.EOBRUN = Blanks(j, ci),
                    !.counts = IF gather THEN j.counted ELSE <<>>]

ZeroBlock(j) == [k \in DOMAIN j.blocks[1] |-> 0]

Init ==
  /\ job \in Jobs
  /\ scan = 0 /\ phase = "start" /\ mcu = 1
  /\ enc = <<>> /\ tables = <<>> /\ file = <<>> /\ dec = <<>> /\ harmed = 0
  /\ image = [b \in DOMAIN job.blocks |-> ZeroBlock(job)]

-------------------------------------------------------------------------------
\* start_pass of the encoder, for the first pass over the scan.
StartScan ==
  /\ phase \in {"start", "finished"} /\ scan < Len(job.scans)
  /\ scan' = scan + 1
  /\ LET ci == job.scans[scan + 1]
     IN /\ phase' = IF Gathers(job, ci) THEN "gather" ELSE "encode"
        /\ enc' = Encoder(job, ci, Gathers(job, ci), job.tables)
  /\ tables' = job.tables
  /\ mcu' = 1 /\ file' = <<>> /\ dec' = <<>> /\ harmed' = 0
  /\ UNCHANGED <<job, image>>

\* The gathering pass: one MCU, and the tables at the end.
GatherMCU ==
  /\ phase = "gather" /\ mcu <= McuCount
  /\ enc' = Huff!encode(enc, Ci, Source(mcu), 0)
  /\ mcu' = mcu + 1
  /\ UNCHANGED <<job, scan, phase, tables, file, harmed, dec, image>>

\* An ERREXIT of the encoder; the application gives the image up.
EncoderFails ==
  /\ phase' = "failed"
  /\ UNCHANGED <<mcu, enc, tables, file>>

FinishGather ==
  /\ phase = "gather" /\ mcu > McuCount
  /\ \E optimal \in {Huff!finish_pass_gather(enc, Ci)} :
       IF \E t \in DOMAIN optimal : optimal[t] = <<>> THEN EncoderFails
       ELSE /\ tables' = optimal
            /\ enc' = Encoder(job, Ci, FALSE, optimal)
            /\ phase' = "encode" /\ mcu' = 1
            /\ UNCHANGED file
  /\ UNCHANGED <<job, scan, harmed, dec, image>>

(***************************************************************************)
(* The coding pass: the sequential Huffman coder may suspend and is called *)
(* again with the same MCU; the application has emptied the buffer then.   *)
(* The other coders, and finish_pass of all, cannot suspend: a destination *)
(* that has no room for a byte of theirs is an error.                      *)
(***************************************************************************)
Room(done, free) == Len(done.out) - Len(enc.out) < free

Encoded(free) ==
  IF job.arith THEN Arith!encode(enc, Ci, Source(mcu))
  ELSE Huff!encode([enc EXCEPT !.status = "ok"], Ci, Source(mcu), free)

EncodeMCU ==
  /\ phase = "encode" /\ mcu <= McuCount
  /\ \E free \in job.free : \E done \in {Encoded(free)} :
       IF Room(done, free)
       THEN /\ enc' = done
            /\ mcu' = IF done.status = "suspend" THEN mcu ELSE mcu + 1
            /\ UNCHANGED <<phase, tables, file>>
       ELSE EncoderFails
  /\ UNCHANGED <<job, scan, harmed, dec, image>>

FinishPass ==
  /\ phase = "encode" /\ mcu > McuCount
  /\ \E free \in job.free : \E done \in
          {IF job.arith THEN Arith!finish_pass(enc) ELSE Huff!finish_pass_huff(enc, Ci)} :
       IF Room(done, free)
       THEN /\ enc' = done
            /\ file' = done.out \o <<255, EndMarker>>
            /\ phase' = "transmit"
            /\ UNCHANGED <<mcu, tables>>
       ELSE EncoderFails
  /\ UNCHANGED <<job, scan, harmed, dec, image>>

(***************************************************************************)
(* The way to the decoder.  The restart intervals are separated by the     *)
(* markers, which arrive; in one of them the bytes from some place on are  *)
(* lost, or one byte is changed.  Neither makes a new marker.              *)
(***************************************************************************)
MarkersBefore(p) ==
  Cardinality({q \in 1 .. p - 1 : file[q] = 255 /\ file[q + 1] # 0})

Decoder(f) ==
  (IF job.arith THEN Arith!start_decoder(Ci) ELSE Huff!start_pass_huff_decoder(Ci, tables))
  @@ [file |-> f, avail |-> IF job.arriving = {} THEN Len(f) ELSE 0, block |-> <<>>]

\* The places whose byte can be hurt without touching a marker.
Places ==
  {p \in DOMAIN file : file[p] # 255 /\ (p = 1 \/ file[p - 1] # 255)}

\* Only the last scan is hurt.
Harm == IF scan = Len(job.scans) THEN job.harm ELSE "none"

Transmit ==
  /\ phase = "transmit"
  /\ \/ /\ Harm = "none" \/ Places = {}
        /\ UNCHANGED <<file, harmed>>
     \/ /\ Harm = "lost"
        /\ \E p \in Places :
             LET next == Huff!Min({q \in p .. Len(file) - 1 : file[q] = 255 /\ file[q + 1] # 0})
             IN file' = SubSeq(file, 1, p - 1) \o SubSeq(file, next, Len(file))
                /\ harmed' = MarkersBefore(p) + 1
     \/ /\ Harm = "changed"
        /\ \E p \in Places : \E v \in Wrong :
             file' = [file EXCEPT ![p] = v] /\ harmed' = MarkersBefore(p) + 1
  /\ dec' = Decoder(file')
  /\ phase' = "decode" /\ mcu' = IF Blanks(job, Ci) > 0 THEN 0 ELSE 1
  /\ UNCHANGED <<job, scan, enc, tables, image>>

Arrive ==
  /\ phase = "decode" /\ dec.status = "suspend"
  /\ \E n \in job.arriving :
       /\ dec.avail < Len(file)
       /\ dec' = [dec EXCEPT !.avail = IF @ + n > Len(file) THEN Len(file) ELSE @ + n,
                             !.status = "ok"]
  /\ UNCHANGED <<job, scan, phase, mcu, enc, tables, file, harmed, image>>

\* decode_mcu, in place on the coefficients of the MCU.
DecodeMCU ==
  /\ phase = "decode" /\ mcu \in 1 .. McuCount /\ dec.status = "ok"
  /\ LET blocks == Ci.mcus[mcu]
         start == [dec EXCEPT !.block = [b \in DOMAIN blocks |-> image[blocks[b]]]]
     IN \E done \in {IF job.arith THEN Arith!decode(start, Ci) ELSE Huff!decode(start, Ci)} :
          /\ dec' = [done EXCEPT !.block = <<>>]
          /\ image' = [i \in DOMAIN image |->
                         IF \E b \in DOMAIN blocks : blocks[b] = i
                         THEN done.block[CHOOSE b \in DOMAIN blocks : blocks[b] = i]
                         ELSE image[i]]
          /\ mcu' = IF done.status = "suspend" THEN mcu ELSE mcu + 1
  /\ UNCHANGED <<job, scan, phase, enc, tables, file, harmed>>

\* The blank MCUs: the first one reads the run, the others count it down.
DecodeBlanks ==
  /\ phase = "decode" /\ mcu = 0 /\ dec.status = "ok"
  /\ \E done \in {Huff!decode([dec EXCEPT !.block = <<ZeroBlock(job)>>], Ci)} :
       /\ done.EOBRUN >= Blanks(job, Ci) - 1
       /\ dec' = [done EXCEPT !.block = <<>>, !.EOBRUN = @ - (Blanks(job, Ci) - 1)]
  /\ mcu' = 1
  /\ UNCHANGED <<job, scan, phase, enc, tables, file, harmed, image>>

\* The marker after the scan: read_markers takes it, or looks for it.
FinishScan ==
  /\ phase = "decode" /\ mcu > McuCount
  /\ LET m == Huff!NextMarker(file, Len(file), dec.pos)
     IN dec' = IF dec.unread_marker # 0 THEN dec
               ELSE [dec EXCEPT !.unread_marker = m.val, !.pos = m.pos,
                                !.warned = @ \/ m.skipped]
  /\ phase' = "finished"
  /\ UNCHANGED <<job, scan, mcu, enc, tables, file, harmed, image>>

Finished ==
  /\ phase = "failed" \/ (phase = "finished" /\ scan = Len(job.scans))
  /\ UNCHANGED vars

Next ==
  \/ StartScan \/ GatherMCU \/ FinishGather \/ EncodeMCU \/ FinishPass \/ Transmit
  \/ Arrive \/ DecodeMCU \/ DecodeBlanks \/ FinishScan \/ Finished

Spec == Init /\ [][Next]_vars

-------------------------------------------------------------------------------
\* The restart interval of MCU m.
IntervalOf(m) ==
  IF Ci.restart_interval = 0 THEN 1 ELSE (m - 1) \div Ci.restart_interval + 1

\* The MCUs of the scan that the decoder has done.
Done == IF phase = "decode" THEN 1 .. mcu - 1
        ELSE IF phase = "finished" THEN 1 .. McuCount ELSE {}

(***************************************************************************)
(* Coefficient k of a block of component c after the scans of S: what the  *)
(* last one that carries it keeps, which drops the low bits of the         *)
(* magnitude, or of the value for a DC coefficient.                        *)
(***************************************************************************)
Carries(s, c, k) ==
  LET ci == job.scans[s]
  IN /\ c \in Huff!Components(ci)
     /\ IF ci.progressive_mode THEN k \in ci.Ss .. ci.Se ELSE TRUE

Known(v, c, k, S) ==
  LET carrying == {s \in S : Carries(s, c, k)}
      p == 2 ^ job.scans[Huff!Max(carrying)].Al
  IN IF carrying = {} THEN 0
     ELSE IF k = 0 \/ v >= 0 THEN (v \div p) * p ELSE -(((-v) \div p) * p)

\* The coefficients of block b that the application asked for.
Wanted(c) ==
  LET ci == job.scans[1]
  IN IF job.arith \/ ci.progressive_mode THEN 0 .. ci.lim_Se
     ELSE 0 .. Huff!Min({ci.coef_limit[c] - 1, ci.lim_Se})

RightAfter(b, S) ==
  LET c == job.component[b]
  IN \A k \in Wanted(c) : image[b][k] = Known(job.blocks[b][k], c, k, S)

RightMcus(M) ==
  \A m \in M : \A b \in DOMAIN Ci.mcus[m] : RightAfter(Ci.mcus[m][b], 1 .. scan)

\* As it was encoded, so it is decoded: every MCU the decoder has done has the
\* coefficients of the image at the precision of the scan, however often the
\* encoder or the decoder was suspended in between.
Lossless == harmed = 0 => RightMcus(Done)

\* The restart markers the encoder writes into the scan.
RestartsWritten ==
  [i \in 1 .. IntervalOf(McuCount) - 1 |-> Huff!RST0 + ((i - 1) % 8)]

\* The decoder's last MCU ends where the encoder's does: the data holds no
\* marker but the restart markers and the one after the scan, the decoder has
\* met each of them in turn and never run out of data, and no byte is left over.
SegmentConsumed ==
  phase = "finished" /\ harmed = 0 =>
    /\ Huff!MarkersFrom(file, 1) = Append(RestartsWritten, EndMarker)
    /\ dec.unread_marker = EndMarker
    /\ ~dec.warned
    /\ job.arith \/ Len(dec.get) < 8

\* The tables of the gathering pass can be sent and used: at most 16 bits, the
\* number of codes that of the symbols, none of them all ones, a code for each
\* symbol that was counted.
TablesLegal ==
  phase = "encode" /\ mcu = 1 /\ Gathers(job, Ci) =>
    \A t \in DOMAIN tables :
      LET tbl == tables[t]
          maxsymbol == Huff!MaxSymbol(t)
      IN /\ Len(Huff!huffsize(tbl)) = Len(tbl.huffval)
         /\ \A l \in 1 .. 16 : tbl.bits[l] >= 0
         /\ Huff!jpeg_make_c_derived_tbl(tbl, maxsymbol) # <<>>

\* The encoder stays within its buffers and codes: no error exit, an EOB run
\* that has a symbol, and room for the correction bits of one more block.
WithinLimits ==
  scan > 0 /\ ~job.arith =>
    /\ ~enc.error
    /\ enc.EOBRUN < Huff!MAX_EOBRUN
    /\ Len(enc.BE) + Huff!DCTSIZE2 - 1 <= Huff!MAX_CORR_BITS

\* Damage to one restart interval stays in it: the decoder's other MCUs have
\* the coefficients of the image.
Contained ==
  harmed # 0 => RightMcus({m \in Done : IntervalOf(m) # harmed})

\* The tables that are gathered are legal, and nothing grows beyond the buffer or
\* the symbol that is to hold it.
LimitsKept == TablesLegal /\ WithinLimits
===============================================================================
