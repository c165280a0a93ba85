----------------------------- MODULE CompressRows -----------------------------
(***************************************************************************)
(* From scanlines to MCUs: the preprocessing controller (jcprepct.c), with *)
(* context rows when the downsampler (jcsample.c) smooths, the main        *)
(* controller (jcmainct.c), and the coefficient controller (jccoefct.c)    *)
(* with and without arrays of the whole image.  The application passes any *)
(* number of lines at a time, and the entropy encoder may refuse any MCU   *)
(* that it has to write.                                                   *)
(*                                                                         *)
(* A line is abstracted to its number in the image, a sample row to the    *)
(* lines it is computed from, and a block to its column and sample rows.   *)
(***************************************************************************)
EXTENDS Integers, Sequences, SequencesExt, FiniteSetsExt

CONSTANT Jobs   \* see JobsAssumption

\* A component's sampling factors and the size of its DCT, which may be a multiple
\* of size D.
Sampling(D) == [h : 1 .. 4, v : 1 .. 4, dct_h : {D, 2 * D}, dct_v : {D, 2 * D}]

\* D = min_DCT_scaled_size.  Factors times dct / D divide the largest ones
\* (jinit_downsampler).  A scan is a sequence of components.  Widths are in columns
\* of D pixels.
ASSUME JobsAssumption ==
  \A j \in Jobs :
    /\ j.D \in 1 .. 16
    /\ j.comps \in Seq(Sampling(j.D)) \ {<<>>}
    /\ {j.smoothing, j.optimize} \subseteq BOOLEAN
    /\ j.scans \in Seq(Seq(DOMAIN j.comps) \ {<<>>}) \ {<<>>}
    /\ j.Heights \cup j.Widths \cup j.MaxLines \subseteq Nat \ {0}

VARIABLES
  job, size,   \* what is compressed, [height, width]
  pass,        \* number of the pass, from 1
  step,        \* what the program does next; "none" without an image
  app,         \* [next_scanline], and of a call [in_row_ctr, in_rows_avail]
  prep,        \* [rows_to_go, next_buf_row, this_row_group, next_buf_stop]
  conversion,  \* its color_buf
  main,        \* [cur_iMCU_row, rowgroup_ctr, suspended]
  strip,       \* its buffer: the sample rows of an iMCU row, by component
  coef,        \* [iMCU_row_num, mcu_ctr, MCU_vert_offset]
  arrays,      \* its whole_image: the blocks of each component by row and column
  sent         \* history: [count, mcu]: MCUs of this pass, the last of them

cvars == <<job, size, pass, step, app, prep, conversion, main, strip, coef, arrays, sent>>

-----------------------------------------------------------------------------
(* Sizes. *)

Unwritten == -1

round_up(a, b) == (a + b - 1) \div b

min_DCT == job.D
comp(c) == job.comps[c]
max_h_samp == Max({comp(c).h : c \in DOMAIN job.comps})
max_v_samp == Max({comp(c).v : c \in DOMAIN job.comps})

\* The image in blocks; jpeg_height scales image_height by the same ratio.
iMCU_rows == round_up(size.height, max_v_samp * min_DCT)
width_in_blocks(c) == round_up(size.width * comp(c).h, max_h_samp)
height_in_blocks(c) == round_up(size.height * comp(c).v, max_v_samp * min_DCT)

\* Rows of a component that are made from max_v_samp lines.
rowgroup_height(c) == (comp(c).v * comp(c).dct_v) \div min_DCT
rowgroup_width(c) == (comp(c).h * comp(c).dct_h) \div min_DCT

\* Only full-size and 2h2v components are smoothed (jinit_downsampler).
Smoothed(c) ==
  /\ job.smoothing
  /\ \/ max_h_samp = rowgroup_width(c) /\ max_v_samp = rowgroup_height(c)
     \/ max_h_samp = 2 * rowgroup_width(c) /\ max_v_samp = 2 * rowgroup_height(c)

need_context_rows == \E c \in DOMAIN job.comps : Smoothed(c)

\* above_ptr and below_ptr of the smoothing downsamplers.
ContextRows(c) == IF Smoothed(c) THEN 1 ELSE 0

\* Lines, relative to the first of a row group, that sample row k is from.
Taps(c, k) ==
  LET expand == max_v_samp \div rowgroup_height(c)
  IN [i \in 1 .. expand + 2 * ContextRows(c) |-> k * expand + i - 1 - ContextRows(c)]

\* Without context the buffer holds one row group.  With context it holds
\* three, and pointers to five that wrap around at both ends.
BufferedRows == IF need_context_rows THEN 3 * max_v_samp ELSE max_v_samp
ColorRow(i) ==
  IF ~need_context_rows THEN i
  ELSE IF i < 0 THEN i + 3 * max_v_samp
  ELSE IF i >= 3 * max_v_samp THEN i - 3 * max_v_samp ELSE i

\* MCU_rows_per_iMCU_row, last_row_height and MCU dimensions of the scan.
scan == job.scans[IF job.optimize THEN (pass + 1) \div 2 ELSE pass]
passes == (IF job.optimize THEN 2 ELSE 1) * Len(job.scans)
gather_statistics == job.optimize /\ pass % 2 = 1
interleaved == Len(scan) > 1
MCU_width(c) == IF interleaved THEN comp(c).h ELSE 1
MCU_height(c) == IF interleaved THEN comp(c).v ELSE 1
MCUs_per_row == IF interleaved THEN round_up(size.width, max_h_samp)
                ELSE width_in_blocks(scan[1])
last_col_width(c) == IF width_in_blocks(c) % MCU_width(c) = 0 THEN MCU_width(c)
                     ELSE width_in_blocks(c) % MCU_width(c)
last_row_height(c) == IF height_in_blocks(c) % comp(c).v = 0 THEN comp(c).v
                      ELSE height_in_blocks(c) % comp(c).v
BlockRows(c, row) == IF row = iMCU_rows - 1 THEN last_row_height(c) ELSE comp(c).v
MCU_rows_per_iMCU_row(row) == IF interleaved THEN 1 ELSE BlockRows(scan[1], row)

\* Is there a buffer for the whole image?
MultiPass == passes > 1

-----------------------------------------------------------------------------
(* Preprocessing. *)

expand_bottom_edge(rows, input_rows, output_rows) ==
  [r \in DOMAIN rows |-> IF r \in input_rows .. output_rows - 1
                         THEN rows[input_rows - 1] ELSE rows[r]]

\* color_convert of n lines to the place of the next row.
ColorConverted(n) ==
  [r \in DOMAIN conversion |->
     IF r \in prep.next_buf_row .. prep.next_buf_row + n - 1
     THEN app.next_scanline + app.in_row_ctr + r - prep.next_buf_row
     ELSE conversion[r]]

\* One row group of each component, from the buffer at its row first.
sep_downsample(buf, first, group) ==
  [c \in DOMAIN strip |->
     [r \in DOMAIN strip[c] |->
        IF r \div rowgroup_height(c) = group
        THEN [i \in DOMAIN Taps(c, r % rowgroup_height(c)) |->
                buf[ColorRow(first + Taps(c, r % rowgroup_height(c))[i])]]
        ELSE strip[c][r]]]

LinesTaken(limit) ==
  Min({limit - prep.next_buf_row, app.in_rows_avail - app.in_row_ctr})

\* One turn of pre_process_data: fill up the row group, the last one with
\* copies of the last line; below it the iMCU row is filled with copies of
\* the last sample row.
PreProcessData ==
  /\ step = "prep" /\ ~need_context_rows
  /\ app.in_row_ctr < app.in_rows_avail
  /\ main.rowgroup_ctr < min_DCT
  /\ LET numrows == LinesTaken(max_v_samp)
         next == prep.next_buf_row + numrows
         bottom == prep.rows_to_go = numrows
         full == bottom \/ next = max_v_samp
         buf == IF bottom THEN expand_bottom_edge(ColorConverted(numrows), next, max_v_samp)
                ELSE ColorConverted(numrows)
         groups == main.rowgroup_ctr + 1
         sampled == sep_downsample(buf, 0, main.rowgroup_ctr)
     IN /\ conversion' = buf
        /\ app' = [app EXCEPT !.in_row_ctr = @ + numrows]
        /\ prep' = [prep EXCEPT !.rows_to_go = @ - numrows,
                                !.next_buf_row = IF full THEN 0 ELSE next]
        /\ strip' = IF ~full THEN strip
                    ELSE IF ~bottom THEN sampled
                    ELSE [c \in DOMAIN strip |->
                            expand_bottom_edge(sampled[c], groups * rowgroup_height(c),
                                               min_DCT * rowgroup_height(c))]
        /\ main' = [main EXCEPT !.rowgroup_ctr =
                      IF ~full THEN @ ELSE IF bottom THEN min_DCT ELSE @ + 1]
  /\ UNCHANGED <<job, size, pass, step, coef, arrays, sent>>

\* Seeded fault: no wait for the row group below.
FirstStopEarly == max_v_samp

\* The first row group is downsampled when the second one is there.
FirstStop == 2 * max_v_samp

\* The first line, copied above the image.
PaddedAtTop(buf) ==
  [r \in DOMAIN buf |-> IF r >= 2 * max_v_samp THEN buf[0] ELSE buf[r]]

\* What downsampling a row group and advancing to the next one does.
ContextGroup(buf) ==
  LET next_group == prep.this_row_group + max_v_samp
      next_row == IF prep.next_buf_stop >= 3 * max_v_samp THEN 0 ELSE prep.next_buf_stop
  IN /\ strip' = sep_downsample(buf, prep.this_row_group, main.rowgroup_ctr)
     /\ main' = [main EXCEPT !.rowgroup_ctr = @ + 1]
     /\ prep' = [prep EXCEPT
                   !.this_row_group = IF next_group >= 3 * max_v_samp THEN 0 ELSE next_group,
                   !.next_buf_row = next_row,
                   !.next_buf_stop = next_row + max_v_samp,
                   !.rows_to_go = @ - (app'.in_row_ctr - app.in_row_ctr)]

\* pre_process_context while there are lines ...
PreProcessContext ==
  /\ step = "prep" /\ need_context_rows
  /\ main.rowgroup_ctr < min_DCT
  /\ app.in_row_ctr < app.in_rows_avail
  /\ LET numrows == LinesTaken(prep.next_buf_stop)
         buf == IF prep.rows_to_go = size.height THEN PaddedAtTop(ColorConverted(numrows))
                ELSE ColorConverted(numrows)
     IN /\ conversion' = buf
        /\ app' = [app EXCEPT !.in_row_ctr = @ + numrows]
        /\ IF prep.next_buf_row + numrows = prep.next_buf_stop
           THEN ContextGroup(buf)
           ELSE /\ prep' = [prep EXCEPT !.next_buf_row = @ + numrows,
                                        !.rows_to_go = @ - numrows]
                /\ UNCHANGED <<strip, main>>
  /\ UNCHANGED <<job, size, pass, step, coef, arrays, sent>>

\* ... and after the last one.  The row above the first row of the buffer
\* is its last.
PadContext ==
  /\ step = "prep" /\ need_context_rows
  /\ main.rowgroup_ctr < min_DCT
  /\ app.in_row_ctr = app.in_rows_avail
  /\ prep.rows_to_go = 0
  /\ LET last == conversion[ColorRow(prep.next_buf_row - 1)]
         buf == [r \in DOMAIN conversion |->
                   IF r \in prep.next_buf_row .. prep.next_buf_stop - 1 THEN last
                   ELSE conversion[r]]
     IN conversion' = buf /\ app' = app /\ ContextGroup(buf)
  /\ UNCHANGED <<job, size, pass, step, coef, arrays, sent>>

-----------------------------------------------------------------------------
(* jpeg_write_scanlines and process_data_simple_main. *)

Calls(n) ==
  /\ app' = [app EXCEPT !.in_row_ctr = 0,
                        !.in_rows_avail = Min({n, size.height - app.next_scanline})]
  /\ step' = "main"

\* More lines than are left are ignored; those that were refused come again.
WriteScanlines ==
  /\ step = "app"
  /\ \E n \in job.MaxLines : Calls(n)
  /\ UNCHANGED <<job, size, pass, prep, conversion, main, strip, coef, arrays, sent>>

ReturnsWith(rows) ==
  /\ step' = "app"
  /\ app' = [next_scanline |-> app.next_scanline + rows, in_row_ctr |-> 0, in_rows_avail |-> 0]

ProcessData ==
  /\ step = "main"
  /\ IF main.cur_iMCU_row = iMCU_rows
     THEN ReturnsWith(app.in_row_ctr)
     ELSE /\ step' = IF main.rowgroup_ctr < min_DCT THEN "prep" ELSE "compress"
          /\ UNCHANGED app
  /\ UNCHANGED <<job, size, pass, prep, conversion, main, strip, coef, arrays, sent>>

\* The preprocessor has filled the iMCU row, or used up the lines.
Preprocessed ==
  /\ step = "prep"
  /\ IF main.rowgroup_ctr = min_DCT
     THEN step' = "compress" /\ UNCHANGED app
     ELSE /\ app.in_row_ctr = app.in_rows_avail
          /\ need_context_rows => prep.rows_to_go # 0
          /\ ReturnsWith(app.in_row_ctr)
  /\ UNCHANGED <<job, size, pass, prep, conversion, main, strip, coef, arrays, sent>>

-----------------------------------------------------------------------------
(* Blocks. *)

\* The block a DCT makes at block row y of the iMCU row, and a dummy with the
\* DC value of another block.
forward_DCT(c, y, column) ==
  LET rows == [r \in 1 .. comp(c).dct_v |-> strip[c][y * comp(c).dct_v + r - 1]]
      block == [comp |-> c, column |-> column, rows |-> rows]
  IN [dc |-> block, ac |-> block]
DummyOf(block) == [dc |-> block.dc, ac |-> "zeroes"]

\* compress_data: one component's blocks of an MCU, row by row; the last row
\* of blocks in the MCU is the source of the DC values of dummy rows below.
MCUBlocks(c) ==
  LET width == MCU_width(c)
      real == IF coef.mcu_ctr < MCUs_per_row - 1 THEN width ELSE last_col_width(c)
      top == coef.MCU_vert_offset
      row[y \in 0 .. MCU_height(c) - 1] ==
        [x \in 1 .. width |->
           IF top + y < BlockRows(c, coef.iMCU_row_num)
           THEN LET block == forward_DCT(c, top + y, coef.mcu_ctr * width + Min({x, real}) - 1)
                IN IF x <= real THEN block ELSE DummyOf(block)
           ELSE DummyOf(row[y - 1][width])]
  IN FlattenSeq([y \in 1 .. MCU_height(c) |-> row[y - 1]])

\* compress_first_pass: an iMCU row of a component into the array.
StoredBlocks(c) ==
  LET h == comp(c).h
      across == round_up(width_in_blocks(c), h) * h
      row[y \in 0 .. comp(c).v - 1] ==
        [x \in 0 .. across - 1 |->
           IF y < BlockRows(c, coef.iMCU_row_num)
           THEN LET last == width_in_blocks(c) - 1
                IN IF x <= last THEN forward_DCT(c, y, x) ELSE DummyOf(forward_DCT(c, y, last))
           ELSE DummyOf(row[y - 1][x - (x % h) + h - 1])]
  IN row

\* compress_output
StoredMCU(c) ==
  FlattenSeq([y \in 1 .. MCU_height(c) |->
    [x \in 1 .. MCU_width(c) |->
       arrays[c][coef.iMCU_row_num * comp(c).v + coef.MCU_vert_offset + y - 1]
                [coef.mcu_ctr * MCU_width(c) + x - 1]]])

\* compress_first_pass loads the strip into the arrays, and does so again
\* when the call is repeated; then compress_output.
CompressData ==
  /\ step = "compress"
  /\ step' = "encode"
  /\ arrays' = IF ~MultiPass THEN arrays
               ELSE [c \in DOMAIN arrays |->
                       [y \in DOMAIN arrays[c] |->
                          IF y \div comp(c).v = coef.iMCU_row_num
                          THEN StoredBlocks(c)[y % comp(c).v] ELSE arrays[c][y]]]
  /\ UNCHANGED <<job, size, pass, app, prep, conversion, main, strip, coef, sent>>

MCU == FlattenSeq([i \in DOMAIN scan |-> IF MultiPass THEN StoredMCU(scan[i])
                                         ELSE MCUBlocks(scan[i])])

LastOfMCURow == coef.mcu_ctr = MCUs_per_row - 1
LastOfiMCURow ==
  LastOfMCURow /\ coef.MCU_vert_offset = MCU_rows_per_iMCU_row(coef.iMCU_row_num) - 1

\* encode_mcu accepts; with the last MCU of an iMCU row the main controller
\* undoes its pretence and goes on.
EncodeMCU ==
  /\ step = "encode"
  /\ sent' = [count |-> sent.count + 1, mcu |-> MCU]
  /\ coef' = IF LastOfiMCURow
             THEN [iMCU_row_num |-> coef.iMCU_row_num + 1, mcu_ctr |-> 0,
                   MCU_vert_offset |-> 0]
             ELSE IF LastOfMCURow
             THEN [coef EXCEPT !.mcu_ctr = 0, !.MCU_vert_offset = @ + 1]
             ELSE [coef EXCEPT !.mcu_ctr = @ + 1]
  /\ IF LastOfiMCURow /\ pass = 1
     THEN /\ step' = "main"
          /\ app' = IF main.suspended THEN [app EXCEPT !.in_row_ctr = @ + 1] ELSE app
          /\ main' = [cur_iMCU_row |-> main.cur_iMCU_row + 1, rowgroup_ctr |-> 0,
                      suspended |-> FALSE]
     ELSE /\ step' = IF LastOfiMCURow /\ coef.iMCU_row_num = iMCU_rows - 1
                     THEN "finish" ELSE "encode"
          /\ UNCHANGED <<app, main>>
  /\ UNCHANGED <<job, size, pass, prep, conversion, strip, arrays>>

\* The destination is full.  The application is told that its last line was
\* not taken, once; in a pass of jpeg_finish_compress this is an error.
RefuseMCU ==
  /\ step = "encode" /\ ~gather_statistics
  /\ IF pass = 1
     THEN /\ ReturnsWith(IF main.suspended THEN app.in_row_ctr ELSE app.in_row_ctr - 1)
          /\ main' = [main EXCEPT !.suspended = TRUE]
     ELSE step' = "CANT_SUSPEND" /\ UNCHANGED <<app, main>>
  /\ UNCHANGED <<job, size, pass, prep, conversion, strip, coef, arrays, sent>>

-----------------------------------------------------------------------------
(* Passes and images. *)

\* jpeg_finish_compress; then one pass after the other.
FinishCompress ==
  /\ step = "app"
  /\ step' = IF app.next_scanline < size.height THEN "TOO_LITTLE_DATA" ELSE "finish"
  /\ UNCHANGED <<job, size, pass, app, prep, conversion, main, strip, coef, arrays, sent>>

NextPass ==
  /\ step = "finish"
  /\ IF pass = passes
     THEN step' = "done" /\ UNCHANGED <<pass, coef, sent>>
     ELSE /\ step' = "encode"
          /\ pass' = pass + 1
          /\ coef' = [iMCU_row_num |-> 0, mcu_ctr |-> 0, MCU_vert_offset |-> 0]
          /\ sent' = [count |-> 0, mcu |-> <<>>]
  /\ UNCHANGED <<job, size, app, prep, conversion, main, strip, arrays>>

\* jpeg_start_compress: buffers are allocated, start_pass of each module.
StartCompress ==
  /\ pass = 1 /\ step = "app"
  /\ app = [next_scanline |-> 0, in_row_ctr |-> 0, in_rows_avail |-> 0]
  /\ prep = [rows_to_go |-> size.height, next_buf_row |-> 0, this_row_group |-> 0,
             next_buf_stop |-> FirstStop]
  /\ conversion = [r \in 0 .. BufferedRows - 1 |-> Unwritten]
  /\ main = [cur_iMCU_row |-> 0, rowgroup_ctr |-> 0, suspended |-> FALSE]
  /\ strip = [c \in DOMAIN job.comps |-> [r \in 0 .. comp(c).v * comp(c).dct_v - 1 |-> <<>>]]
  /\ coef = [iMCU_row_num |-> 0, mcu_ctr |-> 0, MCU_vert_offset |-> 0]
  /\ arrays = IF ~MultiPass THEN <<>>
              ELSE [c \in DOMAIN job.comps |->
                      [y \in 0 .. iMCU_rows * comp(c).v - 1 |-> <<>>]]
  /\ sent = [count |-> 0, mcu |-> <<>>]

CompressInit ==
  /\ job \in Jobs
  /\ \E h \in job.Heights, w \in job.Widths : size = [height |-> h, width |-> w]
  /\ StartCompress

NothingToCompress ==
  /\ step = "none" /\ job = <<>> /\ size = <<>> /\ pass = 0 /\ app = <<>> /\ prep = <<>>
  /\ conversion = <<>> /\ main = <<>> /\ strip = <<>> /\ coef = <<>> /\ arrays = <<>>
  /\ sent = <<>>

\* The end of an image, or jpeg_abort: all buffers are released.
Release ==
  /\ step \in {"done", "CANT_SUSPEND", "TOO_LITTLE_DATA"}
  /\ step' = "none" /\ job' = <<>> /\ size' = <<>> /\ pass' = 0 /\ app' = <<>> /\ prep' = <<>>
  /\ conversion' = <<>> /\ main' = <<>> /\ strip' = <<>> /\ coef' = <<>> /\ arrays' = <<>>
  /\ sent' = <<>>

CompressNext ==
  \/ WriteScanlines \/ ProcessData \/ PreProcessData \/ PreProcessContext \/ PadContext
  \/ Preprocessed \/ CompressData \/ EncodeMCU \/ RefuseMCU
  \/ FinishCompress \/ NextPass \/ Release

CompressSpec == CompressInit /\ [][CompressNext]_cvars

-----------------------------------------------------------------------------
(* Properties. *)

\* Sample row s of component c, as the image defines it: the lines it covers,
\* and for smoothing one more on either side.  Without context, "the
\* downsampler's last output row is then replicated" (jcprepct.c:36); with
\* it the first and last lines of the image are repeated (jcprepct.c:43).
Sample(c, s) ==
  LET groups == round_up(size.height, max_v_samp)
      row == IF need_context_rows THEN s ELSE Min({s, groups * rowgroup_height(c) - 1})
      group == row \div rowgroup_height(c)
      lines == Taps(c, row % rowgroup_height(c))
  IN [i \in DOMAIN lines |-> Max({0, Min({size.height - 1, group * max_v_samp + lines[i]})})]

ImageBlock(c, y, x) ==
  [comp |-> c, column |-> x,
   rows |-> [r \in 1 .. comp(c).dct_v |-> Sample(c, y * comp(c).dct_v + r - 1)]]

\* The blocks of the MCU of that number in the scan: those of the image, and
\* for places outside of it zeroes with the DC value of the block before it
\* in the MCU (jccoefct.c:167-168).
ImageMCU(number) ==
  LET row == number \div MCUs_per_row
      col == number % MCUs_per_row
      places(c) == FlattenSeq([y \in 1 .. MCU_height(c) |-> [x \in 1 .. MCU_width(c) |->
                     <<row * MCU_height(c) + y - 1, col * MCU_width(c) + x - 1>>]])
      real(c, p) == p[1] < height_in_blocks(c) /\ p[2] < width_in_blocks(c)
      blocks(c) ==
        [i \in DOMAIN places(c) |->
           LET before == {k \in 1 .. i : real(c, places(c)[k])}
               p == places(c)[Max(before)]
               block == ImageBlock(c, p[1], p[2])
           IN [dc |-> block, ac |-> IF i \in before THEN block ELSE "zeroes"]]
  IN FlattenSeq([i \in DOMAIN scan |-> blocks(scan[i])])

MCUsInScan == MCUs_per_row * (IF interleaved THEN iMCU_rows ELSE height_in_blocks(scan[1]))

\* Each MCU the entropy encoder gets in a pass is the next one of the scan,
\* with the blocks of the image, however the lines came in and whatever was
\* refused; when the application is told that its last line was taken, and
\* when a pass ends, all of them were sent.
MCUsRight ==
  /\ step # "none" /\ sent.count > 0 => sent.mcu = ImageMCU(sent.count - 1)
  /\ step = "app" /\ app.next_scanline = size.height => sent.count = MCUsInScan
  /\ step \in {"finish", "done"} => sent.count = MCUsInScan
==============================================================================
