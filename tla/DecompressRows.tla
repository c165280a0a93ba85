---------------------------- MODULE DecompressRows ----------------------------
(***************************************************************************)
(* From iMCU rows to scanlines: the main controller (jdmainct.c), with its *)
(* "funny pointer" lists when the upsampler needs context rows, the        *)
(* upsampler (jdsample.c, or jdmerge.c when upsampling and color           *)
(* conversion are merged), and the postprocessing controller (jdpostct.c)  *)
(* for one-pass and two-pass color quantization.                           *)
(*                                                                         *)
(* A sample row is abstracted to its number in the component, and a        *)
(* scanline to the sample rows it was made from.  The coefficient          *)
(* controller is reduced to what decompress_data does: suspend, or fill    *)
(* one iMCU row's worth of the sample rows it is pointed to.               *)
(***************************************************************************)
EXTENDS Integers, Sequences

CONSTANT Images  \* the images to decompress, see RowsAssumption

\* No upsampler handles fractional factors; the merged ones only h2v1 and h2v2
\* and without context; M = 1 with context is refused by jinit_d_main_controller.
ASSUME RowsAssumption ==
  \A im \in Images :
    /\ {im.M, im.V} \subseteq Nat \ {0}
    /\ im.RowGroup \in Seq(Nat \ {0}) /\ im.RowGroup # <<>>
    /\ \A c \in DOMAIN im.RowGroup : im.V % im.RowGroup[c] = 0
    /\ {im.NeedContext, im.Merged, im.WholeImage} \subseteq BOOLEAN
    /\ im.NeedContext => im.M >= 2 /\ ~im.Merged
    /\ im.Merged => im.V <= 2
    /\ im.PassKinds \subseteq {"thru", "onepass", "twopass"}
    /\ "twopass" \in im.PassKinds => im.WholeImage
    /\ im.Heights \subseteq Nat \ {0}
    /\ im.MaxLines \subseteq Nat \ {0}

VARIABLES
  image, output_height,   \* what is decompressed; neither ever changes
  process_data,     \* the pass: "none", "thru", "onepass", "prepass", "crank"
  output_scanline,  \* rows returned in this pass; a prepass counts as well
  pc,               \* "idle", in "process"_data, or about to "return"
  out_rows_avail, out_row_ctr,   \* of the call in progress
  suspended,        \* did decompress_data suspend in it?
  output_iMCU_row,  \* iMCU rows the coefficient controller has delivered
  buffer,           \* the main controller's workspace, by component
  xbuffer,          \* its two lists of pointers into it
  whichptr, buffer_full, rowgroup_ctr, rowgroups_avail, context_state, iMCU_row_ctr,
  color_buf, next_row_out,       \* the separate upsampler's conversion buffer
  rows_to_go,       \* the upsampler's count of scanlines to the bottom
  spare_row, spare_full,         \* the merged upsampler's spare row
  starting_row, next_row,        \* the postprocessor's place in the image
  first_undef_row,  \* of its virtual array, see VirtualArray
  whole_image,      \* contents of the virtual array
  lines             \* history: the scanlines returned in this pass

callVars == <<pc, out_rows_avail, out_row_ctr, suspended>>
mainVars == <<output_iMCU_row, buffer, xbuffer, whichptr, buffer_full,
              rowgroup_ctr, rowgroups_avail, context_state, iMCU_row_ctr>>
upsampleVars == <<color_buf, next_row_out, rows_to_go, spare_row, spare_full>>
postVars == <<starting_row, next_row, first_undef_row, whole_image>>
vars == <<image, output_height, process_data, output_scanline, callVars, mainVars,
          upsampleVars, postVars, lines>>

M == image.M                      \* min_DCT_v_scaled_size: row groups per iMCU row
V == image.V                      \* max_v_samp_factor: scanlines per row group
RowGroup == image.RowGroup        \* sample rows per row group, by component
NeedContext == image.NeedContext  \* need_context_rows
Merged == image.Merged            \* merged upsampling (jdmerge.c)?
WholeImage == image.WholeImage    \* has the postprocessor a full-image buffer?

Component == DOMAIN RowGroup

Min2(a, b) == IF a <= b THEN a ELSE b
CeilDiv(a, b) == (a + b - 1) \div b

total_iMCU_rows == CeilDiv(output_height, M * V)

\* Real sample rows of component c.
downsampled_height(c) == CeilDiv(output_height * RowGroup[c], V)

\* Components that need no upsampling are read in place, not copied.
Fullsize(c) == ~Merged /\ RowGroup[c] = V

strip_height == V

\* Seeded fault: the height of the virtual array is not rounded up.
rows_in_array_exact == output_height

\* jround_up: height of the virtual array.
rows_in_array == CeilDiv(output_height, V) * V

Groups == IF NeedContext THEN M + 2 ELSE M

Garbage == -1         \* contents of a sample row that was never filled
NoPointer == -1       \* an entry of a pointer list that was never set
NoLine == <<>>

ListIndex(c) == (-RowGroup[c]) .. (M + 3) * RowGroup[c] - 1
BufferRow(c) == 0 .. Groups * RowGroup[c] - 1

-------------------------------------------------------------------------------
(* The pointer lists                                                       *)

\* make_funny_pointers.  What it leaves alone is filled in before it is used,
\* and is shown here as unset.
FunnyPointers ==
  [p \in {0, 1} |-> [c \in Component |-> [i \in ListIndex(c) |->
     LET rg == RowGroup[c]
     IN IF i < 0 THEN IF p = 0 THEN 0 ELSE NoPointer
        ELSE IF i >= (M + 2) * rg THEN NoPointer
        ELSE IF p = 0 \/ i < (M - 2) * rg THEN i
        ELSE IF i < M * rg THEN i + 2 * rg
        ELSE i - 2 * rg]]]

\* set_wraparound_pointers
Wraparound ==
  [p \in {0, 1} |-> [c \in Component |-> [i \in ListIndex(c) |->
     LET rg == RowGroup[c]
         x == xbuffer[p][c]
     IN IF i < 0 THEN x[i + (M + 2) * rg]
        ELSE IF i >= (M + 2) * rg THEN x[i - (M + 2) * rg]
        ELSE x[i]]]]

RowsLeft(c) ==
  LET iMCUheight == RowGroup[c] * M
      rest == downsampled_height(c) % iMCUheight
  IN IF rest = 0 THEN iMCUheight ELSE rest

\* set_bottom_pointers: duplicate the last real sample row.
BottomPointers ==
  [xbuffer EXCEPT ![whichptr] =
     [c \in Component |-> [i \in ListIndex(c) |->
        IF RowsLeft(c) <= i /\ i < RowsLeft(c) + 2 * RowGroup[c]
          THEN xbuffer[whichptr][c][RowsLeft(c) - 1]
          ELSE xbuffer[whichptr][c][i]]]]

\* The pointer list handed to decompress_data and to the upsampler.
Pointer(c, i) == IF NeedContext THEN xbuffer[whichptr][c][i] ELSE i

-------------------------------------------------------------------------------
(* Upsampling                                                              *)

SampleAt(c, i) ==
  IF Pointer(c, i) \in BufferRow(c) THEN buffer[c][Pointer(c, i)] ELSE Garbage

\* Sample row of component c behind scanline k of its row group ctr.
SampleRow(c, ctr, k) == ctr * RowGroup[c] + (k * RowGroup[c]) \div V

\* What an upsampling method makes scanline k of a row group from.
UpsampledRow(c, ctr, k) ==
  LET i == SampleRow(c, ctr, k)
  IN IF NeedContext THEN <<SampleAt(c, i - 1), SampleAt(c, i), SampleAt(c, i + 1)>>
     ELSE <<SampleAt(c, i)>>

\* One row group in the conversion buffer; fullsize_upsample only stores where
\* the rows are.
UpsampledGroup(ctr) ==
  [c \in Component |-> [k \in 0 .. V - 1 |->
     IF Fullsize(c) THEN SampleRow(c, ctr, k) ELSE UpsampledRow(c, ctr, k)]]

\* color_convert of row k of the conversion buffer.
Converted(buf, k) ==
  [c \in Component |-> IF Fullsize(c) THEN <<SampleAt(c, buf[c][k])>> ELSE buf[c][k]]

\* The conversion buffer is empty once its last row was emitted.
GroupEmptied(row) == row >= V

\* Not more than the distance to the end of the image.
LimitedToImage(rows) == Min2(rows, rows_to_go)

\* sep_upsample, for a caller with room for so many rows; consumed is what it
\* adds to in_row_group_ctr.
SepUpsample(room) ==
  LET empty == next_row_out >= V
      first == IF empty THEN 0 ELSE next_row_out
      buf == IF empty THEN UpsampledGroup(rowgroup_ctr) ELSE color_buf
      num_rows == Min2(LimitedToImage(V - first), room)
  IN [rows |-> [k \in 1 .. num_rows |-> Converted(buf, first + k - 1)],
      color_buf |-> buf, next_row_out |-> first + num_rows,
      rows_to_go |-> rows_to_go - num_rows,
      spare_row |-> spare_row, spare_full |-> spare_full,
      consumed |-> IF GroupEmptied(first + num_rows) THEN 1 ELSE 0]

MergedRow(k) == [c \in Component |-> UpsampledRow(c, rowgroup_ctr, k)]

\* Seeded fault: the spare row stays full after it was returned.
SpareNeededTwice(num_rows) == num_rows < 2

\* Does the second row of a group go to the spare row?
SpareNeeded(num_rows) == ~spare_full /\ num_rows < 2

\* merged_2v_upsample
Merged2v(room) ==
  LET num_rows == IF spare_full THEN 1 ELSE Min2(LimitedToImage(2), room)
  IN [rows |-> IF spare_full THEN <<spare_row>>
               ELSE [k \in 1 .. num_rows |-> MergedRow(k - 1)],
      color_buf |-> color_buf, next_row_out |-> next_row_out,
      rows_to_go |-> rows_to_go - num_rows,
      spare_row |-> IF SpareNeeded(num_rows) THEN MergedRow(1) ELSE spare_row,
      spare_full |-> SpareNeeded(num_rows),
      consumed |-> IF SpareNeeded(num_rows) THEN 0 ELSE 1]

\* merged_1v_upsample: it looks neither at the room nor for the bottom.
Merged1v ==
  [rows |-> <<MergedRow(0)>>,
   color_buf |-> color_buf, next_row_out |-> next_row_out,
   rows_to_go |-> rows_to_go, spare_row |-> spare_row, spare_full |-> spare_full,
   consumed |-> 1]

Upsample(room) ==
  IF ~Merged THEN SepUpsample(room)
  ELSE IF V = 2 THEN Merged2v(room)
  ELSE Merged1v

-------------------------------------------------------------------------------
(* Postprocessing                                                          *)

\* access_virt_sarray(start, strip_height, writable), where VirtualArraySpec
\* calls it legal.
AccessLegal(start, writable) ==
  /\ start + strip_height <= rows_in_array
  /\ IF writable THEN start <= first_undef_row
     ELSE start + strip_height <= first_undef_row

\* Rows the upsampler may fill in one call.
Room ==
  IF process_data = "prepass" THEN strip_height - next_row
  ELSE IF process_data = "onepass" THEN Min2(out_rows_avail - out_row_ctr, strip_height)
  ELSE out_rows_avail - out_row_ctr

Advance(n) ==
  IF next_row + n >= strip_height
    THEN starting_row' = starting_row + strip_height /\ next_row' = 0
    ELSE starting_row' = starting_row /\ next_row' = next_row + n

Emit(rows) ==
  /\ lines' = lines \o rows
  /\ out_row_ctr' = out_row_ctr + Len(rows)

\* post_process_prepass: the rows go to the virtual array; none is emitted, but
\* they are counted.
SaveRows(rows) ==
  /\ next_row = 0 => AccessLegal(starting_row, TRUE)
  /\ first_undef_row' = IF next_row = 0 /\ first_undef_row < starting_row + strip_height
                          THEN starting_row + strip_height ELSE first_undef_row
  /\ whole_image' =
       [r \in DOMAIN whole_image |->
          LET i == r - (starting_row + next_row) + 1
          IN IF i \in 1 .. Len(rows) THEN rows[i] ELSE whole_image[r]]
  /\ Advance(Len(rows))
  /\ out_row_ctr' = out_row_ctr + Len(rows)
  /\ UNCHANGED lines

\* (*cinfo->post->post_process_data) on an upsampled u: the upsampler itself,
\* post_process_1pass or post_process_prepass.  A one-pass strip is emitted as
\* soon as it is filled, so that its contents do not matter afterwards.
PostProcess(u) ==
  /\ color_buf' = u.color_buf
  /\ next_row_out' = u.next_row_out
  /\ rows_to_go' = u.rows_to_go
  /\ spare_row' = u.spare_row
  /\ spare_full' = u.spare_full
  /\ IF process_data = "prepass" THEN SaveRows(u.rows)
     ELSE Emit(u.rows) /\ UNCHANGED postVars

GroupsDone(u) == rowgroup_ctr + u.consumed

\* What post_process_2pass should emit: not past the bottom of the image.
RowsInStrip ==
  Min2(Min2(strip_height - next_row, out_rows_avail - out_row_ctr),
       output_height - starting_row)

-------------------------------------------------------------------------------
(* process_data                                                            *)

InProcess == pc = "process" /\ process_data # "none"

\* decompress_data suspends: nothing changes.
Suspend ==
  /\ InProcess /\ process_data # "crank"
  /\ ~buffer_full
  /\ suspended' = TRUE
  /\ pc' = "return"
  /\ UNCHANGED <<image, output_height, process_data, output_scanline, out_rows_avail,
                 out_row_ctr, mainVars, upsampleVars, postVars, lines>>

\* The next iMCU row arrives in the list in use; below the last real sample row
\* it is garbage.
Load ==
  /\ InProcess /\ process_data # "crank"
  /\ ~buffer_full
  /\ buffer' =
       [c \in Component |-> [b \in BufferRow(c) |->
          LET rows == {i \in 0 .. M * RowGroup[c] - 1 : Pointer(c, i) = b}
              Sample(i) == output_iMCU_row * M * RowGroup[c] + i
          IN IF rows = {} THEN buffer[c][b]
             ELSE LET i == CHOOSE j \in rows : TRUE
                  IN IF Sample(i) < downsampled_height(c) THEN Sample(i) ELSE Garbage]]
  /\ output_iMCU_row' = output_iMCU_row + 1
  /\ buffer_full' = TRUE
  /\ iMCU_row_ctr' = IF NeedContext THEN iMCU_row_ctr + 1 ELSE iMCU_row_ctr
  /\ UNCHANGED <<image, output_height, process_data, output_scanline, callVars, xbuffer,
                 whichptr, rowgroup_ctr, rowgroups_avail, context_state,
                 upsampleVars, postVars, lines>>

\* process_data_simple_main, once an iMCU row is there.
SimpleMain ==
  /\ InProcess /\ process_data # "crank"
  /\ ~NeedContext
  /\ buffer_full
  /\ LET u == Upsample(Room)
     IN /\ PostProcess(u)
        /\ IF GroupsDone(u) >= M
             THEN rowgroup_ctr' = 0 /\ buffer_full' = FALSE
             ELSE rowgroup_ctr' = GroupsDone(u) /\ UNCHANGED buffer_full
  /\ pc' = "return"
  /\ UNCHANGED <<image, output_height, process_data, output_scanline, out_rows_avail,
                 suspended, output_iMCU_row, buffer, xbuffer, whichptr,
                 rowgroups_avail, context_state, iMCU_row_ctr>>

InContext(state) ==
  /\ InProcess /\ process_data # "crank"
  /\ NeedContext
  /\ buffer_full
  /\ context_state = state

\* CTX_POSTPONED_ROW: the last row group of the previous iMCU row.
PostponedRow ==
  /\ InContext("POSTPONED_ROW")
  /\ LET u == Upsample(Room)
     IN /\ PostProcess(u)
        /\ rowgroup_ctr' = GroupsDone(u)
        /\ IF GroupsDone(u) < rowgroups_avail
             THEN pc' = "return" /\ UNCHANGED context_state
             ELSE /\ context_state' = "PREPARE_FOR_IMCU"
                  /\ pc' = IF out_row_ctr' >= out_rows_avail THEN "return" ELSE pc
  /\ UNCHANGED <<image, output_height, process_data, output_scanline, out_rows_avail,
                 suspended, output_iMCU_row, buffer, xbuffer, whichptr,
                 buffer_full, rowgroups_avail, iMCU_row_ctr>>

\* CTX_PREPARE_FOR_IMCU: the first M-1 row groups, or what is real of the last
\* iMCU row, counted in the first component.
PrepareForIMCU ==
  /\ InContext("PREPARE_FOR_IMCU")
  /\ rowgroup_ctr' = 0
  /\ IF iMCU_row_ctr = total_iMCU_rows
       THEN /\ xbuffer' = BottomPointers
            /\ rowgroups_avail' = (RowsLeft(1) - 1) \div RowGroup[1] + 1
       ELSE /\ rowgroups_avail' = M - 1
            /\ UNCHANGED xbuffer
  /\ context_state' = "PROCESS_IMCU"
  /\ UNCHANGED <<image, output_height, process_data, output_scanline, callVars,
                 output_iMCU_row, buffer, whichptr, buffer_full, iMCU_row_ctr,
                 upsampleVars, postVars, lines>>

\* CTX_PROCESS_IMCU; its last row group is at index M+1 of the other list.
ProcessIMCU ==
  /\ InContext("PROCESS_IMCU")
  /\ LET u == Upsample(Room)
     IN /\ PostProcess(u)
        /\ IF GroupsDone(u) < rowgroups_avail
             THEN /\ rowgroup_ctr' = GroupsDone(u)
                  /\ UNCHANGED <<xbuffer, whichptr, buffer_full, rowgroups_avail,
                                 context_state>>
             ELSE /\ xbuffer' = IF iMCU_row_ctr = 1 THEN Wraparound ELSE xbuffer
                  /\ whichptr' = 1 - whichptr
                  /\ buffer_full' = FALSE
                  /\ rowgroup_ctr' = M + 1
                  /\ rowgroups_avail' = M + 2
                  /\ context_state' = "POSTPONED_ROW"
  /\ pc' = "return"
  /\ UNCHANGED <<image, output_height, process_data, output_scanline, out_rows_avail,
                 suspended, output_iMCU_row, buffer, iMCU_row_ctr>>

\* process_data_crank_post, post_process_2pass
CrankPost ==
  /\ InProcess /\ process_data = "crank"
  /\ next_row = 0 => AccessLegal(starting_row, FALSE)
  /\ Emit([k \in 1 .. RowsInStrip |-> whole_image[starting_row + next_row + k - 1]])
  /\ Advance(RowsInStrip)
  /\ pc' = "return"
  /\ UNCHANGED <<image, output_height, process_data, output_scanline, out_rows_avail,
                 suspended, mainVars, upsampleVars, first_undef_row, whole_image>>

-------------------------------------------------------------------------------
(* The calls and the passes                                                *)

RowsRemain == output_scanline < output_height

Call(n) ==
  /\ pc = "idle"
  /\ RowsRemain
  /\ pc' = "process"
  /\ out_rows_avail' = n
  /\ out_row_ctr' = 0
  /\ suspended' = FALSE
  /\ UNCHANGED <<image, output_height, process_data, output_scanline, mainVars,
                 upsampleVars, postVars, lines>>

\* jpeg_read_scanlines
ReadScanlines ==
  /\ process_data \in {"thru", "onepass", "crank"}
  /\ \E max_lines \in image.MaxLines : Call(max_lines)

\* output_pass_setup cranks through the dummy pass, without an output buffer.
CrankDummyPass == process_data = "prepass" /\ Call(0)

Return ==
  /\ pc = "return"
  /\ pc' = "idle"
  /\ output_scanline' = output_scanline + out_row_ctr
  /\ UNCHANGED <<image, output_height, process_data, out_rows_avail, out_row_ctr,
                 suspended, mainVars, upsampleVars, postVars, lines>>

\* start_pass_upsample, start_pass_merged_upsample
HeightToGo == output_height

\* Seeded fault: what a pass that was given up had read is not thrown away.
BufferFullKept == buffer_full

\* start_pass_main marks the buffer empty.
BufferFull == FALSE

\* prepare_for_output_pass for a pass that starts at the coefficients:
\* start_output_pass, the upsampler's start_pass, start_pass_dpost and
\* start_pass_main.  The previous pass need not be over, but a dummy pass is.  A
\* one-pass strip is taken from the virtual array if there is no strip buffer.
StartPass(kind) ==
  /\ pc = "idle"
  /\ process_data # "prepass"
  /\ process_data' = IF kind = "twopass" THEN "prepass" ELSE kind
  /\ output_scanline' = 0
  /\ output_iMCU_row' = 0
  /\ IF Merged THEN spare_full' = FALSE /\ UNCHANGED next_row_out
     ELSE next_row_out' = V /\ UNCHANGED spare_full
  /\ rows_to_go' = HeightToGo
  /\ starting_row' = 0
  /\ next_row' = 0
  /\ buffer_full' = BufferFull
  /\ rowgroup_ctr' = 0
  /\ IF NeedContext
       THEN /\ xbuffer' = FunnyPointers
            /\ whichptr' = 0
            /\ context_state' = "PREPARE_FOR_IMCU"
            /\ iMCU_row_ctr' = 0
       ELSE UNCHANGED <<xbuffer, whichptr, context_state, iMCU_row_ctr>>
  /\ first_undef_row' = IF kind = "onepass" /\ WholeImage /\ first_undef_row = 0
                          THEN strip_height ELSE first_undef_row
  /\ lines' = <<>>
  /\ UNCHANGED <<image, output_height, callVars, buffer, rowgroups_avail, color_buf,
                 spare_row, whole_image>>

\* The final pass of two-pass quantization, after the dummy pass.
StartCrankPass ==
  /\ pc = "idle"
  /\ process_data = "prepass"
  /\ output_scanline >= output_height
  /\ process_data' = "crank"
  /\ output_scanline' = 0
  /\ starting_row' = 0
  /\ next_row' = 0
  /\ UNCHANGED <<image, output_height, callVars, mainVars, upsampleVars,
                 first_undef_row, whole_image, lines>>

Init ==
  /\ image \in Images
  /\ output_height \in image.Heights
  /\ process_data = "none"
  /\ output_scanline = 0
  /\ pc = "idle" /\ out_rows_avail = 0 /\ out_row_ctr = 0 /\ suspended = FALSE
  /\ output_iMCU_row = 0
  /\ buffer = [c \in Component |-> [b \in BufferRow(c) |-> Garbage]]
  /\ xbuffer = FunnyPointers
  /\ whichptr = 0 /\ buffer_full = FALSE
  /\ rowgroup_ctr = 0 /\ rowgroups_avail = 0
  /\ context_state = "PREPARE_FOR_IMCU" /\ iMCU_row_ctr = 0
  /\ color_buf = NoLine /\ next_row_out = V
  /\ rows_to_go = 0
  /\ spare_row = NoLine /\ spare_full = FALSE
  /\ starting_row = 0 /\ next_row = 0
  /\ first_undef_row = 0
  /\ whole_image = [r \in 0 .. rows_in_array - 1 |-> NoLine]
  /\ lines = <<>>

Process ==
  \/ Load \/ SimpleMain \/ PostponedRow \/ PrepareForIMCU \/ ProcessIMCU \/ CrankPost

Next ==
  \/ Suspend
  \/ Process
  \/ ReadScanlines
  \/ CrankDummyPass
  \/ Return
  \/ \E kind \in image.PassKinds : StartPass(kind)
  \/ StartCrankPass

Spec == Init /\ [][Next]_vars

-------------------------------------------------------------------------------
(* Properties                                                              *)

TypeOK ==
  /\ image \in Images /\ output_height \in image.Heights
  /\ process_data \in {"none", "thru", "onepass", "prepass", "crank"}
  /\ pc \in {"idle", "process", "return"}
  /\ output_iMCU_row \in 0 .. total_iMCU_rows
  /\ \A c \in Component :
       \A b \in BufferRow(c) :
         buffer[c][b] \in {Garbage} \cup 0 .. downsampled_height(c) - 1
  /\ rowgroup_ctr \in 0 .. M + 2 /\ rowgroups_avail \in 0 .. M + 2
  /\ next_row_out \in 0 .. V
  /\ rows_to_go \in 0 .. output_height
  /\ starting_row \in 0 .. rows_in_array /\ next_row \in 0 .. V - 1
  /\ first_undef_row \in 0 .. rows_in_array

\* The sample row at distance d of row i, the first and the last duplicated.
Clamped(c, i) ==
  IF i < 0 THEN 0
  ELSE IF i >= downsampled_height(c) THEN downsampled_height(c) - 1 ELSE i

\* What scanline n of the image is to be made from.
Expected(n) ==
  [c \in Component |->
     LET i == (n * RowGroup[c]) \div V
     IN IF NeedContext /\ ~Fullsize(c)
          THEN <<Clamped(c, i - 1), i, Clamped(c, i + 1)>>
          ELSE <<i>>]

\* Scanlines are returned in order, each made from its own sample rows with the
\* right neighbours: the row groups kept back while the next iMCU row is read
\* are not overwritten, the edges are duplicated, and nothing of an earlier
\* pass, given up half-way or not, shows.
LinesRight ==
  \A n \in 1 .. Len(lines) : n <= output_height => lines[n] = Expected(n - 1)

\* No call returns a row from below the bottom of the image (jpeglib.h:520,
\* output_scanline is "0 .. output_height-1" while there is a row to read).
NoRowPastBottom == output_scanline <= output_height

\* jpeg_read_scanlines returns no rows, and a dummy pass stops, only when the
\* data source suspended.
ZeroMeansSuspended == pc = "return" /\ out_row_ctr = 0 => suspended

\* A pass that returned its last row has taken every iMCU row, so that
\* jpeg_finish_decompress finds the scan's end; none is asked for twice.
AllRowsTaken ==
  process_data \in {"thru", "onepass", "prepass"} /\ output_scanline >= output_height
    => output_iMCU_row = total_iMCU_rows

\* Each strip the two-pass postprocessor asks the virtual array for is inside it,
\* and is read back only when it was written.
StripLegal ==
  /\ pc = "process" /\ process_data = "prepass" /\ next_row = 0 =>
       AccessLegal(starting_row, TRUE)
  /\ pc = "process" /\ process_data = "crank" /\ next_row = 0 =>
       AccessLegal(starting_row, FALSE)

\* The counters, the rows in the buffers, the rows returned and the strips asked
\* for stay within the image, the buffers and the virtual array (jdmainct.c,
\* jdpostct.c).
WithinBounds == TypeOK /\ NoRowPastBottom /\ StripLegal

\* A pass returns rows as long as it has any, takes every iMCU row, and stops
\* short of that for nothing but the data source (jdmainct.c, jdmerge.c).
RowsKeepComing == AllRowsTaken /\ ZeroMeansSuspended
===============================================================================
