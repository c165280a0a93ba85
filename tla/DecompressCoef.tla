---------------------------- MODULE DecompressCoef ----------------------------
(***************************************************************************)
(* The coefficient controller (jdcoefct.c) below the iMCU row: where each  *)
(* MCU's blocks go when the decoder may suspend before any MCU, which      *)
(* blocks an output pass reads and emits, with interblock smoothing or     *)
(* not, the scan set-up of jdinput.c, and the quantization tables that     *)
(* jdinput.c saves and jddctmgr.c turns into multiplier tables.            *)
(*                                                                         *)
(* A block is abstracted to the scan that last wrote it and its number     *)
(* among the blocks of that scan, in the order the decoder delivers them.  *)
(* The state machine around the passes is DecompressControl's; here the    *)
(* application reads input and starts passes whenever that one lets it.    *)
(***************************************************************************)
EXTENDS Integers, Sequences

CONSTANTS
  Images,       \* the datastreams, see CoefAssumption
  Methods,      \* values of dct_method
  MaxTables,    \* bound on the definitions of quantization tables
  MaxTarget     \* largest scan number an application asks for

\* A scan is the components in it, whether it holds DC coefficients, AC
\* coefficients or "all" of them, and the accuracy Al it brings them to.
ScanHeader == [comps : Seq(Nat), part : {"DC", "AC", "all"}, Al : Nat]

\* What initial_setup and get_sos admit; a component is in a scan once.
CoefAssumption ==
  \A im \in Images :
    /\ {im.image_width, im.image_height, im.block_size} \subseteq Nat \ {0}
    /\ im.h \in Seq(1 .. 4) \ {<<>>} /\ im.v \in Seq(1 .. 4)
    /\ Len(im.h) = Len(im.v) /\ Len(im.quant_tbl_no) = Len(im.h)
    /\ {im.progressive_mode, im.buffered_image} \subseteq BOOLEAN
    /\ im.needed \subseteq DOMAIN im.h
    /\ im.scans \in Seq(ScanHeader) \ {<<>>}
    /\ \A k \in DOMAIN im.scans :
         LET comps == im.scans[k].comps
         IN /\ comps # <<>>
            /\ \A i \in DOMAIN comps :
                 comps[i] \in DOMAIN im.h /\ \A j \in 1 .. i - 1 : comps[j] # comps[i]
            /\ im.scans[k].part \in (IF im.progressive_mode THEN {"DC", "AC"} ELSE {"all"})
            /\ im.scans[k].part = "AC" => Len(comps) = 1

ASSUME CoefAssumption
ASSUME BoundsAssumption ==
  /\ MaxTables \in Nat /\ MaxTarget \in Nat \ {0}
  /\ "none" \notin Methods

VARIABLES
  image,                \* the datastream; it never changes
  error,                \* an ERREXIT, or "none"
  consume_input,        \* "markers", "data", or "EOI" once that was reached
  input_scan_number, input_iMCU_row,
  MCU_vert_offset, MCU_ctr,   \* where consume_data or decompress_onepass goes on
  decoded,              \* blocks the entropy decoder has delivered in this scan
  coef_arrays,          \* the virtual arrays, by component, row and column
  quant_tbl_ptrs,       \* the table slots: number of the definition, 0 if none
  tables_defined,
  quant_table,          \* the copy saved for each component
  cur_method, dct_table,      \* the IDCT manager's, by component
  dct_method,
  output_scan_number, output_iMCU_row,
  decompress_data,      \* "none" (no pass), "onepass", "data", "smooth"
  coef_bits_latch,      \* AC accuracy of each component at the pass's start
  output_buf,           \* the blocks of the iMCU row being emitted
  emitted,              \* has that row just been completed?
  scan_at_start,        \* history: input_scan_number when the pass started
  tables_at_scan        \* history: the slots as each scan began

inputVars == <<consume_input, input_scan_number, input_iMCU_row, MCU_vert_offset,
               MCU_ctr, decoded, coef_arrays, quant_table, tables_at_scan>>
tableVars == <<quant_tbl_ptrs, tables_defined>>
idctVars == <<cur_method, dct_table, dct_method>>
outputVars == <<output_scan_number, output_iMCU_row, decompress_data,
                coef_bits_latch, output_buf, emitted, scan_at_start>>
vars == <<image, error, inputVars, tableVars, idctVars, outputVars>>

CeilDiv(a, b) == (a + b - 1) \div b
RoundUp(a, b) == CeilDiv(a, b) * b
MaxOf(s) == CHOOSE x \in {s[i] : i \in DOMAIN s} : \A i \in DOMAIN s : s[i] <= x

-------------------------------------------------------------------------------
(* initial_setup                                                           *)

Component == DOMAIN image.h
max_h_samp_factor == MaxOf(image.h)
max_v_samp_factor == MaxOf(image.v)

width_in_blocks(c) ==
  CeilDiv(image.image_width * image.h[c], max_h_samp_factor * image.block_size)
height_in_blocks(c) ==
  CeilDiv(image.image_height * image.v[c], max_v_samp_factor * image.block_size)

total_iMCU_rows == CeilDiv(image.image_height, max_v_samp_factor * image.block_size)

Scan(k) == image.scans[k]
has_multiple_scans == Len(Scan(1).comps) < Len(image.h) \/ image.progressive_mode

\* use_c_buffer of master_selection
FullBuffer == has_multiple_scans \/ image.buffered_image

\* Rows and columns of a virtual array, padded to whole MCUs.
ArrayRows(c) == RoundUp(height_in_blocks(c), image.v[c])
ArrayCols(c) == RoundUp(width_in_blocks(c), image.h[c])

\* Seeded fault: the window is not enlarged for smoothing.
MaxAccessPlain(c) == image.v[c]

\* Rows accessed at a time: three iMCU rows if smoothing could be used.
MaxAccess(c) == IF image.progressive_mode THEN 3 * image.v[c] ELSE image.v[c]

-------------------------------------------------------------------------------
(* per_scan_setup, for the scan being read                                 *)

Comps == Scan(input_scan_number).comps
Interleaved == Len(Comps) > 1

MCU_width(c) == IF Interleaved THEN image.h[c] ELSE 1
MCU_height(c) == IF Interleaved THEN image.v[c] ELSE 1

MCUs_per_row ==
  IF Interleaved THEN CeilDiv(image.image_width, max_h_samp_factor * image.block_size)
  ELSE width_in_blocks(Comps[1])

MCU_rows_in_scan ==
  IF Interleaved THEN CeilDiv(image.image_height, max_v_samp_factor * image.block_size)
  ELSE height_in_blocks(Comps[1])

\* What is left of a total in its last group of so many.
LastOf(total, group) == IF total % group = 0 THEN group ELSE total % group

last_col_width(c) ==
  IF Interleaved THEN LastOf(width_in_blocks(c), image.h[c]) ELSE 1

\* In a noninterleaved scan: block rows in the last iMCU row.
last_row_height(c) == LastOf(height_in_blocks(c), image.v[c])

\* Number of the first block of the i-th component of the scan within an MCU.
BlocksBefore[i \in 1 .. Len(Comps) + 1] ==
  IF i = 1 THEN 0
  ELSE BlocksBefore[i - 1] + MCU_width(Comps[i - 1]) * MCU_height(Comps[i - 1])

blocks_in_MCU == BlocksBefore[Len(Comps) + 1]

\* start_iMCU_row
MCU_rows_per_iMCU_row ==
  IF Interleaved THEN 1
  ELSE IF input_iMCU_row < total_iMCU_rows - 1 THEN image.v[Comps[1]]
  ELSE last_row_height(Comps[1])

-------------------------------------------------------------------------------
(* Reading                                                                 *)

MCUsInRow == MCU_rows_per_iMCU_row * MCUs_per_row

\* The MCUs are tried in this order; a call goes on where the last one stopped.
Resume == MCU_vert_offset * MCUs_per_row + MCU_ctr

\* A call decodes the MCUs from Resume up to, not including, MCU number stop.
InCall(stop, y, x) == LET m == y * MCUs_per_row + x IN Resume <= m /\ m < stop

\* The block that is number blkn of MCU (y, x) of the iMCU row, as delivered.
Delivered(y, x, blkn) ==
  [scan |-> input_scan_number,
   num |-> decoded + (y * MCUs_per_row + x - Resume) * blocks_in_MCU + blkn]

\* Seeded fault: the row offset within a noninterleaved iMCU row is not saved.
SaveColumnOnly(stop) ==
  /\ MCU_vert_offset' = 0
  /\ MCU_ctr' = stop % MCUs_per_row

\* Suspended before MCU number stop.
SavePlace(stop) ==
  /\ MCU_vert_offset' = stop \div MCUs_per_row
  /\ MCU_ctr' = stop % MCUs_per_row

\* The iMCU row is complete: the next one, or finish_input_pass.
NextRow ==
  /\ input_iMCU_row' = input_iMCU_row + 1
  /\ MCU_vert_offset' = 0
  /\ MCU_ctr' = 0
  /\ consume_input' = IF input_iMCU_row + 1 < total_iMCU_rows THEN consume_input
                      ELSE "markers"

\* decode_mcu returns TRUE until MCU number stop, then FALSE if there is one.
DecodeUntil(stop) ==
  /\ decoded' = decoded + (stop - Resume) * blocks_in_MCU
  /\ IF stop < MCUsInRow
       THEN SavePlace(stop) /\ UNCHANGED <<input_iMCU_row, consume_input>>
       ELSE NextRow
  /\ UNCHANGED <<input_scan_number, quant_table, tables_at_scan>>

\* access_virt_barray refuses rows outside the array or more than its window.
AccessOK(c, start, num) == start + num <= ArrayRows(c) /\ num <= MaxAccess(c)

\* Which component of the scan, MCU and block of it a row and column of the
\* strip for component i belong to.
BlockOf(i, row, col) ==
  LET c == Comps[i]
  IN [y |-> row \div MCU_height(c), x |-> col \div MCU_width(c),
      blkn |-> BlocksBefore[i] + (row % MCU_height(c)) * MCU_width(c) + (col % MCU_width(c))]

\* consume_data: blocks go to the strip of input_iMCU_row, dummy ones included.
ConsumeData ==
  /\ error = "none"
  /\ consume_input = "data" /\ FullBuffer
  /\ IF \E c \in {Comps[i] : i \in DOMAIN Comps} :
          ~AccessOK(c, input_iMCU_row * image.v[c], image.v[c])
       THEN error' = "BAD_VIRTUAL_ACCESS" /\ UNCHANGED inputVars
       ELSE \E stop \in Resume .. MCUsInRow :
              /\ DecodeUntil(stop)
              /\ coef_arrays' =
                   [c \in Component |->
                      IF \A i \in DOMAIN Comps : Comps[i] # c THEN coef_arrays[c]
                      ELSE LET i == CHOOSE j \in DOMAIN Comps : Comps[j] = c
                               first == input_iMCU_row * image.v[c]
                           IN [row \in DOMAIN coef_arrays[c] |->
                                 [col \in DOMAIN coef_arrays[c][row] |->
                                    LET b == BlockOf(i, row - first, col)
                                    IN IF row >= first /\ InCall(stop, b.y, b.x)
                                            /\ b.x < MCUs_per_row
                                         THEN Delivered(b.y, b.x, b.blkn)
                                         ELSE coef_arrays[c][row][col]]]]
              /\ UNCHANGED error
  /\ emitted' = FALSE
  /\ output_buf' = [c \in Component |-> <<>>]
  /\ UNCHANGED <<image, tableVars, idctVars, output_scan_number, output_iMCU_row,
                 decompress_data, coef_bits_latch, scan_at_start>>

\* get_dqt, between two scans: a slot gets a new table.
DefineTable ==
  /\ error = "none"
  /\ consume_input = "markers" /\ tables_defined < MaxTables
  /\ \E slot \in DOMAIN quant_tbl_ptrs :
       quant_tbl_ptrs' = [quant_tbl_ptrs EXCEPT ![slot] = tables_defined + 1]
  /\ tables_defined' = tables_defined + 1
  /\ UNCHANGED <<image, error, inputVars, idctVars, outputVars>>

\* latch_quant_tables, for scan k: only a component's first scan counts.
SavedTable(c, k) ==
  IF quant_table[c] # 0 \/ \A i \in DOMAIN Scan(k).comps : Scan(k).comps[i] # c
    THEN quant_table[c]
    ELSE quant_tbl_ptrs[image.quant_tbl_no[c]]

\* consume_markers: a second scan when the first had all components.
UnexpectedScan(k) == k > 1 /\ ~has_multiple_scans

\* The next SOS, and start_input_pass: called by jinit_master_decompress for
\* the first scan, by consume_markers for the others.
StartInputPass ==
  /\ error = "none"
  /\ consume_input = "markers"
  /\ input_scan_number < Len(image.scans)
  /\ LET k == input_scan_number + 1
     IN /\ input_scan_number' = k
        /\ IF UnexpectedScan(k)
             THEN error' = "EOI_EXPECTED" /\ UNCHANGED <<tables_at_scan, quant_table>>
             ELSE /\ tables_at_scan' = Append(tables_at_scan, quant_tbl_ptrs)
                  /\ quant_table' = [c \in Component |-> SavedTable(c, k)]
                  /\ error' = IF \E i \in DOMAIN Scan(k).comps :
                                   quant_table'[Scan(k).comps[i]] = 0
                                THEN "NO_QUANT_TABLE" ELSE "none"
  /\ IF error' = "none"
       THEN /\ consume_input' = "data"
            /\ input_iMCU_row' = 0 /\ MCU_vert_offset' = 0 /\ MCU_ctr' = 0
            /\ decoded' = 0
       ELSE UNCHANGED <<consume_input, input_iMCU_row, MCU_vert_offset, MCU_ctr, decoded>>
  /\ UNCHANGED <<image, coef_arrays, tableVars, idctVars, outputVars>>

\* consume_markers at the end: it lowers a target beyond the last scan.
ReachEOI ==
  /\ error = "none"
  /\ consume_input = "markers"
  /\ input_scan_number = Len(image.scans)
  /\ consume_input' = "EOI"
  /\ output_scan_number' = IF output_scan_number > input_scan_number
                             THEN input_scan_number ELSE output_scan_number
  /\ UNCHANGED <<image, error, input_scan_number, input_iMCU_row, MCU_vert_offset,
                 MCU_ctr, decoded, coef_arrays, quant_table, tables_at_scan,
                 tableVars, idctVars, output_iMCU_row, decompress_data,
                 coef_bits_latch, output_buf, emitted, scan_at_start>>

-------------------------------------------------------------------------------
(* Output passes                                                           *)

ZeroTable == [method |-> "none", table |-> 0]

\* Seeded fault: the method is noted although there is no table to build from.
BuildTablesEarly(method) ==
  /\ cur_method' = [c \in Component |-> IF c \in image.needed THEN method ELSE cur_method[c]]
  /\ dct_table' =
       [c \in Component |->
          IF c \in image.needed /\ cur_method[c] # method /\ quant_table[c] # 0
            THEN [method |-> method, table |-> quant_table[c]] ELSE dct_table[c]]

\* start_pass of jddctmgr.c: multiplier tables are built once per method, from
\* saved quantization tables only.
BuildTables(method) ==
  LET build == {c \in image.needed : cur_method[c] # method /\ quant_table[c] # 0}
  IN /\ cur_method' = [c \in Component |-> IF c \in build THEN method ELSE cur_method[c]]
     /\ dct_table' =
          [c \in Component |->
             IF c \in build THEN [method |-> method, table |-> quant_table[c]]
             ELSE dct_table[c]]

Unknown == -1

\* coef_bits, after the scans up to number k: the accuracy of a component's DC
\* or AC coefficients.
CoefBits[k \in 0 .. Len(image.scans)] ==
  IF k = 0 THEN [c \in Component |-> [DC |-> Unknown, AC |-> Unknown]]
  ELSE [c \in Component |->
          IF \A i \in DOMAIN Scan(k).comps : Scan(k).comps[i] # c THEN CoefBits[k - 1][c]
          ELSE IF Scan(k).part = "DC" THEN [CoefBits[k - 1][c] EXCEPT !.DC = Scan(k).Al]
          ELSE [CoefBits[k - 1][c] EXCEPT !.AC = Scan(k).Al]]

coef_bits == CoefBits[input_scan_number]

\* smoothing_ok
SmoothingOK ==
  /\ image.progressive_mode
  /\ \A c \in Component : quant_table[c] # 0 /\ coef_bits[c].DC >= 0
  /\ \E c \in Component : coef_bits[c].AC # 0

ACBits(c) == coef_bits_latch[c]

\* Unless a pass is going on; buffered_image lets the application choose the
\* target, otherwise a file of several scans has been read to its end.
MayStart(target) ==
  /\ input_scan_number > 0
  /\ decompress_data = "none"
  /\ CASE image.buffered_image ->
            target \in 1 .. (IF consume_input = "EOI" THEN input_scan_number ELSE MaxTarget)
       [] FullBuffer /\ ~image.buffered_image ->
            consume_input = "EOI" /\ target = input_scan_number
       [] ~FullBuffer -> consume_input = "data" /\ target = input_scan_number

\* prepare_for_output_pass: start_pass of the IDCT manager and start_output_pass.
StartOutputPass(target, method, smooth) ==
  /\ error = "none"
  /\ MayStart(target)
  /\ output_scan_number' = target
  /\ dct_method' = method
  /\ BuildTables(method)
  /\ output_iMCU_row' = 0
  /\ IF FullBuffer /\ smooth /\ SmoothingOK
       THEN /\ decompress_data' = "smooth"
            /\ coef_bits_latch' = [c \in Component |-> coef_bits[c].AC]
       ELSE /\ decompress_data' = IF FullBuffer THEN "data" ELSE "onepass"
            /\ UNCHANGED coef_bits_latch
  /\ output_buf' = [c \in Component |-> <<>>]
  /\ emitted' = FALSE
  /\ scan_at_start' = input_scan_number
  /\ UNCHANGED <<image, error, inputVars, tableVars>>

\* jpeg_finish_output, or the end of the only pass.
FinishOutputPass ==
  /\ error = "none"
  /\ decompress_data # "none"
  /\ IF image.buffered_image THEN input_scan_number > output_scan_number \/ consume_input = "EOI"
     ELSE output_iMCU_row = total_iMCU_rows
  /\ decompress_data' = "none"
  /\ emitted' = FALSE
  /\ UNCHANGED <<image, error, inputVars, tableVars, idctVars, output_scan_number,
                 output_iMCU_row, coef_bits_latch, output_buf, scan_at_start>>

\* The blocks of component c emitted so far in an iMCU row that was complete.
Emitting(c) == IF emitted THEN <<>> ELSE output_buf[c]

\* Seeded fault: dummy blocks at the right edge are emitted.
UsefulWidthFull(c, x) == MCU_width(c)

UsefulWidth(c, x) == IF x < MCUs_per_row - 1 THEN MCU_width(c) ELSE last_col_width(c)

\* The blocks of the MCUs of a call to emit for the i-th component of the scan:
\* real ones, at their row and column in the iMCU row.
EmittedInCall(i, stop) ==
  LET c == Comps[i]
      col(x, xindex) == x * MCU_width(c) + xindex
  IN {p \in (0 .. image.v[c] - 1) \X (0 .. ArrayCols(c) - 1) :
        LET b == BlockOf(i, p[1], p[2])
        IN /\ b.x < MCUs_per_row /\ InCall(stop, b.y, b.x)
           /\ p[2] % MCU_width(c) < UsefulWidth(c, b.x)
           /\ \/ input_iMCU_row < total_iMCU_rows - 1
              \/ p[1] < last_row_height(c)}

\* decompress_onepass
DecompressOnepass ==
  /\ error = "none"
  /\ decompress_data = "onepass"
  /\ consume_input = "data"
  /\ \E stop \in Resume .. MCUsInRow :
       /\ DecodeUntil(stop)
       /\ output_buf' =
            [c \in Component |->
               IF c \notin image.needed THEN <<>>
               ELSE LET i == CHOOSE j \in DOMAIN Comps : Comps[j] = c
                        new == EmittedInCall(i, stop)
                    IN [p \in new \cup DOMAIN Emitting(c) |->
                          IF p \in new
                            THEN LET b == BlockOf(i, p[1], p[2])
                                 IN Delivered(b.y, b.x, b.blkn)
                            ELSE Emitting(c)[p]]]
       /\ emitted' = (stop = MCUsInRow)
       /\ output_iMCU_row' = IF stop = MCUsInRow THEN output_iMCU_row + 1
                             ELSE output_iMCU_row
  /\ UNCHANGED <<image, error, coef_arrays, tableVars, idctVars, output_scan_number,
                 decompress_data, coef_bits_latch, scan_at_start>>

\* Non-dummy block rows in the iMCU row to be emitted.
BlockRows(c) ==
  IF output_iMCU_row < total_iMCU_rows - 1 THEN image.v[c]
  ELSE LastOf(height_in_blocks(c), image.v[c])

OutputRefused(start(_), num(_)) ==
  \E c \in image.needed : ~AccessOK(c, start(c), num(c))

EmitFrom(contents(_, _, _)) ==
  /\ output_buf' =
       [c \in Component |->
          IF c \notin image.needed THEN <<>>
          ELSE [p \in (0 .. BlockRows(c) - 1) \X (0 .. width_in_blocks(c) - 1) |->
                  contents(c, p[1], p[2])]]
  /\ emitted' = TRUE
  /\ output_iMCU_row' = output_iMCU_row + 1
  /\ UNCHANGED error

\* decompress_data, once the interlock lets it.
DecompressData ==
  LET start(c) == output_iMCU_row * image.v[c]
      num(c) == image.v[c]
      block(c, row, col) == coef_arrays[c][start(c) + row][col]
  IN /\ error = "none"
     /\ decompress_data = "data"
     /\ output_iMCU_row < total_iMCU_rows
     /\ \/ input_scan_number > output_scan_number
        \/ /\ input_scan_number = output_scan_number
           /\ input_iMCU_row > output_iMCU_row
     /\ IF OutputRefused(start, num)
          THEN error' = "BAD_VIRTUAL_ACCESS" /\ UNCHANGED <<output_buf, emitted, output_iMCU_row>>
          ELSE EmitFrom(block)
     /\ UNCHANGED <<image, inputVars, tableVars, idctVars, output_scan_number,
                    decompress_data, coef_bits_latch, scan_at_start>>

\* Seeded fault: a DC scan need not be a row ahead.
delta_none == 0

\* A DC scan stays a row ahead, for the DC values of the next block row.
delta == IF Scan(input_scan_number).part = "DC" THEN 1 ELSE 0

\* The columns whose DC values are in the three sliding registers of a row when
\* the block of column x is estimated.
Columns(c) ==
  LET last == width_in_blocks(c) - 1
      reg[x \in 0 .. last] ==
        LET was == IF x = 0 THEN <<0, 0, 0>> ELSE <<reg[x - 1][2], reg[x - 1][3], reg[x - 1][3]>>
        IN IF x < last THEN <<was[1], was[2], x + 1>> ELSE was
  IN reg

\* The block rows before and after a row of the strip, within the buffer, whose
\* row 0 is the first of the current iMCU row.
PrevBlockRow(c, row) == IF output_iMCU_row = 0 /\ row = 0 THEN row ELSE row - 1
NextBlockRow(c, row) ==
  IF output_iMCU_row = total_iMCU_rows - 1 /\ row = BlockRows(c) - 1 THEN row ELSE row + 1

\* decompress_smooth_data: the current, previous and next iMCU rows are accessed;
\* each block comes with the DC values around it, and its unknown AC
\* coefficients are estimated unless the latched accuracy is full.
DecompressSmoothData ==
  LET start(c) == IF output_iMCU_row > 0 THEN (output_iMCU_row - 1) * image.v[c] ELSE 0
      num(c) == (IF output_iMCU_row < total_iMCU_rows - 1 THEN 2 * image.v[c]
                 ELSE BlockRows(c))
                + (IF output_iMCU_row > 0 THEN image.v[c] ELSE 0)
      current(c) == IF output_iMCU_row > 0 THEN start(c) + image.v[c] ELSE start(c)
      at(c, row, col) == coef_arrays[c][current(c) + row][col]
      block(c, row, col) ==
        [block |-> at(c, row, col),
         around |-> [i \in 1 .. 9 |->
           LET r == <<PrevBlockRow(c, row), row, NextBlockRow(c, row)>>
           IN at(c, r[(i - 1) \div 3 + 1], Columns(c)[col][1 + ((i - 1) % 3)])],
         estimated |-> ACBits(c) # 0,
         bits |-> ACBits(c)]
  IN /\ error = "none"
     /\ decompress_data = "smooth"
     /\ output_iMCU_row < total_iMCU_rows
     /\ \/ input_scan_number > output_scan_number
        \/ consume_input = "EOI"
        \/ /\ input_scan_number = output_scan_number
           /\ input_iMCU_row > output_iMCU_row + delta
     /\ IF OutputRefused(start, num)
          THEN error' = "BAD_VIRTUAL_ACCESS" /\ UNCHANGED <<output_buf, emitted, output_iMCU_row>>
          ELSE EmitFrom(block)
     /\ UNCHANGED <<image, inputVars, tableVars, idctVars, output_scan_number,
                    decompress_data, coef_bits_latch, scan_at_start>>

-------------------------------------------------------------------------------
NoBlock == [scan |-> 0, num |-> 0]

\* jinit_d_coef_controller pre-zeroes the arrays, jinit_inverse_dct the tables.
Init ==
  /\ image \in Images
  /\ error = "none"
  /\ consume_input = "markers" /\ input_scan_number = 0 /\ input_iMCU_row = 0
  /\ MCU_vert_offset = 0 /\ MCU_ctr = 0
  /\ decoded = 0
  /\ coef_arrays =
       [c \in Component |-> [row \in 0 .. ArrayRows(c) - 1 |->
          [col \in 0 .. ArrayCols(c) - 1 |-> NoBlock]]]
  /\ quant_tbl_ptrs = [slot \in {image.quant_tbl_no[c] : c \in Component} |-> 0]
  /\ tables_defined = 0
  /\ quant_table = [c \in Component |-> 0]
  /\ cur_method = [c \in Component |-> "none"]
  /\ dct_table = [c \in Component |-> ZeroTable]
  /\ dct_method \in Methods
  /\ output_scan_number = 0 /\ output_iMCU_row = 0
  /\ decompress_data = "none"
  /\ coef_bits_latch = [c \in Component |-> Unknown]
  /\ output_buf = [c \in Component |-> <<>>]
  /\ emitted = FALSE
  /\ scan_at_start = 0
  /\ tables_at_scan = <<>>

Next ==
  \/ ConsumeData \/ DefineTable \/ StartInputPass \/ ReachEOI
  \/ \E target \in 1 .. MaxTarget, method \in Methods, smooth \in BOOLEAN :
       StartOutputPass(target, method, smooth)
  \/ FinishOutputPass \/ DecompressOnepass \/ DecompressData \/ DecompressSmoothData

Spec == Init /\ [][Next]_vars

-------------------------------------------------------------------------------
(* Properties                                                              *)

TypeOK ==
  /\ error \in {"none", "NO_QUANT_TABLE", "EOI_EXPECTED", "BAD_VIRTUAL_ACCESS"}
  /\ consume_input \in {"markers", "data", "EOI"}
  /\ input_scan_number \in 0 .. Len(image.scans)
  /\ input_iMCU_row \in 0 .. total_iMCU_rows
  /\ input_scan_number > 0 /\ consume_input = "data" =>
       /\ MCU_vert_offset \in 0 .. MCU_rows_per_iMCU_row - 1
       /\ MCU_ctr \in 0 .. MCUs_per_row - 1
  /\ \A c \in Component :
       /\ quant_table[c] \in 0 .. MaxTables
       /\ cur_method[c] \in Methods \cup {"none"}
       /\ dct_table[c].table \in 0 .. MaxTables
  /\ output_scan_number \in 0 .. MaxTarget
  /\ output_iMCU_row \in 0 .. total_iMCU_rows
  /\ decompress_data \in {"none", "onepass", "data", "smooth"}
  /\ emitted \in BOOLEAN

\* Of the first components of an interleaved scan, the blocks in an MCU.
BlocksUpTo(comps) ==
  LET before[i \in 1 .. Len(comps) + 1] ==
        IF i = 1 THEN 0 ELSE before[i - 1] + image.h[comps[i - 1]] * image.v[comps[i - 1]]
  IN before

\* The place of a block in scan k as section A.2 of the JPEG standard numbers
\* them: left to right and top to bottom, by MCU if the scan is interleaved.
StreamOrder(k, c, row, col) ==
  LET comps == Scan(k).comps
      before == BlocksUpTo(comps)
      across == CeilDiv(image.image_width, max_h_samp_factor * image.block_size)
      i == CHOOSE j \in DOMAIN comps : comps[j] = c
  IN IF Len(comps) = 1 THEN row * width_in_blocks(c) + col
     ELSE ((row \div image.v[c]) * across + col \div image.h[c]) * before[Len(comps) + 1]
          + before[i] + (row % image.v[c]) * image.h[c] + (col % image.h[c])

InScan(c, k) == \E i \in DOMAIN Scan(k).comps : Scan(k).comps[i] = c

Real(c, row, col) == row < height_in_blocks(c) /\ col < width_in_blocks(c)

\* A block that was stored holds the data that the scan has for this very block;
\* a noninterleaved scan writes no dummy block.
InPlace(c, row, col) ==
  LET b == coef_arrays[c][row][col]
  IN b.scan # 0 =>
       /\ InScan(c, b.scan) /\ b.num = StreamOrder(b.scan, c, row, col)
       /\ Len(Scan(b.scan).comps) = 1 => Real(c, row, col)

\* Wherever and however often the decoder suspended, each block of the arrays is
\* in its place; and when a scan is over, as many MCUs were decoded as
\* per_scan_setup computed and every block of its components is the scan's.
ScanStored ==
  /\ \A c \in Component :
       \A row \in DOMAIN coef_arrays[c] :
         \A col \in DOMAIN coef_arrays[c][row] : InPlace(c, row, col)
  /\ error = "none" /\ consume_input # "data" /\ input_scan_number > 0 =>
    /\ decoded = MCUs_per_row * MCU_rows_in_scan * blocks_in_MCU
    /\ FullBuffer =>
         \A c \in {Comps[i] : i \in DOMAIN Comps} :
           \A row \in 0 .. height_in_blocks(c) - 1 :
             \A col \in 0 .. width_in_blocks(c) - 1 :
               coef_arrays[c][row][col].scan = input_scan_number

Block(b) == IF decompress_data = "smooth" THEN b.block ELSE b

\* Every iMCU row that is emitted has exactly the real blocks of the needed
\* components, each in its place: dummy blocks, which would overrun the main
\* controller's buffer at the right edge, are skipped.
OutputRight ==
  emitted =>
    \A c \in image.needed :
      LET first == (output_iMCU_row - 1) * image.v[c]
      IN /\ DOMAIN output_buf[c] =
              {p \in (0 .. image.v[c] - 1) \X (0 .. width_in_blocks(c) - 1) :
                 Real(c, first + p[1], p[2])}
         /\ \A p \in DOMAIN output_buf[c] :
              LET b == Block(output_buf[c][p])
              IN b.scan # 0 => b.num = StreamOrder(b.scan, c, first + p[1], p[2])

Clamp(x, high) == IF x < 0 THEN 0 ELSE IF x > high THEN high ELSE x

\* Smoothing estimates a block from its eight real neighbours, the edges
\* repeated, and in a DC scan from DC values that are all of that scan.
NeighboursRight ==
  emitted /\ decompress_data = "smooth" =>
    \A c \in image.needed :
      \A p \in DOMAIN output_buf[c] :
        \A i \in 1 .. 9 :
          LET row == (output_iMCU_row - 1) * image.v[c] + p[1]
              near == coef_arrays[c]
                        [Clamp(row + (i - 1) \div 3 - 1, height_in_blocks(c) - 1)]
                        [Clamp(p[2] + ((i - 1) % 3) - 1, width_in_blocks(c) - 1)]
          IN /\ output_buf[c][p].around[i] = near
             /\ Scan(output_scan_number).part = "DC" /\ InScan(c, output_scan_number)
                  => near.scan >= output_scan_number

\* Unless it displays a scan that is already past, a pass never takes a
\* coefficient for more accurate than the block's data is, although the input
\* may enter a better scan meanwhile (comment of smoothing_ok).
EstimateSafe ==
  emitted /\ decompress_data = "smooth" /\ output_scan_number >= scan_at_start =>
    \A c \in image.needed :
      \A p \in DOMAIN output_buf[c] :
        LET known == CoefBits[output_buf[c][p].block.scan][c].AC
            bits == output_buf[c][p].bits
        IN bits # Unknown => known # Unknown /\ known <= bits

Scanned(c, k) == \E j \in DOMAIN image.scans : j <= k /\ InScan(c, j)

FirstScan(c) ==
  CHOOSE k \in DOMAIN image.scans : InScan(c, k) /\ \A j \in 1 .. k - 1 : ~InScan(c, j)

\* A pass dequantizes each component with the table that was in its slot when
\* the component's first scan began, whatever the slot was given since, made for
\* the method of this pass; with zeroes if there was no such scan yet.
TableRight ==
  decompress_data # "none" =>
    \A c \in image.needed :
      dct_table[c] =
        IF Scanned(c, scan_at_start)
          THEN [method |-> dct_method,
                table |-> tables_at_scan[FirstScan(c)][image.quant_tbl_no[c]]]
          ELSE ZeroTable

\* Every strip asked for lies in its virtual array and in the window requested.
NoBadAccess == error # "BAD_VIRTUAL_ACCESS"

\* jddctmgr.c:263-266: a multiplier table is only left zero for a component for
\* which "we'll be reading zeroes from the coefficient controller's buffer
\* anyway"; libjpeg.txt:1970-1973: a large target scan number is "effectively
\* the same" as absorbing the whole file first.
NoDataZeroed ==
  emitted =>
    \A c \in image.needed :
      Scanned(c, output_scan_number) /\ dct_table[c] = ZeroTable =>
        \A p \in DOMAIN output_buf[c] : Block(output_buf[c][p]).scan = 0

\* The counters stay within the scan and the image, and the accesses within the
\* arrays, smoothing's of three iMCU rows included (jinit_d_coef_controller).
WithinBounds == TypeOK /\ NoBadAccess

\* Smoothing reads the neighbours it should and takes none of them for more
\* accurate than it is (smoothing_ok, decompress_smooth_data).
SmoothingRight == NeighboursRight /\ EstimateSafe
===============================================================================
