-------------------------- MODULE DecompressControl --------------------------
(***************************************************************************)
(* The life of one decompression object: the API entry points of           *)
(* jdapimin.c, jdapistd.c and jdtrans.c with their DSTATE_xxx state        *)
(* machine, the input controller (jdinput.c) whose consume_input method    *)
(* reads markers or entropy-coded data, the pass sequencing of jdmaster.c, *)
(* and the input/output interlock of the coefficient controller            *)
(* (jdcoefct.c).                                                           *)
(*                                                                         *)
(* An API call is entered by one action (its state check included) and     *)
(* then runs in steps, one per call of consume_input or per iMCU row of    *)
(* output, until it returns; the source may suspend, and the data may be   *)
(* found corrupt, at every step.  Between two calls the application does   *)
(* what it likes, within the documented rules of use.                      *)
(*                                                                         *)
(* The unit of input and of output is the iMCU row: where inside a row the *)
(* decoder suspended, and how the main and post-processing controllers cut *)
(* a row into scanlines, is left to other modules.                         *)
(***************************************************************************)
EXTENDS Integers, Sequences

CONSTANTS
  Streams,       \* datastreams the source may deliver, see StreamsAssumption
  Rows,          \* total_iMCU_rows
  MaxScanArg,    \* largest scan number an application asks for
  RepeatsCall,   \* does it repeat a suspended jpeg_start_output unchanged?
  BufferedModes, TwoPassModes, RawModes, SmoothModes
                 \* values of the parameters the application may choose

\* A datastream is what read_markers finds in it, up to EOI: scans that start
\* with DC or AC coefficients and, in progressive files, pseudo SOS markers.
\* multi: is its first scan not the whole image?
StreamsAssumption ==
  \A s \in Streams :
    /\ s.multi \in BOOLEAN
    /\ s.items \in Seq({"DC", "AC", "pseudo", "EOI"})
    /\ Len(s.items) > 0 /\ s.items[Len(s.items)] = "EOI"
    /\ \A i \in 1 .. Len(s.items) - 1 : s.items[i] \in {"DC", "AC", "pseudo"}
    /\ s.saw_SOF \/ Len(s.items) = 1

ASSUME ControlAssumption ==
  /\ StreamsAssumption
  /\ Rows \in Nat \ {0}
  /\ MaxScanArg \in Nat
  /\ RepeatsCall \in BOOLEAN
  /\ {BufferedModes, TwoPassModes, RawModes, SmoothModes} \subseteq SUBSET BOOLEAN

VARIABLES
  global_state,         \* DSTATE_xxx without the prefix
  call,                 \* the entry point being executed, or "none"
  result,               \* what the last call returned
  error,                \* the ERREXIT that ended the last call, or "none"
  stream, pos,          \* the datastream and how much of it was read
  consume_input,        \* the input controller's method: "markers", "data", "dummy"
  inheaders,            \* 1, 2 until the first SOS, then 0
  eoi_reached, has_multiple_scans,
  input_scan_number, input_iMCU_row,
  output_scan_number, output_iMCU_row,
  output_scanline,      \* counted in iMCU rows
  buffered_image, raw_data_out, enable_2pass_quant, do_block_smoothing,
  colormap,             \* is there one?
  is_dummy_pass,
  decompress_data,      \* the coefficient controller's method
  cranking,             \* main controller in JBUF_CRANK_DEST: emit the saved image
  scan_arg,             \* argument of the jpeg_start_output in progress
  shown                 \* history: scans behind each row of this output pass

inputVars == <<stream, pos, consume_input, inheaders, eoi_reached,
               has_multiple_scans, input_scan_number, input_iMCU_row>>
outputVars == <<output_iMCU_row, output_scanline, colormap, is_dummy_pass,
                decompress_data, cranking, shown>>
paramVars == <<buffered_image, raw_data_out, enable_2pass_quant,
               do_block_smoothing, scan_arg>>
vars == <<global_state, call, result, error, inputVars, output_scan_number,
          outputVars, paramVars>>

States == {"START", "INHEADER", "READY", "PRELOAD", "PRESCAN", "SCANNING",
           "RAW_OK", "BUFIMAGE", "BUFPOST", "RDCOEFS", "STOPPING"}

Calls == {"jpeg_consume_input", "jpeg_read_header", "jpeg_start_decompress",
          "jpeg_read_scanlines", "jpeg_read_raw_data", "jpeg_start_output",
          "jpeg_finish_output", "jpeg_new_colormap", "jpeg_finish_decompress",
          "jpeg_read_coefficients"}

Errors == {"BAD_STATE", "CORRUPT", "EOI_EXPECTED", "SOF_NO_SOS", "NO_IMAGE",
           "TOO_LITTLE_DATA", "NOTIMPL", "MODE_CHANGE"}

ScanNumbers == 0 .. MaxScanArg

Row == 0 .. Rows - 1

TypeOK ==
  /\ global_state \in States
  /\ call \in Calls \cup {"none"}
  /\ result \in {"none", "SUSPENDED", "SOS", "EOI", "ROW", "TRUE"}
  /\ error \in Errors \cup {"none"}
  /\ stream \in Streams /\ pos \in 0 .. Len(stream.items)
  /\ consume_input \in {"markers", "data", "dummy"}
  /\ inheaders \in 0 .. 2
  /\ {eoi_reached, has_multiple_scans, buffered_image, raw_data_out, colormap,
      enable_2pass_quant, do_block_smoothing, is_dummy_pass, cranking}
        \subseteq BOOLEAN
  /\ input_scan_number \in 0 .. Len(stream.items)
  /\ input_iMCU_row \in 0 .. Rows
  /\ output_scan_number \in Nat
  /\ output_iMCU_row \in 0 .. Rows
  /\ output_scanline \in 0 .. Rows
  /\ decompress_data \in {"onepass", "data", "smooth"}
  /\ scan_arg \in ScanNumbers
  /\ shown \in [Row -> Nat]

-------------------------------------------------------------------------------
(* The input controller                                                    *)

NextItem == stream.items[pos + 1]

\* Is the scan being read one of DC coefficients (cinfo->Ss == 0)?
InDCScan == pos > 0 /\ stream.items[pos] = "DC"

\* jinit_d_coef_controller(need_full_buffer): only then is there a coefficient
\* buffer for consume_data to fill.
FullBuffer(buffered) == has_multiple_scans \/ buffered

\* start_input_pass
StartInputPass ==
  /\ consume_input' = IF FullBuffer(buffered_image) THEN "data" ELSE "dummy"
  /\ input_iMCU_row' = 0

\* An SOS without components: processed, then skipped for other markers.
PseudoSOS(ret) ==
  /\ NextItem = "pseudo"
  /\ pos' = pos + 1
  /\ IF inheaders > 0
       THEN /\ ret = "AGAIN"
            /\ inheaders' = 2
            /\ has_multiple_scans' = (inheaders = 1 \/ has_multiple_scans)
       ELSE /\ ret = IF has_multiple_scans THEN "AGAIN" ELSE "EOI_EXPECTED"
            /\ UNCHANGED <<inheaders, has_multiple_scans>>
  /\ UNCHANGED <<stream, consume_input, eoi_reached, input_scan_number,
                 input_iMCU_row, output_scan_number>>

\* get_sos counts the scan, then consume_markers acts on it.  The first scan is
\* started by jinit_master_decompress, the others are started here.
FoundSOS(ret) ==
  /\ NextItem \in {"DC", "AC"}
  /\ pos' = pos + 1
  /\ input_scan_number' = input_scan_number + 1
  /\ IF inheaders > 0
       THEN /\ ret = "SOS"
            /\ inheaders' = 0
            /\ has_multiple_scans' = IF inheaders = 1 THEN stream.multi
                                     ELSE has_multiple_scans
            /\ UNCHANGED <<consume_input, input_iMCU_row>>
       ELSE /\ UNCHANGED <<inheaders, has_multiple_scans>>
            /\ IF has_multiple_scans
                 THEN ret = "SOS" /\ StartInputPass
                 ELSE ret = "EOI_EXPECTED" /\ UNCHANGED <<consume_input, input_iMCU_row>>
  /\ UNCHANGED <<stream, eoi_reached, output_scan_number>>

\* Seeded fault: the target scan is not limited to the scans there are.
FoundEOINoLimit(ret) ==
  /\ NextItem = "EOI"
  /\ pos' = pos + 1
  /\ eoi_reached' = TRUE
  /\ ret = IF inheaders > 0 /\ stream.saw_SOF THEN "SOF_NO_SOS" ELSE "EOI"
  /\ UNCHANGED <<stream, consume_input, inheaders, has_multiple_scans,
                 input_scan_number, input_iMCU_row, output_scan_number>>

FoundEOI(ret) ==
  /\ NextItem = "EOI"
  /\ pos' = pos + 1
  /\ eoi_reached' = TRUE
  /\ ret = IF inheaders > 0 /\ stream.saw_SOF THEN "SOF_NO_SOS" ELSE "EOI"
  /\ output_scan_number' =
       IF inheaders = 0 /\ output_scan_number > input_scan_number
         THEN input_scan_number ELSE output_scan_number
  /\ UNCHANGED <<stream, consume_input, inheaders, has_multiple_scans,
                 input_scan_number, input_iMCU_row>>

\* consume_markers: one turn of its loop, "AGAIN" if it is to go round again.
ConsumeMarkers(ret) ==
  /\ consume_input = "markers"
  /\ \/ /\ ret = IF eoi_reached THEN "EOI" ELSE "SUSPENDED"
        /\ UNCHANGED <<inputVars, output_scan_number>>
     \/ /\ ~eoi_reached
        /\ \/ PseudoSOS(ret) \/ FoundSOS(ret) \/ FoundEOI(ret)

\* Seeded fault: the method stays in place when the scan has been read.
FinishInputPassNot == consume_input

\* The method after the current iMCU row was read: finish_input_pass.
FinishInputPass ==
  IF input_iMCU_row + 1 < Rows THEN consume_input ELSE "markers"

\* consume_data, one iMCU row into the coefficient buffer.
ConsumeData(ret) ==
  /\ consume_input = "data"
  /\ \/ /\ ret = "SUSPENDED"
        /\ UNCHANGED <<consume_input, input_iMCU_row>>
     \/ /\ ret = "ROW"
        /\ input_iMCU_row' = input_iMCU_row + 1
        /\ consume_input' = FinishInputPass
  /\ UNCHANGED <<stream, pos, inheaders, eoi_reached, has_multiple_scans,
                 input_scan_number, output_scan_number>>

\* dummy_consume_data
DummyConsumeData(ret) ==
  /\ consume_input = "dummy"
  /\ ret = "SUSPENDED"
  /\ UNCHANGED <<inputVars, output_scan_number>>

\* (*cinfo->inputctl->consume_input) (cinfo).  Whatever reads data may find it
\* corrupt and not return.
Consume(ret) ==
  \/ ConsumeMarkers(ret)
  \/ ConsumeData(ret)
  \/ DummyConsumeData(ret)
  \/ /\ consume_input # "dummy" /\ ~eoi_reached
     /\ ret = "CORRUPT"
     /\ UNCHANGED <<inputVars, output_scan_number>>

Returns == {"SUSPENDED", "SOS", "EOI", "ROW", "AGAIN"}

ConsumeResults == Returns \cup {"CORRUPT", "EOI_EXPECTED", "SOF_NO_SOS"}

-------------------------------------------------------------------------------
(* Entering and leaving an API call                                        *)

Idle == call = "none" /\ error = "none"

Return(r) ==
  /\ call' = "none"
  /\ result' = r
  /\ UNCHANGED error

Stay == UNCHANGED <<call, result, error>>

\* ERREXIT: the name of the entry point is kept with the error.
Fail(code) ==
  /\ error' = code
  /\ UNCHANGED <<call, result>>

\* What a loop "until suspended" around consume_input does with its result.
LoopUnlessSuspended(ret) ==
  IF ret = "SUSPENDED" THEN Return(ret)
  ELSE IF ret \in Returns THEN Stay
  ELSE Fail(ret)

\* The state check at the head of each entry point.
Allowed(f) ==
  CASE f = "jpeg_consume_input" -> global_state # "RDCOEFS"
    [] f = "jpeg_read_header" -> global_state \in {"START", "INHEADER"}
    [] f = "jpeg_start_decompress" -> global_state \in {"READY", "PRELOAD", "PRESCAN"}
    [] f = "jpeg_read_scanlines" -> global_state = "SCANNING"
    [] f = "jpeg_read_raw_data" -> global_state = "RAW_OK"
    [] f = "jpeg_start_output" -> global_state \in {"BUFIMAGE", "PRESCAN"}
    [] f = "jpeg_finish_output" ->
         \/ global_state \in {"SCANNING", "RAW_OK"} /\ buffered_image
         \/ global_state = "BUFPOST"
    [] f = "jpeg_new_colormap" -> global_state = "BUFIMAGE"
    [] f = "jpeg_finish_decompress" ->
         \/ global_state \in {"SCANNING", "RAW_OK"} /\ ~buffered_image
         \/ global_state \in {"BUFIMAGE", "STOPPING"}
    [] f = "jpeg_read_coefficients" ->
         \/ global_state \in {"READY", "RDCOEFS"}
         \/ global_state \in {"STOPPING", "BUFIMAGE"} /\ buffered_image

BadCall(f) ==
  /\ Idle
  /\ ~Allowed(f)
  /\ call' = f
  /\ error' = "BAD_STATE"
  /\ UNCHANGED <<global_state, result, inputVars, output_scan_number, outputVars,
                 paramVars>>

Enter(f) ==
  /\ Idle
  /\ Allowed(f)
  /\ call' = f
  /\ UNCHANGED <<result, error>>

-------------------------------------------------------------------------------
(* Reading the header: jpeg_consume_input, jpeg_read_header                *)

\* Seeded fault: reset_input_controller leaves the method alone.
ResetInputControllerNot ==
  /\ has_multiple_scans' = FALSE
  /\ eoi_reached' = FALSE
  /\ inheaders' = 1
  /\ input_scan_number' = 0
  /\ UNCHANGED consume_input

\* reset_input_controller, with reset_marker_reader.
ResetInputController ==
  /\ consume_input' = "markers"
  /\ has_multiple_scans' = FALSE
  /\ eoi_reached' = FALSE
  /\ inheaders' = 1
  /\ input_scan_number' = 0

\* DSTATE_START: reset, init_source, and fall through to DSTATE_INHEADER.
StartDatastream ==
  IF global_state = "START"
    THEN /\ ResetInputController
         /\ stream' \in Streams
         /\ pos' = 0
         /\ global_state' = "INHEADER"
         /\ UNCHANGED input_iMCU_row
    ELSE UNCHANGED <<global_state, inputVars>>

\* In DSTATE_READY jpeg_consume_input returns at once, with nothing changed.
EnterConsumeInput ==
  /\ Enter("jpeg_consume_input")
  /\ global_state # "READY"
  /\ StartDatastream
  /\ UNCHANGED <<output_scan_number, outputVars, paramVars>>

EnterReadHeader ==
  /\ Enter("jpeg_read_header")
  /\ StartDatastream
  /\ UNCHANGED <<output_scan_number, outputVars, paramVars>>

\* default_decompress_parms resets what the application may have changed.
HeaderDone ==
  /\ global_state' = "READY"
  /\ buffered_image' = FALSE
  /\ raw_data_out' = FALSE
  /\ enable_2pass_quant' = FALSE
  /\ do_block_smoothing' = TRUE
  /\ colormap' = FALSE
  /\ UNCHANGED <<scan_arg, output_iMCU_row, output_scanline, is_dummy_pass,
                 decompress_data, cranking, shown>>

ConsumeInputStep ==
  /\ call = "jpeg_consume_input" /\ error = "none"
  /\ \E ret \in ConsumeResults :
       /\ Consume(ret)
       /\ IF ret \notin Returns THEN Fail(ret)
          ELSE IF ret = "AGAIN" THEN Stay ELSE Return(ret)
       /\ IF global_state = "INHEADER" /\ ret = "SOS" THEN HeaderDone
          ELSE UNCHANGED <<global_state, outputVars, paramVars>>

\* jpeg_read_header(require_image): a tables-only datastream is an error, or
\* ends in jpeg_abort.
ReadHeaderStep ==
  /\ call = "jpeg_read_header" /\ error = "none"
  /\ \E ret \in ConsumeResults :
       /\ Consume(ret)
       /\ \/ /\ ret \notin Returns /\ Fail(ret)
             /\ UNCHANGED <<global_state, outputVars, paramVars>>
          \/ /\ ret \in {"AGAIN", "SUSPENDED"} /\ LoopUnlessSuspended(ret)
             /\ UNCHANGED <<global_state, outputVars, paramVars>>
          \/ /\ ret = "EOI"
             /\ \/ Fail("NO_IMAGE") /\ UNCHANGED global_state
                \/ Return(ret) /\ global_state' = "START"
             /\ UNCHANGED <<outputVars, paramVars>>
          \/ ret = "SOS" /\ Return(ret) /\ HeaderDone

-------------------------------------------------------------------------------
(* Output passes                                                           *)

\* prepare_for_output_pass: the final pass of 2-pass quantization, or a pass
\* that starts at the coefficients and is a dummy one when a colormap is wanted.
\* smoothing_ok depends on the quantization tables and coefficient precisions
\* seen so far: either way, for a multi-scan file.
PrepareForOutputPass ==
  /\ output_scanline' = 0
  /\ IF is_dummy_pass
       THEN /\ is_dummy_pass' = FALSE
            /\ cranking' = TRUE
            /\ UNCHANGED <<output_iMCU_row, decompress_data>>
       ELSE /\ is_dummy_pass' = (enable_2pass_quant /\ ~colormap)
            /\ cranking' = FALSE
            /\ output_iMCU_row' = 0
            /\ decompress_data' \in
                 IF ~FullBuffer(buffered_image) THEN {"onepass"}
                 ELSE {"data"} \cup
                      (IF do_block_smoothing /\ has_multiple_scans
                       THEN {"smooth"} ELSE {})

\* Seeded fault: input is waited for only when output is more than a row ahead.
MustWaitLess ==
  /\ input_scan_number = output_scan_number
  /\ input_iMCU_row < output_iMCU_row

\* The interlock loops of decompress_data and decompress_smooth_data.
MustWait ==
  \/ /\ decompress_data = "data"
     /\ \/ input_scan_number < output_scan_number
        \/ /\ input_scan_number = output_scan_number
           /\ input_iMCU_row <= output_iMCU_row
  \/ /\ decompress_data = "smooth"
     /\ input_scan_number <= output_scan_number
     /\ ~eoi_reached
     /\ input_scan_number = output_scan_number =>
          input_iMCU_row <= output_iMCU_row + (IF InDCScan THEN 1 ELSE 0)

\* Emit the current row; behind it are the scans whose part of it was read.
EmitRow(scans) ==
  /\ output_iMCU_row' = output_iMCU_row + 1
  /\ output_scanline' = output_scanline + 1
  /\ shown' = [shown EXCEPT ![output_iMCU_row] = scans]
  /\ UNCHANGED <<colormap, is_dummy_pass, decompress_data, cranking>>

\* One step of process_data, through the coefficient controller's method.  A
\* row done makes the caller return "ROW", except in a dummy pass.
WaitForInput ==
  /\ MustWait
  /\ \E ret \in ConsumeResults : Consume(ret) /\ LoopUnlessSuspended(ret)
  /\ UNCHANGED outputVars

OutputRow ==
  /\ ~MustWait
  /\ decompress_data # "onepass"
  /\ EmitRow(IF input_iMCU_row > output_iMCU_row THEN input_scan_number
             ELSE input_scan_number - 1)
  /\ UNCHANGED <<inputVars, output_scan_number>>

\* decompress_onepass: input and output in lockstep.
DecompressOnepass(done) ==
  /\ decompress_data = "onepass"
  /\ \/ /\ \/ Return("SUSPENDED") \/ Fail("CORRUPT")
        /\ UNCHANGED <<inputVars, outputVars>>
     \/ /\ done
        /\ input_iMCU_row' = input_iMCU_row + 1
        /\ consume_input' = FinishInputPass
        /\ EmitRow(input_scan_number)
        /\ UNCHANGED <<stream, pos, inheaders, eoi_reached, has_multiple_scans,
                       input_scan_number>>
  /\ UNCHANGED output_scan_number

CrankPost ==
  /\ cranking
  /\ output_scanline' = output_scanline + 1
  /\ UNCHANGED <<inputVars, output_scan_number, output_iMCU_row, colormap,
                 is_dummy_pass, decompress_data, cranking, shown>>

ProcessData(done) ==
  \/ ~cranking /\ WaitForInput
  \/ ~cranking /\ OutputRow /\ done
  \/ ~cranking /\ DecompressOnepass(done)
  \/ CrankPost /\ done

\* jpeg_read_scanlines, jpeg_read_raw_data; a call at the bottom of the image
\* only warns.
EnterRead ==
  /\ \/ Enter("jpeg_read_scanlines") \/ Enter("jpeg_read_raw_data")
  /\ output_scanline < Rows
  /\ UNCHANGED <<global_state, inputVars, output_scan_number, outputVars, paramVars>>

ReadStep ==
  /\ call \in {"jpeg_read_scanlines", "jpeg_read_raw_data"} /\ error = "none"
  /\ ProcessData(Return("ROW"))
  /\ UNCHANGED <<global_state, paramVars>>

\* output_pass_setup, from its two callers: the dummy pass, then the real one.
InSetup ==
  /\ call \in {"jpeg_start_decompress", "jpeg_start_output"} /\ error = "none"
  /\ global_state = "PRESCAN"

DummyPassStep ==
  /\ InSetup
  /\ is_dummy_pass
  /\ output_scanline < Rows
  /\ ProcessData(Stay)
  /\ UNCHANGED <<global_state, paramVars>>

\* finish_output_pass makes the colormap, and the final pass is prepared.
DummyPassDone ==
  /\ InSetup
  /\ is_dummy_pass
  /\ output_scanline = Rows
  /\ colormap' = TRUE
  /\ PrepareForOutputPass
  /\ Stay
  /\ UNCHANGED <<global_state, inputVars, output_scan_number, paramVars, shown>>

SetupDone ==
  /\ InSetup
  /\ ~is_dummy_pass
  /\ global_state' = IF raw_data_out THEN "RAW_OK" ELSE "SCANNING"
  /\ Return("TRUE")
  /\ UNCHANGED <<inputVars, output_scan_number, outputVars, paramVars>>

-------------------------------------------------------------------------------
(* jpeg_start_decompress                                                   *)

\* Seeded fault: a file of several scans is output as soon as the first is read.
PreloadWantedNot == FALSE

\* Absorb a file of several scans before any of it is output.
PreloadWanted == has_multiple_scans /\ ~eoi_reached

\* The application has set its parameters; jinit_master_decompress selects the
\* modules and starts the first input pass.
EnterStartDecompress ==
  /\ Enter("jpeg_start_decompress")
  /\ IF global_state = "READY"
       THEN /\ buffered_image' \in BufferedModes
            /\ raw_data_out' \in RawModes
            /\ enable_2pass_quant' \in TwoPassModes
            /\ do_block_smoothing' \in SmoothModes
            /\ ~(raw_data_out' /\ enable_2pass_quant')
            /\ is_dummy_pass' = FALSE
            /\ consume_input' = IF FullBuffer(buffered_image') THEN "data" ELSE "dummy"
            /\ input_iMCU_row' = 0
            /\ global_state' = "PRELOAD"
            /\ UNCHANGED <<stream, pos, inheaders, eoi_reached,
                           has_multiple_scans, input_scan_number, scan_arg,
                           output_iMCU_row, output_scanline, colormap,
                           decompress_data, cranking, shown>>
       ELSE UNCHANGED <<global_state, inputVars, outputVars, paramVars>>
  /\ UNCHANGED output_scan_number

\* master_selection refuses raw data of a quantized image.
StartDecompressNotImpl ==
  /\ Idle
  /\ global_state = "READY"
  /\ TRUE \in RawModes /\ TRUE \in TwoPassModes
  /\ call' = "jpeg_start_decompress"
  /\ error' = "NOTIMPL"
  /\ UNCHANGED <<global_state, result, inputVars, output_scan_number, outputVars,
                 paramVars>>

\* In buffered-image mode there is no more to do.
StartBufferedImage ==
  /\ call = "jpeg_start_decompress" /\ error = "none"
  /\ global_state = "PRELOAD"
  /\ buffered_image
  /\ global_state' = "BUFIMAGE"
  /\ Return("TRUE")
  /\ UNCHANGED <<inputVars, output_scan_number, outputVars, paramVars>>

PreloadStep ==
  /\ call = "jpeg_start_decompress" /\ error = "none"
  /\ global_state = "PRELOAD"
  /\ ~buffered_image
  /\ PreloadWanted
  /\ \E ret \in ConsumeResults : Consume(ret) /\ LoopUnlessSuspended(ret)
  /\ UNCHANGED <<global_state, outputVars, paramVars>>

PreloadDone ==
  /\ call = "jpeg_start_decompress" /\ error = "none"
  /\ global_state = "PRELOAD"
  /\ ~buffered_image
  /\ ~PreloadWanted
  /\ output_scan_number' = input_scan_number
  /\ PrepareForOutputPass
  /\ shown' = [r \in Row |-> 0]
  /\ global_state' = "PRESCAN"
  /\ Stay
  /\ UNCHANGED <<inputVars, paramVars, colormap>>

-------------------------------------------------------------------------------
(* Buffered-image mode                                                     *)

\* The scan number limited to the valid range.
LimitedScan(n) ==
  LET m == IF n <= 0 THEN 1 ELSE n
  IN IF eoi_reached /\ m > input_scan_number THEN input_scan_number ELSE m

EnterStartOutput ==
  /\ buffered_image
  /\ Enter("jpeg_start_output")
  /\ scan_arg' \in ScanNumbers
  /\ RepeatsCall /\ global_state = "PRESCAN" => scan_arg' = scan_arg
  /\ output_scan_number' = LimitedScan(scan_arg')
  /\ IF global_state # "PRESCAN"
       THEN /\ PrepareForOutputPass
            /\ shown' = [r \in Row |-> 0]
            /\ global_state' = "PRESCAN"
            /\ UNCHANGED colormap
       ELSE UNCHANGED <<global_state, outputVars>>
  /\ UNCHANGED <<inputVars, buffered_image, raw_data_out, enable_2pass_quant,
                 do_block_smoothing>>

\* The pass need not be complete.
EnterFinishOutput ==
  /\ Enter("jpeg_finish_output")
  /\ global_state' = "BUFPOST"
  /\ UNCHANGED <<inputVars, output_scan_number, outputVars, paramVars>>

FinishOutputStep ==
  /\ call = "jpeg_finish_output" /\ error = "none"
  /\ IF input_scan_number <= output_scan_number /\ ~eoi_reached
       THEN /\ \E ret \in ConsumeResults : Consume(ret) /\ LoopUnlessSuspended(ret)
            /\ UNCHANGED global_state
       ELSE /\ global_state' = "BUFIMAGE"
            /\ Return("TRUE")
            /\ UNCHANGED <<inputVars, output_scan_number>>
  /\ UNCHANGED <<outputVars, paramVars>>

\* Between passes the application may ask for a new colormap by clearing it, or
\* change do_block_smoothing.
ChangeParameters ==
  /\ Idle
  /\ global_state = "BUFIMAGE"
  /\ \/ enable_2pass_quant /\ colormap' = FALSE /\ UNCHANGED do_block_smoothing
     \/ do_block_smoothing' \in SmoothModes /\ UNCHANGED colormap
  /\ UNCHANGED <<global_state, call, result, error, inputVars, output_scan_number,
                 output_iMCU_row, output_scanline, is_dummy_pass, decompress_data,
                 cranking, shown, buffered_image, raw_data_out, enable_2pass_quant,
                 scan_arg>>

\* Between passes it may also bring a colormap of its own.  Whether an external
\* map was enabled is left open; with raw data it cannot have been.
jpeg_new_colormap ==
  /\ Idle /\ Allowed("jpeg_new_colormap")
  /\ colormap' = TRUE
  /\ \/ /\ ~raw_data_out
        /\ is_dummy_pass' = FALSE
        /\ UNCHANGED <<call, error>>
     \/ /\ call' = "jpeg_new_colormap" /\ error' = "MODE_CHANGE"
        /\ UNCHANGED is_dummy_pass
  /\ UNCHANGED <<global_state, result, inputVars, output_scan_number,
                 output_iMCU_row, output_scanline, decompress_data, cranking,
                 shown, paramVars>>

-------------------------------------------------------------------------------
(* Transcoding: jpeg_read_coefficients                                     *)

EnterReadCoefficients ==
  /\ Enter("jpeg_read_coefficients")
  /\ global_state \in {"READY", "RDCOEFS"}
  /\ IF global_state = "READY"
       THEN /\ buffered_image' = TRUE
            /\ consume_input' = "data"
            /\ input_iMCU_row' = 0
            /\ global_state' = "RDCOEFS"
       ELSE UNCHANGED <<buffered_image, consume_input, input_iMCU_row, global_state>>
  /\ UNCHANGED <<stream, pos, inheaders, eoi_reached, has_multiple_scans,
                 input_scan_number, output_scan_number, outputVars,
                 raw_data_out, enable_2pass_quant, do_block_smoothing, scan_arg>>

ReadCoefficientsStep ==
  /\ call = "jpeg_read_coefficients" /\ error = "none"
  /\ \E ret \in ConsumeResults :
       /\ Consume(ret)
       /\ IF ret = "EOI" THEN Return("TRUE") /\ global_state' = "STOPPING"
          ELSE LoopUnlessSuspended(ret) /\ UNCHANGED global_state
  /\ UNCHANGED <<outputVars, paramVars>>

-------------------------------------------------------------------------------
(* The end of the datastream                                               *)

\* jpeg_finish_decompress; finish_output_pass belongs to the pass just ended.
EnterFinishDecompress ==
  /\ Idle /\ Allowed("jpeg_finish_decompress")
  /\ call' = "jpeg_finish_decompress"
  /\ IF global_state \in {"SCANNING", "RAW_OK"} /\ output_scanline < Rows
       THEN error' = "TOO_LITTLE_DATA" /\ UNCHANGED global_state
       ELSE error' = "none" /\ global_state' = "STOPPING"
  /\ UNCHANGED <<result, inputVars, output_scan_number, outputVars, paramVars>>

\* Seeded fault: the markers after the last scan are left unread.
TrailerWantedNot == ~eoi_reached /\ consume_input # "markers"

TrailerWanted == ~eoi_reached

\* Read until EOI; then term_source and jpeg_abort.
FinishDecompressStep ==
  /\ call = "jpeg_finish_decompress" /\ error = "none"
  /\ IF TrailerWanted
       THEN /\ \E ret \in ConsumeResults : Consume(ret) /\ LoopUnlessSuspended(ret)
            /\ UNCHANGED global_state
       ELSE /\ global_state' = "START"
            /\ Return("TRUE")
            /\ UNCHANGED <<inputVars, output_scan_number>>
  /\ UNCHANGED <<outputVars, paramVars>>

\* jpeg_abort, at any time and after every error: only the state is reset, the
\* input controller keeps its stale fields until the next datastream.
Abort ==
  /\ call = "none" \/ error # "none"
  /\ global_state' = "START"
  /\ call' = "none"
  /\ error' = "none"
  /\ UNCHANGED <<result, inputVars, output_scan_number, outputVars, paramVars>>

-------------------------------------------------------------------------------
\* jpeg_CreateDecompress: zeroed, then jinit_input_controller.
Init ==
  /\ global_state = "START"
  /\ call = "none" /\ result = "none" /\ error = "none"
  /\ stream \in Streams /\ pos = 0
  /\ consume_input = "markers"
  /\ inheaders = 1
  /\ eoi_reached = FALSE /\ has_multiple_scans = FALSE
  /\ input_scan_number = 0 /\ input_iMCU_row = 0
  /\ output_scan_number = 0 /\ output_iMCU_row = 0 /\ output_scanline = 0
  /\ buffered_image = FALSE /\ raw_data_out = FALSE
  /\ enable_2pass_quant = FALSE /\ do_block_smoothing = FALSE
  /\ colormap = FALSE /\ is_dummy_pass = FALSE /\ cranking = FALSE
  /\ decompress_data = "onepass"
  /\ scan_arg = 0
  /\ shown = [r \in Row |-> 0]

AppCall ==
  \/ EnterConsumeInput \/ EnterReadHeader \/ EnterStartDecompress
  \/ StartDecompressNotImpl \/ EnterRead
  \/ EnterStartOutput \/ EnterFinishOutput \/ EnterReadCoefficients
  \/ EnterFinishDecompress \/ ChangeParameters \/ jpeg_new_colormap \/ Abort
  \/ \E f \in Calls : BadCall(f)

LibraryStep ==
  \/ ConsumeInputStep \/ ReadHeaderStep \/ StartBufferedImage \/ PreloadStep
  \/ PreloadDone \/ ReadStep \/ DummyPassStep \/ DummyPassDone \/ SetupDone
  \/ FinishOutputStep \/ ReadCoefficientsStep \/ FinishDecompressStep

Next == AppCall \/ LibraryStep

Spec == Init /\ [][Next]_vars

\* The library runs while a call is in progress; a source that suspends will
\* sometime deliver more; an application told to repeat jpeg_finish_decompress
\* sometime does.
Progress == LibraryStep /\ ~(call' = "none" /\ result' = "SUSPENDED")

FairSpec ==
  /\ Spec
  /\ WF_vars(LibraryStep)
  /\ SF_vars(Progress)
  /\ SF_vars(EnterFinishDecompress)

-------------------------------------------------------------------------------
\* A decoder that reads the header, or waits for start_decompress, reads it
\* with consume_markers and from a clean slate, whatever a previous image, error
\* or abort left in the input controller.
FreshHeader ==
  global_state \in {"INHEADER", "READY"} =>
    /\ consume_input = "markers"
    /\ inheaders = 0 => input_scan_number = 1
    /\ inheaders # 0 => input_scan_number = 0
    /\ global_state = "READY" => inheaders = 0 /\ ~eoi_reached

\* Outside buffered-image mode a file of several scans is output from complete
\* data only: "If a multipass operating mode was selected, this will do all but
\* the last pass" (jdapistd.c:30).
OutputFromCompleteData ==
  /\ ~buffered_image /\ has_multiple_scans
  /\ global_state \in {"PRESCAN", "SCANNING", "RAW_OK"}
  => eoi_reached /\ \A r \in 0 .. output_scanline - 1 : shown[r] = input_scan_number

\* Each row of the output pass was made from the target scan's data or later,
\* also when EOI lowered the target, and when the row was saved in a dummy pass.
ShownAtLeastTarget ==
  global_state \in {"PRESCAN", "SCANNING", "RAW_OK"} =>
    \A r \in 0 .. output_scanline - 1 : shown[r] >= output_scan_number

\* libjpeg.txt:2014-2023: when the input is complete and the last pass had the
\* last scan as its target, that pass was in sync with the final scan, and no
\* further pass is needed.
FinalPassInSync ==
  [][/\ call = "jpeg_finish_output" /\ global_state' = "BUFIMAGE"
     /\ eoi_reached /\ input_scan_number = output_scan_number
     /\ output_scanline = Rows
     => \A r \in Row : shown[r] = input_scan_number]_vars

\* An image is only given up as finished when its datastream was read to EOI:
\* the next one starts at its own SOI.
TrailerRead ==
  [][call = "jpeg_finish_decompress" /\ global_state' = "START" /\ error = "none"
       => eoi_reached /\ pos = Len(stream.items)]_vars

\* Every call returns or exits with an error: no loop around consume_input goes
\* on without consuming anything.
EveryCallReturns == call # "none" /\ error = "none" ~> call = "none" \/ error # "none"

\* An application that repeats jpeg_finish_decompress gets out of DSTATE_STOPPING.
FinishTerminates == global_state = "STOPPING" ~> global_state # "STOPPING" \/ error # "none"

\* Every image is started in a state of the declared kinds and from a clean
\* slate (jpeg_consume_input and reset_input_controller).
StartsAfresh == TypeOK /\ FreshHeader
===============================================================================
