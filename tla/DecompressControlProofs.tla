----------------------- MODULE DecompressControlProofs -----------------------
(***************************************************************************)
(* Proofs about DecompressControl, for images of any height, datastreams   *)
(* with any number of scans and pseudo SOS markers, and any choice of the  *)
(* application's parameters: each image starts from a clean slate, what    *)
(* is output is made from complete data, no row is older than its target   *)
(* scan, and no image is finished before its trailer was read.             *)
(***************************************************************************)
EXTENDS DecompressControl, TLAPS

-------------------------------------------------------------------------------
(* The inductive invariant                                                 *)

\* The states after jinit_master_decompress or transdecode_master_selection has
\* selected the modules, and those of an output pass, up to the end of
\* jpeg_finish_output.
Decoding == global_state \in
  {"PRELOAD", "PRESCAN", "SCANNING", "RAW_OK", "BUFIMAGE", "BUFPOST",
   "RDCOEFS", "STOPPING"}

OutputPass == global_state \in {"PRESCAN", "SCANNING", "RAW_OK", "BUFPOST"}

\* EOI is the last thing read, and every SOS counted was read.
InputInBounds ==
  /\ eoi_reached <=> pos = Len(stream.items)
  /\ input_scan_number <= pos
  /\ consume_input = "data" => input_iMCU_row < Rows

\* Until jpeg_start_decompress the input controller reads markers, and what it
\* has counted is the first SOS.
HeaderPhase ==
  /\ global_state = "INHEADER" =>
       consume_input = "markers" /\ inheaders # 0 /\ input_scan_number = 0
  /\ global_state = "READY" =>
       /\ consume_input = "markers" /\ inheaders = 0
       /\ input_scan_number = 1 /\ ~eoi_reached

\* From then on the header is behind it, and with a full coefficient buffer
\* markers are only read between complete scans.
BetweenScans ==
  /\ inheaders = 0
  /\ input_scan_number >= 1
  /\ eoi_reached => consume_input = "markers"
  /\ FullBuffer(buffered_image) =>
       \/ consume_input = "data"
       \/ consume_input = "markers" /\ input_iMCU_row = Rows
  /\ ~FullBuffer(buffered_image) =>
       \/ consume_input = "dummy" /\ input_iMCU_row < Rows
       \/ consume_input = "markers" /\ input_iMCU_row = Rows

InputPhase == Decoding => BetweenScans

\* Which call can be under way in which state.
CallPhase ==
  error = "none" =>
    /\ call = "jpeg_consume_input" => global_state \notin {"START", "READY", "RDCOEFS"}
    /\ call = "jpeg_read_header" => global_state = "INHEADER"
    /\ call = "jpeg_start_decompress" => global_state \in {"PRELOAD", "PRESCAN"}
    /\ call = "jpeg_read_scanlines" => global_state = "SCANNING" /\ output_scanline < Rows
    /\ call = "jpeg_read_raw_data" => global_state = "RAW_OK" /\ output_scanline < Rows
    /\ call = "jpeg_start_output" => global_state = "PRESCAN" /\ buffered_image
    /\ call = "jpeg_finish_output" => global_state = "BUFPOST"
    /\ call = "jpeg_finish_decompress" => global_state = "STOPPING"
    /\ call = "jpeg_read_coefficients" => global_state = "RDCOEFS"

\* A dummy pass is part of output_pass_setup; the coefficient controller is
\* ahead of the application only while the saved image is emitted; without a
\* full buffer input and output go in lockstep, from row 0.
PassPhase ==
  /\ Decoding /\ is_dummy_pass => global_state \in {"PRESCAN", "RDCOEFS", "STOPPING"}
  /\ global_state = "PRELOAD" /\ ~FullBuffer(buffered_image) => input_iMCU_row = 0
  /\ OutputPass =>
       /\ cranking => output_iMCU_row = Rows /\ ~is_dummy_pass
       /\ ~cranking => output_scanline = output_iMCU_row
       /\ decompress_data = "onepass" <=> ~FullBuffer(buffered_image)
       /\ decompress_data = "onepass" => input_iMCU_row = output_iMCU_row

\* The target scan exists once EOI was seen, and before that in one-pass mode;
\* what jpeg_start_output asked for is still the target when it is repeated.
TargetPhase ==
  OutputPass =>
    /\ eoi_reached \/ ~buffered_image => output_scan_number <= input_scan_number
    /\ RepeatsCall /\ buffered_image /\ global_state = "PRESCAN" =>
         output_scan_number = LimitedScan(scan_arg)

\* Every row the coefficient controller has output in this pass, also those
\* saved by a dummy pass: made from scans that were read, not before the target
\* scan, and from the last one if output had to wait for all input.
RowsShown ==
  OutputPass =>
    /\ ~buffered_image /\ has_multiple_scans =>
         /\ eoi_reached
         /\ \A r \in 0 .. output_iMCU_row - 1 : shown[r] = input_scan_number
    /\ RepeatsCall =>
         \A r \in 0 .. output_iMCU_row - 1 : shown[r] >= output_scan_number
    /\ \A r \in 0 .. output_iMCU_row - 1 : shown[r] <= input_scan_number

IInv ==
  /\ TypeOK
  /\ InputInBounds
  /\ HeaderPhase
  /\ InputPhase
  /\ CallPhase
  /\ PassPhase
  /\ TargetPhase
  /\ RowsShown

-------------------------------------------------------------------------------
(* One call of consume_input                                               *)

\* The types of what consume_input changes.
InputTyped ==
  /\ stream \in Streams /\ pos \in 0 .. Len(stream.items)
  /\ consume_input \in {"markers", "data", "dummy"}
  /\ inheaders \in 0 .. 2
  /\ eoi_reached \in BOOLEAN /\ has_multiple_scans \in BOOLEAN
  /\ input_scan_number \in 0 .. Len(stream.items)
  /\ input_iMCU_row \in 0 .. Rows
  /\ output_scan_number \in Nat

\* The types of what an output pass changes, of the parameters, and of the state
\* of the API.
OutputTyped ==
  /\ output_iMCU_row \in 0 .. Rows /\ output_scanline \in 0 .. Rows
  /\ colormap \in BOOLEAN /\ is_dummy_pass \in BOOLEAN /\ cranking \in BOOLEAN
  /\ decompress_data \in {"onepass", "data", "smooth"}
  /\ shown \in [Row -> Nat]

ParamTyped ==
  /\ buffered_image \in BOOLEAN /\ raw_data_out \in BOOLEAN
  /\ enable_2pass_quant \in BOOLEAN /\ do_block_smoothing \in BOOLEAN
  /\ scan_arg \in ScanNumbers

CallTyped ==
  /\ call \in Calls \cup {"none"}
  /\ result \in {"none", "SUSPENDED", "SOS", "EOI", "ROW", "TRUE"}
  /\ error \in Errors \cup {"none"}

LEMMA Typed ==
  TypeOK <=> /\ global_state \in States
             /\ CallTyped /\ InputTyped /\ OutputTyped /\ ParamTyped
BY DEF TypeOK, CallTyped, InputTyped, OutputTyped, ParamTyped

LEMMA TypedNext ==
  (TypeOK <=> /\ global_state \in States
              /\ CallTyped /\ InputTyped /\ OutputTyped /\ ParamTyped)'
BY Typed, PTL

\* The counters are numbers, in this state and the next.
LEMMA Counters ==
  InputTyped => /\ input_scan_number \in Nat /\ input_iMCU_row \in Nat
                /\ output_scan_number \in Nat
BY ControlAssumption DEF StreamsAssumption, InputTyped

LEMMA CountersNext ==
  (InputTyped => /\ input_scan_number \in Nat /\ input_iMCU_row \in Nat
                 /\ output_scan_number \in Nat)'
BY Counters, PTL

\* What read_markers finds next, and whether that is the end.
LEMMA NextItemKinds ==
  ASSUME InputTyped, InputInBounds, ~eoi_reached
  PROVE  /\ pos + 1 \in 1 .. Len(stream.items)
         /\ NextItem = "EOI" <=> pos + 1 = Len(stream.items)
<1>1. /\ Len(stream.items) \in Nat \ {0}
      /\ stream.items[Len(stream.items)] = "EOI"
      /\ \A i \in 1 .. Len(stream.items) - 1 : stream.items[i] # "EOI"
  BY ControlAssumption DEF StreamsAssumption, InputTyped
<1>2. pos \in Nat /\ pos < Len(stream.items)
  BY <1>1 DEF InputTyped, InputInBounds
<1>3. pos + 1 # Len(stream.items) => pos + 1 \in 1 .. Len(stream.items) - 1
  BY <1>1, <1>2
<1> QED
  BY <1>1, <1>2, <1>3 DEF NextItem

\* consume_input keeps its counters within the datastream and the image.
LEMMA ConsumeInBounds ==
  ASSUME InputTyped, InputInBounds, NEW ret, Consume(ret)
  PROVE  /\ InputTyped' /\ InputInBounds'
         /\ stream' = stream
<1> USE ControlAssumption
<1>0. /\ Len(stream.items) \in Nat \ {0} /\ stream.multi \in BOOLEAN
      /\ Rows \in Nat \ {0}
  BY DEF StreamsAssumption, InputTyped
<1>1. CASE ~eoi_reached /\ PseudoSOS(ret)
  <2>0. \/ has_multiple_scans' = has_multiple_scans
        \/ has_multiple_scans' = (inheaders = 1 \/ has_multiple_scans)
    BY <1>1, Zenon DEF PseudoSOS
  <2>1. inheaders' \in 0 .. 2 /\ has_multiple_scans' \in BOOLEAN
    <3>1. has_multiple_scans' \in BOOLEAN
      BY <2>0, Zenon DEF InputTyped
    <3>2. inheaders' \in 0 .. 2
      BY <1>1 DEF PseudoSOS, InputTyped
    <3> QED BY <3>1, <3>2
  <2>2. pos' \in 1 .. Len(stream.items) /\ pos' # Len(stream.items) /\ pos' = pos + 1
    BY <1>1, NextItemKinds DEF PseudoSOS
  <2>3. UNCHANGED <<stream, consume_input, eoi_reached, input_scan_number,
                    input_iMCU_row, output_scan_number>>
    BY <1>1 DEF PseudoSOS
  <2> QED
    BY <1>0, <1>1, <2>1, <2>2, <2>3 DEF InputTyped, InputInBounds
<1>2. CASE ~eoi_reached /\ FoundSOS(ret)
  <2>1. stream' = stream /\ pos' = pos + 1 /\ eoi_reached' = eoi_reached
        /\ input_scan_number' = input_scan_number + 1 
        /\ output_scan_number' = output_scan_number
    BY <1>2 DEF FoundSOS
  <2>2. inheaders' \in 0 .. 2 /\ has_multiple_scans' \in BOOLEAN
    BY <1>0, <1>2 DEF FoundSOS, InputTyped
  <2>3. \/ UNCHANGED <<consume_input, input_iMCU_row>>
        \/ consume_input' \in {"data", "dummy"} /\ input_iMCU_row' = 0
    BY <1>2 DEF FoundSOS, StartInputPass
  <2>4. pos + 1 \in 1 .. Len(stream.items) /\ pos + 1 # Len(stream.items)
    BY <1>2, NextItemKinds DEF FoundSOS
  <2> QED
    BY <1>0, <1>2, <2>1, <2>2, <2>3, <2>4 DEF InputTyped, InputInBounds
<1>3. CASE ~eoi_reached /\ FoundEOI(ret)
  BY <1>0, <1>3, NextItemKinds DEF FoundEOI, InputTyped, InputInBounds
<1>4. CASE ConsumeData(ret)
  BY <1>0, <1>4 DEF ConsumeData, FinishInputPass, InputTyped, InputInBounds
<1>5. CASE UNCHANGED <<inputVars, output_scan_number>>
  BY <1>5 DEF InputTyped, InputInBounds, inputVars
<1> QED
  BY <1>1, <1>2, <1>3, <1>4, <1>5 DEF Consume, ConsumeMarkers, DummyConsumeData

\* In the header: markers are read until the first SOS, which is counted.
LEMMA ConsumeInHeader ==
  ASSUME InputTyped, InputInBounds, NEW ret, Consume(ret),
         consume_input = "markers", inheaders # 0, input_scan_number = 0
  PROVE  /\ consume_input' = "markers"
         /\ ret = "SOS" => inheaders' = 0 /\ input_scan_number' = 1 /\ ~eoi_reached'
         /\ ret # "SOS" => inheaders' # 0 /\ input_scan_number' = 0
<1>0. inheaders > 0
  BY DEF InputTyped
<1>1. CASE ~eoi_reached /\ PseudoSOS(ret)
  BY <1>0, <1>1 DEF PseudoSOS
<1>2. CASE ~eoi_reached /\ FoundSOS(ret)
  BY <1>0, <1>2 DEF FoundSOS
<1>3. CASE ~eoi_reached /\ FoundEOI(ret)
  BY <1>3 DEF FoundEOI
<1>4. CASE UNCHANGED <<inputVars, output_scan_number>> /\ ret # "SOS"
  BY <1>4 DEF inputVars
<1> QED
  BY <1>1, <1>2, <1>3, <1>4 DEF Consume, ConsumeMarkers, ConsumeData, DummyConsumeData

\* After it: the kind of image stays, scans are only added, nothing happens
\* after EOI, and EOI lowers the target scan to the last one there is.
LEMMA ConsumeInImage ==
  ASSUME InputTyped, InputInBounds, NEW ret, Consume(ret),
         BetweenScans, UNCHANGED buffered_image
  PROVE  /\ BetweenScans'
         /\ has_multiple_scans' = has_multiple_scans
         /\ input_scan_number <= input_scan_number'
         /\ eoi_reached => UNCHANGED <<inputVars, output_scan_number>>
         /\ eoi_reached' => output_scan_number' = output_scan_number \/ ~eoi_reached
         /\ ~eoi_reached =>
              output_scan_number' =
                IF eoi_reached' /\ output_scan_number > input_scan_number'
                  THEN input_scan_number' ELSE output_scan_number
         /\ ~FullBuffer(buffered_image) => input_iMCU_row' = input_iMCU_row
<1> USE ControlAssumption DEF BetweenScans
<1>0. InputTyped'
  BY ConsumeInBounds
<1>1. CASE ~eoi_reached /\ PseudoSOS(ret)
  BY <1>1 DEF PseudoSOS, FullBuffer, InputTyped
<1>2. CASE ~eoi_reached /\ FoundSOS(ret) /\ consume_input = "markers"
  BY <1>2 DEF FoundSOS, FullBuffer, StartInputPass, InputTyped
<1>3. CASE ~eoi_reached /\ FoundEOI(ret) /\ consume_input = "markers"
  BY <1>3 DEF FoundEOI, FullBuffer, InputTyped
<1>4. CASE ConsumeData(ret)
  BY <1>0, <1>4 DEF ConsumeData, FinishInputPass, FullBuffer, InputTyped
<1>5. CASE UNCHANGED <<inputVars, output_scan_number>>
  BY <1>5 DEF inputVars, FullBuffer, InputTyped
<1> QED
  BY <1>1, <1>2, <1>3, <1>4, <1>5 DEF Consume, ConsumeMarkers, DummyConsumeData

-------------------------------------------------------------------------------
(* Steps that only read: the loops around consume_input                    *)

\* What a loop does with a result leaves the call in progress, or ends it.
LEMMA LoopStep ==
  ASSUME CallTyped, NEW ret \in ConsumeResults, LoopUnlessSuspended(ret)
  PROVE  CallTyped' /\ call' \in {call, "none"}
BY DEF CallTyped, ConsumeResults, Returns, LoopUnlessSuspended, Return, Stay,
       Fail, Errors

\* Reading goes on in the same state of the API, or, at the end of a
\* transcoder's input, in the state that follows.
LEMMA ReadingStep ==
  ASSUME IInv, Decoding, NEW ret, Consume(ret), call # "none", error = "none",
         CallTyped', call' \in {call, "none"},
         UNCHANGED <<outputVars, paramVars>>,
         \/ UNCHANGED global_state
         \/ global_state = "RDCOEFS" /\ global_state' = "STOPPING" /\ call' = "none"
  PROVE  IInv'
<1> USE ControlAssumption
<1>0. /\ TypeOK /\ InputInBounds /\ HeaderPhase /\ BetweenScans /\ CallPhase
      /\ PassPhase /\ TargetPhase /\ RowsShown
      /\ CallTyped /\ InputTyped /\ OutputTyped /\ ParamTyped /\ UNCHANGED buffered_image
      /\ global_state \in States
  BY Typed DEF IInv, InputPhase, paramVars
<1>1. TypeOK' /\ InputInBounds'
  <2>1. InputTyped' /\ InputInBounds'
    BY <1>0, ConsumeInBounds
  <2>2. OutputTyped' /\ ParamTyped'
    BY <1>0 DEF OutputTyped, ParamTyped, outputVars, paramVars
  <2>3. global_state' \in States
    BY <1>0 DEF States
  <2> QED BY <1>0, <2>1, <2>2, <2>3, TypedNext
<1>2. HeaderPhase'
  BY DEF HeaderPhase, Decoding
<1>3. InputPhase'
  BY <1>0, ConsumeInImage DEF InputPhase
<1>4. CallPhase'
  BY <1>0 DEF CallPhase, outputVars, paramVars
<1>5. PassPhase'
  BY <1>0, ConsumeInImage DEF PassPhase, FullBuffer, Decoding, OutputPass, outputVars, paramVars
<1>6. TargetPhase'
  <2>1. /\ input_scan_number \in Nat /\ input_scan_number' \in Nat
        /\ output_scan_number \in Nat /\ scan_arg \in Nat /\ scan_arg' = scan_arg
        /\ input_scan_number >= 1
    BY <1>0, <1>1, Counters, CountersNext, TypedNext
    DEF ParamTyped, ScanNumbers, BetweenScans, paramVars
  <2>2. CASE eoi_reached
    BY <1>0, <2>1, <2>2, ConsumeInImage
    DEF TargetPhase, OutputPass, LimitedScan, inputVars
  <2>3. CASE ~eoi_reached
    BY <1>0, <2>1, <2>3, ConsumeInImage DEF TargetPhase, OutputPass, LimitedScan
  <2> QED BY <2>2, <2>3
<1>7. RowsShown'
  <2> SUFFICES ASSUME OutputPass
               PROVE  RowsShown'
    BY DEF RowsShown, OutputPass
  <2>1. /\ UNCHANGED <<output_iMCU_row, shown, has_multiple_scans, buffered_image>>
        /\ output_iMCU_row \in 0 .. Rows
        /\ output_scan_number \in Nat /\ output_scan_number' \in Nat
        /\ input_scan_number \in Nat /\ input_scan_number' \in Nat
        /\ \A r \in 0 .. output_iMCU_row - 1 : shown[r] \in Nat
    BY <1>0, <1>1, Counters, CountersNext, TypedNext, ConsumeInImage
    DEF OutputTyped, Row, outputVars, paramVars
  <2>2. output_scan_number' <= output_scan_number
    BY <1>0, <2>1, ConsumeInImage DEF inputVars
  <2>3. /\ eoi_reached => UNCHANGED <<eoi_reached, input_scan_number>>
        /\ input_scan_number <= input_scan_number'
    BY <1>0, ConsumeInImage DEF inputVars
  <2> QED
    BY <1>0, <2>1, <2>2, <2>3 DEF RowsShown
<1> QED
  BY <1>1, <1>2, <1>3, <1>4, <1>5, <1>6, <1>7 DEF IInv

\* A step that starts or ends a call, and at most leaves an output pass or the
\* image, keeps the invariant if the call fits the state.
LEMMA CallStep ==
  ASSUME IInv, CallTyped', CallPhase',
         UNCHANGED <<inputVars, output_scan_number, outputVars, paramVars>>,
         \/ UNCHANGED global_state
         \/ global_state' = "START"
         \/ /\ Decoding
            /\ global_state' \in {"BUFIMAGE", "BUFPOST", "STOPPING"}
            /\ is_dummy_pass => global_state' = "STOPPING"
            /\ global_state' = "BUFPOST" => OutputPass
  PROVE  IInv'
<1> USE DEF inputVars, outputVars, paramVars
<1>0. /\ TypeOK /\ InputInBounds /\ HeaderPhase /\ InputPhase /\ PassPhase
      /\ TargetPhase /\ RowsShown
      /\ global_state \in States
  BY Typed DEF IInv
<1>1. TypeOK'
  <2>1. InputTyped' /\ OutputTyped' /\ ParamTyped'
    BY <1>0, Typed DEF InputTyped, OutputTyped, ParamTyped
  <2>2. global_state' \in States
    BY <1>0 DEF States
  <2> QED BY <2>1, <2>2, TypedNext
<1>2. InputInBounds' /\ HeaderPhase' /\ InputPhase'
  BY <1>0 DEF InputInBounds, HeaderPhase, InputPhase, Decoding, BetweenScans, FullBuffer
<1>3. PassPhase'
  BY <1>0 DEF PassPhase, Decoding, OutputPass, FullBuffer
<1>4. TargetPhase'
  BY <1>0 DEF TargetPhase, OutputPass, LimitedScan
<1>5. RowsShown'
  BY <1>0 DEF RowsShown, OutputPass
<1> QED
  BY <1>1, <1>2, <1>3, <1>4, <1>5 DEF IInv

\* Each loop around consume_input, in the state its call is made in.
LEMMA LoopSteps ==
  ASSUME IInv,
         \/ PreloadStep \/ FinishOutputStep \/ ReadCoefficientsStep
         \/ FinishDecompressStep
         \/ ConsumeInputStep /\ global_state # "INHEADER"
  PROVE  IInv'
<1> USE DEF IInv, CallPhase, Decoding
<1>0. CallTyped
  BY Typed
<1>1. CASE PreloadStep
  <2>1. PICK ret \in ConsumeResults : Consume(ret) /\ LoopUnlessSuspended(ret)
    BY <1>1 DEF PreloadStep
  <2> QED
    BY <1>0, <1>1, <2>1, LoopStep, ReadingStep DEF PreloadStep
<1>2. CASE FinishOutputStep
  <2>0. call = "jpeg_finish_output" /\ error = "none" /\ UNCHANGED <<outputVars, paramVars>>
    BY <1>2 DEF FinishOutputStep
  <2>1. ASSUME NEW ret \in ConsumeResults, Consume(ret), LoopUnlessSuspended(ret),
               UNCHANGED global_state
        PROVE  IInv'
    BY <1>0, <2>0, <2>1, LoopStep, ReadingStep
  <2>2. ASSUME global_state' = "BUFIMAGE", Return("TRUE"),
               UNCHANGED <<inputVars, output_scan_number>>
        PROVE  IInv'
    <3>1. CallTyped' /\ CallPhase'
      BY <1>0, <2>0, <2>2 DEF CallTyped, Return
    <3>2. ~is_dummy_pass
      BY <2>0 DEF PassPhase
    <3> QED
      BY <2>0, <2>2, <3>1, <3>2, CallStep
  <2> QED BY <1>2, <2>1, <2>2 DEF FinishOutputStep
<1>3. CASE FinishDecompressStep
  <2>0. /\ call = "jpeg_finish_decompress" /\ error = "none"
        /\ UNCHANGED <<outputVars, paramVars>>
    BY <1>3 DEF FinishDecompressStep
  <2>1. ASSUME NEW ret \in ConsumeResults, Consume(ret), LoopUnlessSuspended(ret),
               UNCHANGED global_state
        PROVE  IInv'
    BY <1>0, <2>0, <2>1, LoopStep, ReadingStep
  <2>2. ASSUME global_state' = "START", Return("TRUE"),
               UNCHANGED <<inputVars, output_scan_number>>
        PROVE  IInv'
    <3>1. CallTyped' /\ CallPhase'
      BY <1>0, <2>0, <2>2 DEF CallTyped, Return
    <3> QED
      BY <2>0, <2>2, <3>1, CallStep
  <2> QED BY <1>3, <2>1, <2>2 DEF FinishDecompressStep
<1>4. CASE ReadCoefficientsStep
  <2>0. /\ call = "jpeg_read_coefficients" /\ error = "none"
        /\ UNCHANGED <<outputVars, paramVars>>
    BY <1>4 DEF ReadCoefficientsStep
  <2>1. ASSUME NEW ret \in ConsumeResults, Consume(ret),
               Return("TRUE") /\ global_state' = "STOPPING"
        PROVE  IInv'
    <3>1. CallTyped' /\ call' = "none"
      BY <1>0, <2>1 DEF CallTyped, Return
    <3> QED
      BY <2>0, <2>1, <3>1, ReadingStep
  <2>2. ASSUME NEW ret \in ConsumeResults, Consume(ret),
               LoopUnlessSuspended(ret) /\ UNCHANGED global_state
        PROVE  IInv'
    BY <1>0, <2>0, <2>2, LoopStep, ReadingStep
  <2> QED BY <1>4, <2>1, <2>2 DEF ReadCoefficientsStep
<1>5. CASE ConsumeInputStep /\ global_state # "INHEADER"
  <2>0. /\ call = "jpeg_consume_input" /\ error = "none"
        /\ UNCHANGED <<global_state, outputVars, paramVars>>
    BY <1>5 DEF ConsumeInputStep
  <2>1. PICK ret \in ConsumeResults :
          /\ Consume(ret)
          /\ IF ret \notin Returns THEN Fail(ret)
             ELSE IF ret = "AGAIN" THEN Stay ELSE Return(ret)
    BY <1>5 DEF ConsumeInputStep
  <2>2. CallTyped' /\ call' \in {call, "none"}
    BY <1>0, <2>1 DEF CallTyped, Return, Stay, Fail, ConsumeResults, Returns, Errors
  <2>3. Decoding
    BY <1>5, <2>0, Typed DEF States
  <2> QED
    BY <2>0, <2>1, <2>2, <2>3, ReadingStep
<1> QED
  BY <1>1, <1>2, <1>3, <1>4, <1>5

-------------------------------------------------------------------------------
(* Reading the header                                                      *)

\* Where a datastream is started, the input controller is as after Init.
LEMMA DatastreamStep ==
  ASSUME IInv, StartDatastream,
         \/ EnterConsumeInput
         \/ EnterReadHeader
  PROVE  IInv'
<1> USE ControlAssumption
<1>0. /\ CallTyped /\ InputTyped /\ OutputTyped /\ ParamTyped
      /\ global_state \in States
      /\ UNCHANGED <<output_scan_number, outputVars, paramVars, result, error>>
      /\ error = "none" /\ call' \in {"jpeg_consume_input", "jpeg_read_header"}
  BY Typed DEF IInv, EnterConsumeInput, EnterReadHeader, Enter, Idle
<1>1. CallTyped'
  BY <1>0 DEF CallTyped, Calls
<1>2. CASE global_state = "START"
  <2>1. /\ stream' \in Streams /\ pos' = 0 /\ consume_input' = "markers"
        /\ inheaders' = 1 /\ eoi_reached' = FALSE /\ has_multiple_scans' = FALSE
        /\ input_scan_number' = 0 /\ input_iMCU_row' = input_iMCU_row
        /\ global_state' = "INHEADER"
    BY <1>2 DEF StartDatastream, ResetInputController
  <2>2. Len(stream'.items) \in Nat \ {0}
    BY <2>1 DEF StreamsAssumption
  <2>3. TypeOK'
    <3>1. InputTyped'
      <4>1. eoi_reached' \in BOOLEAN /\ has_multiple_scans' \in BOOLEAN
        BY <2>1, Zenon
      <4>2. /\ output_scan_number' \in Nat /\ input_iMCU_row' \in 0 .. Rows
            /\ inheaders' \in 0 .. 2
        BY <1>0, <2>1 DEF InputTyped
      <4> QED BY <2>1, <2>2, <4>1, <4>2 DEF InputTyped
    <3>2. OutputTyped' /\ ParamTyped'
      BY <1>0 DEF OutputTyped, ParamTyped, outputVars, paramVars
    <3> QED BY <1>1, <2>1, <3>1, <3>2, TypedNext DEF States
  <2>4. InputInBounds' /\ HeaderPhase' /\ CallPhase'
    BY <1>0, <2>1, <2>2 DEF InputInBounds, HeaderPhase, CallPhase
  <2>5. InputPhase' /\ PassPhase' /\ TargetPhase' /\ RowsShown'
    BY <2>1 DEF InputPhase, PassPhase, TargetPhase, RowsShown, Decoding, OutputPass
  <2> QED
    BY <2>3, <2>4, <2>5 DEF IInv
<1>3. CASE global_state # "START"
  <2>1. UNCHANGED <<global_state, inputVars>>
    BY <1>3 DEF StartDatastream
  <2>2. CallPhase'
    <3>1. CASE EnterConsumeInput
      BY <1>0, <1>3, <2>1, <3>1 DEF CallPhase, EnterConsumeInput, Enter, Allowed
    <3>2. CASE EnterReadHeader
      BY <1>0, <1>3, <2>1, <3>2 DEF CallPhase, EnterReadHeader, Enter, Allowed
    <3> QED BY <3>1, <3>2
  <2> QED
    BY <1>0, <1>1, <2>1, <2>2, CallStep
<1> QED BY <1>2, <1>3

\* The header is read by consume_input until the first SOS; a datastream of
\* tables only may end in jpeg_abort.
LEMMA HeaderSteps ==
  ASSUME IInv, 
         \/ ConsumeInputStep /\ global_state = "INHEADER"
         \/ ReadHeaderStep
  PROVE  IInv'
<1> USE ControlAssumption
<1>0. /\ CallTyped /\ InputTyped /\ OutputTyped /\ ParamTyped /\ InputInBounds
      /\ global_state = "INHEADER" /\ error = "none"
      /\ consume_input = "markers" /\ inheaders # 0 /\ input_scan_number = 0
  BY Typed DEF IInv, ConsumeInputStep, ReadHeaderStep, CallPhase, HeaderPhase
<1>1. PICK ret \in ConsumeResults :
        /\ Consume(ret)
        /\ \/ /\ ret # "SOS" /\ UNCHANGED <<outputVars, paramVars>>
              /\ UNCHANGED global_state \/ global_state' = "START"
           \/ ret = "SOS" /\ HeaderDone
        /\ CallTyped'
        /\ UNCHANGED <<call, global_state>> \/ call' = "none" \/ error' # "none"
  <2>1. CASE ConsumeInputStep
    <3>1. PICK ret \in ConsumeResults :
            /\ Consume(ret)
            /\ IF ret \notin Returns THEN Fail(ret)
               ELSE IF ret = "AGAIN" THEN Stay ELSE Return(ret)
            /\ IF ret = "SOS" THEN HeaderDone
               ELSE UNCHANGED <<global_state, outputVars, paramVars>>
      BY <1>0, <2>1 DEF ConsumeInputStep
    <3>2. CallTyped'
      BY <1>0, <3>1 DEF CallTyped, Return, Stay, Fail, ConsumeResults, Returns, Errors
    <3>3. UNCHANGED <<call, global_state>> \/ call' = "none" \/ error' # "none"
      BY <1>0, <3>1 DEF Return, Stay, Fail, ConsumeResults, Returns
    <3> QED BY <3>1, <3>2, <3>3
  <2>2. CASE ReadHeaderStep
    <3>1. PICK ret \in ConsumeResults :
            /\ Consume(ret)
            /\ \/ /\ ret \notin Returns /\ Fail(ret)
                  /\ UNCHANGED <<global_state, outputVars, paramVars>>
               \/ /\ ret \in {"AGAIN", "SUSPENDED"} /\ LoopUnlessSuspended(ret)
                  /\ UNCHANGED <<global_state, outputVars, paramVars>>
               \/ /\ ret = "EOI"
                  /\ \/ Fail("NO_IMAGE") /\ UNCHANGED global_state
                     \/ Return(ret) /\ global_state' = "START"
                  /\ UNCHANGED <<outputVars, paramVars>>
               \/ ret = "SOS" /\ Return(ret) /\ HeaderDone
      BY <2>2 DEF ReadHeaderStep
    <3>2. CallTyped'
      BY <1>0, <3>1, LoopStep DEF CallTyped, Return, Fail, ConsumeResults, Returns, Errors
    <3>3. UNCHANGED <<call, global_state>> \/ call' = "none" \/ error' # "none"
      BY <1>0, <3>1, LoopStep DEF Return, Fail, ConsumeResults, Returns
    <3> QED BY <3>1, <3>2, <3>3 DEF Returns
  <2> QED BY <2>1, <2>2
<1>2. /\ InputTyped' /\ InputInBounds' /\ consume_input' = "markers"
      /\ ret = "SOS" => inheaders' = 0 /\ input_scan_number' = 1 /\ ~eoi_reached'
      /\ ret # "SOS" => inheaders' # 0 /\ input_scan_number' = 0
  BY <1>0, <1>1, ConsumeInBounds, ConsumeInHeader
<1>3. CASE ret # "SOS"
  <2>1. TypeOK'
    BY <1>0, <1>1, <1>2, <1>3, TypedNext
    DEF OutputTyped, ParamTyped, States, outputVars, paramVars
  <2>2. HeaderPhase' /\ CallPhase'
    BY <1>0, <1>1, <1>2, <1>3 DEF HeaderPhase, CallPhase, IInv
  <2>3. InputPhase' /\ PassPhase' /\ TargetPhase' /\ RowsShown'
    BY <1>0, <1>1, <1>3
    DEF InputPhase, PassPhase, TargetPhase, RowsShown, Decoding, OutputPass
  <2> QED
    BY <1>2, <2>1, <2>2, <2>3 DEF IInv
<1>4. CASE ret = "SOS"
  <2>1. TypeOK'
    BY <1>0, <1>1, <1>2, <1>4, TypedNext
    DEF OutputTyped, ParamTyped, States, HeaderDone
  <2>2. global_state' = "READY" /\ (call' = "none" \/ error' # "none")
    BY <1>0, <1>1, <1>4 DEF HeaderDone
  <2>3. HeaderPhase' /\ CallPhase'
    BY <1>2, <1>4, <2>2 DEF HeaderPhase, CallPhase
  <2>4. InputPhase' /\ PassPhase' /\ TargetPhase' /\ RowsShown'
    BY <2>2 DEF InputPhase, PassPhase, TargetPhase, RowsShown, Decoding, OutputPass
  <2> QED
    BY <1>2, <2>1, <2>3, <2>4 DEF IInv
<1> QED BY <1>3, <1>4

-------------------------------------------------------------------------------
(* Entering a call, leaving a pass or an image                             *)

\* The entry points that change no more than the state of the API, and the end
\* of jpeg_start_decompress in buffered-image mode.
LEMMA EntrySteps ==
  ASSUME IInv,
         \/ EnterRead \/ EnterFinishOutput \/ EnterFinishDecompress
         \/ StartDecompressNotImpl \/ StartBufferedImage \/ Abort
         \/ \E f \in Calls : BadCall(f)
         \/ EnterStartDecompress /\ global_state # "READY"
         \/ EnterReadCoefficients /\ global_state # "READY"
  PROVE  IInv'
<1> USE DEF CallTyped, Calls, Errors, Enter, Allowed, Idle
<1>0. CallTyped /\ global_state \in States /\ CallPhase /\ PassPhase /\ TypeOK
  BY Typed DEF IInv
<1>1. CASE EnterRead
  <2>1. CallTyped' /\ CallPhase'
    BY <1>0, <1>1 DEF EnterRead, CallPhase, outputVars
  <2> QED
    BY <1>1, <2>1, CallStep DEF EnterRead
<1>2. CASE EnterFinishOutput
  <2>1. CallTyped' /\ CallPhase'
    BY <1>0, <1>2 DEF EnterFinishOutput, CallPhase
  <2>2. Decoding /\ ~is_dummy_pass /\ OutputPass
    BY <1>0, <1>2 DEF EnterFinishOutput, PassPhase, Decoding, OutputPass
  <2> QED
    BY <1>2, <2>1, <2>2, CallStep DEF EnterFinishOutput
<1>3. CASE EnterFinishDecompress
  <2>1. CallTyped' /\ CallPhase'
    BY <1>0, <1>3 DEF EnterFinishDecompress, CallPhase
  <2>2. Decoding
    BY <1>0, <1>3 DEF EnterFinishDecompress, Decoding
  <2> QED
    BY <1>3, <2>1, <2>2, CallStep DEF EnterFinishDecompress
<1>4. CASE StartDecompressNotImpl
  <2>1. CallTyped' /\ CallPhase'
    BY <1>0, <1>4 DEF StartDecompressNotImpl, CallPhase
  <2> QED
    BY <1>4, <2>1, CallStep DEF StartDecompressNotImpl
<1>5. CASE StartBufferedImage
  <2>1. CallTyped' /\ CallPhase'
    BY <1>0, <1>5 DEF StartBufferedImage, Return, CallPhase
  <2>2. Decoding /\ ~is_dummy_pass
    BY <1>0, <1>5 DEF StartBufferedImage, PassPhase, Decoding
  <2> QED
    BY <1>5, <2>1, <2>2, CallStep DEF StartBufferedImage
<1>6. CASE Abort
  <2>1. CallTyped' /\ CallPhase'
    BY <1>0, <1>6 DEF Abort, CallPhase
  <2> QED
    BY <1>6, <2>1, CallStep DEF Abort
<1>7. ASSUME NEW f \in Calls, BadCall(f)
      PROVE  IInv'
  <2>1. CallTyped' /\ CallPhase'
    <3>1. call' = f /\ error' = "BAD_STATE" /\ result' = result
      BY <1>7 DEF BadCall
    <3> QED BY <1>0, <3>1 DEF CallPhase
  <2> QED
    BY <1>7, <2>1, CallStep DEF BadCall
<1>8. CASE EnterStartDecompress /\ global_state # "READY"
  <2>1. CallTyped' /\ CallPhase'
    BY <1>0, <1>8 DEF EnterStartDecompress, CallPhase
  <2> QED
    BY <1>8, <2>1, CallStep DEF EnterStartDecompress
<1>9. CASE EnterReadCoefficients /\ global_state # "READY"
  <2>1. CallTyped' /\ CallPhase'
    BY <1>0, <1>9 DEF EnterReadCoefficients, CallPhase
  <2> QED
    BY <1>9, <2>1, CallStep DEF EnterReadCoefficients, inputVars, paramVars
<1> QED
  BY <1>1, <1>2, <1>3, <1>4, <1>5, <1>6, <1>7, <1>8, <1>9

\* jpeg_start_decompress and jpeg_read_coefficients select the modules and start
\* the first input pass.
LEMMA FirstPassSteps ==
  ASSUME IInv, global_state = "READY", EnterStartDecompress \/ EnterReadCoefficients
  PROVE  IInv'
<1> USE ControlAssumption
<1>0. /\ InputTyped /\ OutputTyped /\ ParamTyped /\ CallTyped
      /\ inheaders = 0 /\ input_scan_number = 1 /\ ~eoi_reached
      /\ InputInBounds /\ HeaderPhase
  BY Typed DEF IInv, HeaderPhase
<1>1. /\ UNCHANGED <<stream, pos, inheaders, eoi_reached, has_multiple_scans,
                     input_scan_number, output_scan_number, output_iMCU_row,
                     output_scanline, colormap, decompress_data, cranking, shown,
                     scan_arg, error, result>>
      /\ input_iMCU_row' = 0
  BY DEF EnterStartDecompress, EnterReadCoefficients, Enter, outputVars
<1>2. /\ consume_input' = IF FullBuffer(buffered_image') THEN "data" ELSE "dummy"
      /\ \/ /\ global_state' = "PRELOAD" /\ call' = "jpeg_start_decompress"
            /\ is_dummy_pass' = FALSE
         \/ /\ global_state' = "RDCOEFS" /\ call' = "jpeg_read_coefficients"
            /\ UNCHANGED is_dummy_pass
      /\ ParamTyped'
  <2>1. CASE EnterStartDecompress
    <3>1. ParamTyped'
      BY <1>0, <2>1 DEF EnterStartDecompress, ParamTyped
    <3> QED BY <2>1, <3>1 DEF EnterStartDecompress, Enter
  <2>2. CASE EnterReadCoefficients
    <3>1. ParamTyped'
      BY <1>0, <2>2 DEF EnterReadCoefficients, ParamTyped
    <3> QED BY <2>2, <3>1 DEF EnterReadCoefficients, Enter, FullBuffer, outputVars
  <2> QED BY <2>1, <2>2
<1>3. TypeOK'
  <2>1. InputTyped' /\ CallTyped'
    BY <1>0, <1>1, <1>2 DEF InputTyped, CallTyped, Calls
  <2>2. OutputTyped'
    <3>1. is_dummy_pass' \in BOOLEAN
      BY <1>0, <1>2, Zenon DEF OutputTyped
    <3> QED BY <1>0, <1>1, <3>1 DEF OutputTyped
  <2> QED BY <1>2, <2>1, <2>2, TypedNext DEF States
<1>4. InputInBounds' /\ HeaderPhase' /\ CallPhase'
  BY <1>0, <1>1, <1>2 DEF InputInBounds, HeaderPhase, CallPhase
<1>5. InputPhase'
  BY <1>0, <1>1, <1>2 DEF InputPhase, Decoding, BetweenScans, FullBuffer
<1>6. PassPhase' /\ TargetPhase' /\ RowsShown'
  BY <1>1, <1>2 DEF PassPhase, TargetPhase, RowsShown, OutputPass
<1> QED
  BY <1>3, <1>4, <1>5, <1>6 DEF IInv

-------------------------------------------------------------------------------
(* Output passes                                                           *)

\* The target jpeg_start_output computes is a scan number, and at EOI one of
\* the scans there are.
LEMMA LimitedScanBound ==
  ASSUME InputTyped, NEW n \in ScanNumbers
  PROVE  /\ LimitedScan(n) \in Nat
         /\ eoi_reached => LimitedScan(n) <= input_scan_number
BY ControlAssumption, Counters DEF LimitedScan, ScanNumbers

\* A pass that starts at the coefficients starts with nothing shown.
LEMMA PassStarts ==
  ASSUME IInv, Decoding, ~is_dummy_pass, PrepareForOutputPass,
         shown' = [r \in Row |-> 0], global_state' = "PRESCAN",
         UNCHANGED <<inputVars, colormap, buffered_image, raw_data_out,
                     enable_2pass_quant, do_block_smoothing>>,
         CallTyped', CallPhase', scan_arg' \in ScanNumbers,
         output_scan_number' \in Nat,
         ~FullBuffer(buffered_image) => input_iMCU_row = 0,
         ~buffered_image /\ has_multiple_scans => eoi_reached,
         eoi_reached \/ ~buffered_image => output_scan_number' <= input_scan_number,
         buffered_image => output_scan_number' = LimitedScan(scan_arg')
  PROVE  IInv'
<1> USE ControlAssumption
<1>0. /\ InputTyped /\ OutputTyped /\ ParamTyped
      /\ InputInBounds /\ InputPhase
  BY Typed DEF IInv
<1>1. /\ output_scanline' = 0 /\ output_iMCU_row' = 0 /\ cranking' = FALSE
      /\ is_dummy_pass' = (enable_2pass_quant /\ ~colormap)
      /\ decompress_data' \in {"onepass", "data", "smooth"}
      /\ decompress_data' = "onepass" <=> ~FullBuffer(buffered_image)
  BY DEF PrepareForOutputPass
<1>2. TypeOK'
  <2>1. InputTyped' /\ ParamTyped'
    BY <1>0 DEF InputTyped, ParamTyped, inputVars
  <2>2. OutputTyped'
    <3>1. is_dummy_pass' \in BOOLEAN /\ cranking' \in BOOLEAN
      BY <1>1, Zenon
    <3>2. shown' \in [Row -> Nat]
      OBVIOUS
    <3> QED BY <1>0, <1>1, <3>1, <3>2 DEF OutputTyped
  <2> QED BY <2>1, <2>2, TypedNext DEF States
<1>3. InputInBounds' /\ HeaderPhase' /\ InputPhase'
  BY <1>0 DEF InputInBounds, HeaderPhase, InputPhase, BetweenScans, FullBuffer,
     Decoding, inputVars
<1>4. PassPhase'
  BY <1>1 DEF PassPhase, Decoding, OutputPass, FullBuffer, inputVars
<1>5. TargetPhase'
  BY DEF TargetPhase, OutputPass, LimitedScan, inputVars
<1>6. RowsShown'
  <2>1. 0 .. output_iMCU_row' - 1 = {}
    BY <1>1
  <2> QED
    BY <2>1 DEF RowsShown, OutputPass, inputVars
<1> QED
  BY <1>2, <1>3, <1>4, <1>5, <1>6 DEF IInv

\* The first pass of jpeg_start_decompress, and those of jpeg_start_output.
LEMMA StartSteps ==
  ASSUME IInv, PreloadDone \/ (EnterStartOutput /\ global_state # "PRESCAN")
  PROVE  IInv'
<1> USE ControlAssumption
<1>0. /\ InputTyped /\ OutputTyped /\ ParamTyped /\ CallTyped /\ CallPhase
      /\ PassPhase /\ InputPhase
      /\ input_scan_number \in Nat
  BY Typed, Counters DEF IInv
<1>1. CASE PreloadDone
  <2>1. /\ UNCHANGED <<call, result, error>> /\ CallTyped' /\ CallPhase'
        /\ Decoding /\ ~is_dummy_pass
    BY <1>0, <1>1 DEF PreloadDone, Stay, CallTyped, CallPhase, PassPhase, Decoding
  <2>2. /\ ~FullBuffer(buffered_image) => input_iMCU_row = 0
        /\ ~buffered_image /\ has_multiple_scans => eoi_reached
    BY <1>0, <1>1 DEF PreloadDone, PreloadWanted, PassPhase
  <2> QED
    BY <1>0, <1>1, <2>1, <2>2, PassStarts DEF PreloadDone, ParamTyped, paramVars
<1>2. CASE EnterStartOutput /\ global_state # "PRESCAN"
  <2>1. /\ call' = "jpeg_start_output" /\ UNCHANGED <<result, error>>
        /\ global_state = "BUFIMAGE" /\ buffered_image /\ buffered_image'
        /\ global_state' = "PRESCAN"
    BY <1>2 DEF EnterStartOutput, Enter, Allowed
  <2>2. CallTyped' /\ CallPhase' /\ Decoding /\ ~is_dummy_pass
    BY <1>0, <2>1 DEF CallTyped, Calls, CallPhase, PassPhase, Decoding
  <2>3. /\ scan_arg' \in ScanNumbers /\ output_scan_number' = LimitedScan(scan_arg')
        /\ PrepareForOutputPass /\ shown' = [r \in Row |-> 0]
        /\ UNCHANGED <<inputVars, colormap, buffered_image, raw_data_out,
                       enable_2pass_quant, do_block_smoothing>>
    BY <1>2 DEF EnterStartOutput
  <2>4. /\ output_scan_number' \in Nat
        /\ eoi_reached => output_scan_number' <= input_scan_number
    BY <1>0, <2>3, LimitedScanBound
  <2>5. FullBuffer(buffered_image)
    BY <2>1 DEF FullBuffer
  <2> QED
    BY <2>1, <2>2, <2>3, <2>4, <2>5, PassStarts
<1> QED BY <1>1, <1>2

\* Repeating jpeg_start_output computes the same target again, now that EOI may
\* have been seen; with another argument the target may change.
LEMMA RepeatedStart ==
  ASSUME IInv, EnterStartOutput, global_state = "PRESCAN"
  PROVE  IInv'
<1>0. /\ InputTyped /\ OutputTyped /\ ParamTyped /\ CallTyped /\ PassPhase
      /\ TargetPhase /\ RowsShown /\ InputInBounds /\ InputPhase
  BY Typed DEF IInv
<1>1. /\ call' = "jpeg_start_output" /\ UNCHANGED <<result, error>>
      /\ buffered_image
      /\ UNCHANGED <<global_state, inputVars, outputVars, buffered_image, raw_data_out,
                     enable_2pass_quant, do_block_smoothing>>
      /\ scan_arg' \in ScanNumbers /\ (RepeatsCall => scan_arg' = scan_arg)
      /\ output_scan_number' = LimitedScan(scan_arg')
  BY DEF EnterStartOutput, Enter
<1>2. /\ output_scan_number' \in Nat
      /\ eoi_reached => output_scan_number' <= input_scan_number
  BY <1>0, <1>1, LimitedScanBound
<1>3. TypeOK'
  <2>1. InputTyped' /\ OutputTyped' /\ ParamTyped' /\ CallTyped'
    BY <1>0, <1>1, <1>2
    DEF InputTyped, OutputTyped, ParamTyped, CallTyped, Calls, inputVars, outputVars
  <2> QED BY <1>1, <2>1, TypedNext DEF States
<1>4. InputInBounds' /\ HeaderPhase' /\ InputPhase' /\ CallPhase'
  BY <1>0, <1>1 DEF InputInBounds, HeaderPhase, InputPhase, BetweenScans, CallPhase,
     FullBuffer, Decoding, inputVars
<1>5. PassPhase'
  BY <1>0, <1>1 DEF PassPhase, Decoding, OutputPass, FullBuffer, inputVars, outputVars
<1>6. TargetPhase'
  BY <1>1, <1>2 DEF TargetPhase, OutputPass, LimitedScan, inputVars
<1>7. RowsShown'
  <2>1. RepeatsCall => output_scan_number' = output_scan_number
    BY <1>0, <1>1 DEF TargetPhase, OutputPass
  <2> QED
    BY <1>0, <1>1, <2>1 DEF RowsShown, OutputPass, inputVars, outputVars
<1> QED
  BY <1>3, <1>4, <1>5, <1>6, <1>7 DEF IInv

\* A dummy pass has output every row of the image when the colormap is made.
LEMMA DummyPassDoneStep ==
  ASSUME IInv, DummyPassDone
  PROVE  IInv'
<1>0. /\ InputTyped /\ OutputTyped /\ ParamTyped /\ CallTyped /\ PassPhase
      /\ TargetPhase /\ RowsShown /\ InputInBounds /\ InputPhase /\ CallPhase
      /\ global_state \in States
  BY Typed DEF IInv
<1>1. /\ OutputPass /\ is_dummy_pass /\ global_state = "PRESCAN"
      /\ UNCHANGED <<global_state, call, result, error, inputVars,
                     output_scan_number, paramVars, shown>>
      /\ output_scanline' = 0 /\ is_dummy_pass' = FALSE /\ cranking' = TRUE
      /\ UNCHANGED <<output_iMCU_row, decompress_data>> /\ colormap' = TRUE
      /\ output_scanline = Rows
  BY DEF DummyPassDone, InSetup, OutputPass, PrepareForOutputPass, Stay
<1>2. output_iMCU_row' = Rows
  BY <1>0, <1>1 DEF PassPhase, OutputTyped
<1>3. TypeOK'
  <2>1. InputTyped' /\ ParamTyped' /\ CallTyped'
    BY <1>0, <1>1 DEF InputTyped, ParamTyped, CallTyped, inputVars, paramVars
  <2>2. OutputTyped'
    <3>1. colormap' \in BOOLEAN /\ is_dummy_pass' \in BOOLEAN /\ cranking' \in BOOLEAN
      BY <1>1, Zenon
    <3> QED BY <1>0, <1>1, <3>1, ControlAssumption DEF OutputTyped
  <2> QED BY <1>0, <1>1, <2>1, <2>2, TypedNext
<1>4. InputInBounds' /\ HeaderPhase' /\ InputPhase' /\ CallPhase'
  BY <1>0, <1>1 DEF InputInBounds, HeaderPhase, InputPhase, BetweenScans, CallPhase,
     FullBuffer, Decoding, inputVars, paramVars
<1>5. PassPhase'
  BY <1>0, <1>1, <1>2 DEF PassPhase, Decoding, OutputPass, FullBuffer, inputVars, paramVars
<1>6. TargetPhase' /\ RowsShown'
  BY <1>0, <1>1 DEF TargetPhase, RowsShown, OutputPass, LimitedScan, inputVars, paramVars
<1> QED
  BY <1>3, <1>4, <1>5, <1>6 DEF IInv

\* The end of output_pass_setup, and the parameters changed between passes.
LEMMA SetupSteps ==
  ASSUME IInv, SetupDone \/ ChangeParameters
  PROVE  IInv'
<1>0. /\ InputTyped /\ OutputTyped /\ ParamTyped /\ CallTyped /\ PassPhase
      /\ TargetPhase /\ RowsShown /\ InputInBounds /\ InputPhase /\ CallPhase
      /\ global_state \in States
  BY Typed DEF IInv
<1>1. CASE SetupDone
  <2>1. /\ OutputPass /\ ~is_dummy_pass /\ global_state' \in {"RAW_OK", "SCANNING"}
        /\ UNCHANGED <<inputVars, output_scan_number, outputVars, paramVars>>
        /\ call' = "none" /\ result' = "TRUE" /\ UNCHANGED error
    BY <1>1 DEF SetupDone, InSetup, OutputPass, Return
  <2>2. TypeOK'
    <3>1. InputTyped' /\ OutputTyped' /\ ParamTyped' /\ CallTyped'
      BY <1>0, <2>1 DEF InputTyped, OutputTyped, ParamTyped, CallTyped, inputVars,
         outputVars, paramVars
    <3> QED BY <2>1, <3>1, TypedNext DEF States
  <2>3. InputInBounds' /\ HeaderPhase' /\ InputPhase' /\ CallPhase'
    BY <1>0, <2>1 DEF InputInBounds, HeaderPhase, InputPhase, BetweenScans, CallPhase,
       FullBuffer, Decoding, OutputPass, inputVars, paramVars
  <2>4. PassPhase' /\ TargetPhase' /\ RowsShown'
    BY <1>0, <2>1 DEF PassPhase, TargetPhase, RowsShown, Decoding, OutputPass, FullBuffer,
       LimitedScan, inputVars, outputVars, paramVars
  <2> QED BY <2>2, <2>3, <2>4 DEF IInv
<1>2. CASE ChangeParameters
  <2>1. /\ global_state = "BUFIMAGE" /\ call' = "none"
        /\ UNCHANGED <<global_state, call, result, error, inputVars,
             output_scan_number, output_iMCU_row, output_scanline, is_dummy_pass,
             decompress_data, cranking, shown, buffered_image, raw_data_out,
             enable_2pass_quant, scan_arg>>
    BY <1>2 DEF ChangeParameters, Idle
  <2>2. TypeOK'
    <3>1. InputTyped' /\ CallTyped'
      BY <1>0, <2>1 DEF InputTyped, CallTyped, inputVars
    <3>2. colormap' \in BOOLEAN /\ do_block_smoothing' \in BOOLEAN
      <4>1. colormap' \in {FALSE, colormap} /\ do_block_smoothing' \in SmoothModes \cup {do_block_smoothing}
        BY <1>2, Zenon DEF ChangeParameters
      <4>2. SmoothModes \subseteq BOOLEAN
        BY ControlAssumption, Zenon
      <4> QED BY <1>0, <4>1, <4>2, Zenon DEF OutputTyped, ParamTyped
    <3>3. OutputTyped' /\ ParamTyped'
      BY <1>0, <2>1, <3>2 DEF OutputTyped, ParamTyped
    <3> QED BY <2>1, <3>1, <3>3, TypedNext DEF States
  <2>3. InputInBounds' /\ HeaderPhase' /\ InputPhase' /\ CallPhase'
    BY <1>0, <2>1 DEF InputInBounds, HeaderPhase, InputPhase, BetweenScans, CallPhase,
       FullBuffer, Decoding, inputVars
  <2>4. PassPhase' /\ TargetPhase' /\ RowsShown'
    BY <1>0, <2>1 DEF PassPhase, TargetPhase, RowsShown, Decoding, OutputPass
  <2> QED BY <2>2, <2>3, <2>4 DEF IInv
<1> QED BY <1>1, <1>2

\* A colormap the application brings, or the refusal of one.
LEMMA NewColormapStep ==
  ASSUME IInv, jpeg_new_colormap
  PROVE  IInv'
<1>1. /\ InputTyped /\ OutputTyped /\ ParamTyped /\ CallTyped /\ InputInBounds
      /\ HeaderPhase /\ InputPhase /\ CallPhase
  BY Typed DEF IInv
<1>2. /\ global_state = "BUFIMAGE" /\ call = "none" /\ error = "none"
      /\ colormap' = TRUE /\ is_dummy_pass' \in {FALSE, is_dummy_pass}
      /\ UNCHANGED <<global_state, result, inputVars, output_scan_number,
           output_iMCU_row, output_scanline, decompress_data, cranking, shown, paramVars>>
  <2>1. global_state = "BUFIMAGE"
    BY DEF jpeg_new_colormap, Allowed
  <2>2. is_dummy_pass' \in {FALSE, is_dummy_pass}
    BY Zenon DEF jpeg_new_colormap
  <2> QED BY <2>1, <2>2, Zenon DEF jpeg_new_colormap, Idle
<1>3. \/ call' = "none" /\ error' = "none"
      \/ call' = "jpeg_new_colormap" /\ error' = "MODE_CHANGE"
  BY <1>2 DEF jpeg_new_colormap
<1>4. CallTyped'
  BY <1>1, <1>2, <1>3 DEF CallTyped, Calls, Errors
<1>5. InputTyped' /\ ParamTyped'
  BY <1>1, <1>2 DEF InputTyped, ParamTyped, inputVars, paramVars
<1>6. OutputTyped'
  <2>1. colormap' \in BOOLEAN /\ is_dummy_pass' \in BOOLEAN
    BY <1>1, <1>2, Zenon DEF OutputTyped
  <2> QED BY <1>1, <1>2, <2>1 DEF OutputTyped
<1>7. TypeOK'
  BY <1>2, <1>4, <1>5, <1>6, TypedNext DEF States
<1>8. InputInBounds' /\ HeaderPhase' /\ InputPhase' /\ CallPhase'
  <2>1. CallPhase'
    BY <1>3 DEF CallPhase
  <2>2. InputInBounds' /\ HeaderPhase' /\ InputPhase'
    BY <1>1, <1>2 DEF InputInBounds, HeaderPhase, InputPhase, BetweenScans,
       FullBuffer, Decoding, inputVars, paramVars
  <2> QED BY <2>1, <2>2
<1>9. PassPhase' /\ TargetPhase' /\ RowsShown'
  <2>1. ~is_dummy_pass'
    <3>1. ~is_dummy_pass
      BY <1>2 DEF IInv, PassPhase, Decoding
    <3> QED BY <1>2, <3>1, Zenon
  <2>2. ~OutputPass'
    BY <1>2, <1>3 DEF OutputPass
  <2> QED BY <1>2, <2>1, <2>2 DEF PassPhase, TargetPhase, RowsShown
<1> QED BY <1>7, <1>8, <1>9 DEF IInv

-------------------------------------------------------------------------------
(* Rows of output                                                          *)

\* After the interlock loop, the row about to be output was read from the
\* target scan or a later one; once EOI was read, from the last one.
LEMMA RowReady ==
  ASSUME IInv, OutputPass, ~cranking, output_scanline < Rows,
         ~MustWait, decompress_data # "onepass",
         NEW scans, scans = IF input_iMCU_row > output_iMCU_row
                              THEN input_scan_number ELSE input_scan_number - 1
  PROVE  /\ scans \in Nat
         /\ scans >= output_scan_number /\ scans <= input_scan_number
         /\ eoi_reached => scans = input_scan_number
<1> USE ControlAssumption
<1>0. /\ InputTyped /\ OutputTyped /\ PassPhase /\ TargetPhase /\ BetweenScans
      /\ input_scan_number \in Nat /\ output_scan_number \in Nat
      /\ input_iMCU_row \in Nat /\ input_scan_number >= 1
      /\ output_iMCU_row \in 0 .. Rows - 1
  <2>1. BetweenScans /\ InputTyped /\ OutputTyped /\ PassPhase /\ TargetPhase
    BY Typed DEF IInv, InputPhase, Decoding, OutputPass
  <2>2. output_iMCU_row = output_scanline
    BY <2>1 DEF PassPhase
  <2> QED BY <2>1, <2>2, Counters DEF BetweenScans, OutputTyped
<1>1. eoi_reached => /\ output_scan_number <= input_scan_number
                     /\ input_iMCU_row > output_iMCU_row
  <2>1. eoi_reached => input_iMCU_row = Rows
    BY <1>0 DEF BetweenScans
  <2> QED BY <1>0, <2>1 DEF TargetPhase
<1>2. CASE decompress_data = "data"
  BY <1>0, <1>1, <1>2 DEF MustWait
<1>3. CASE decompress_data = "smooth"
  <2>1. (IF InDCScan THEN 1 ELSE 0) \in Nat
    OBVIOUS
  <2> QED BY <1>0, <1>1, <1>3, <2>1 DEF MustWait
<1> QED BY <1>0, <1>2, <1>3 DEF OutputTyped

\* What a row of output keeps: one more row shown, from the scans behind it.
LEMMA RowStep ==
  ASSUME IInv, OutputPass, ~cranking, output_scanline < Rows,
         NEW scans \in Nat, EmitRow(scans),
         scans >= output_scan_number, scans <= input_scan_number,
         ~buffered_image /\ has_multiple_scans => scans = input_scan_number,
         UNCHANGED <<global_state, paramVars, output_scan_number>>,
         CallTyped', CallPhase', InputTyped', InputInBounds', BetweenScans',
         UNCHANGED <<has_multiple_scans, eoi_reached, input_scan_number>>,
         decompress_data = "onepass" => input_iMCU_row' = input_iMCU_row + 1
  PROVE  IInv'
<1> USE ControlAssumption
<1>0. /\ OutputTyped /\ ParamTyped /\ PassPhase /\ TargetPhase /\ RowsShown
      /\ output_scan_number \in Nat /\ input_iMCU_row \in Nat
      /\ output_iMCU_row = output_scanline /\ output_iMCU_row \in 0 .. Rows - 1
      /\ global_state \in States
  <2>1. /\ OutputTyped /\ ParamTyped /\ PassPhase /\ TargetPhase /\ RowsShown
        /\ InputTyped /\ global_state \in States
    BY Typed DEF IInv
  <2>2. output_iMCU_row = output_scanline
    BY <2>1 DEF PassPhase
  <2> QED BY <2>1, <2>2, Counters DEF OutputTyped
<1>1. /\ output_iMCU_row' = output_iMCU_row + 1
      /\ output_scanline' = output_scanline + 1
      /\ shown' = [shown EXCEPT ![output_iMCU_row] = scans]
      /\ UNCHANGED <<colormap, is_dummy_pass, decompress_data, cranking>>
  BY DEF EmitRow
<1>2. /\ shown' \in [Row -> Nat] /\ shown'[output_iMCU_row] = scans
      /\ \A r \in 0 .. output_iMCU_row - 1 : shown'[r] = shown[r]
  BY <1>0, <1>1 DEF OutputTyped, Row
<1>3. TypeOK'
  <2>1. OutputTyped' /\ ParamTyped'
    BY <1>0, <1>1, <1>2 DEF OutputTyped, ParamTyped, paramVars
  <2> QED BY <1>0, <2>1, TypedNext DEF States
<1>4. HeaderPhase' /\ InputPhase'
  BY DEF HeaderPhase, InputPhase, OutputPass
<1>5. PassPhase'
  BY <1>0, <1>1 DEF PassPhase, Decoding, OutputPass, FullBuffer, paramVars
<1>6. TargetPhase'
  BY <1>0 DEF TargetPhase, OutputPass, LimitedScan, paramVars
<1>7. RowsShown'
  <2>1. \A r \in 0 .. output_iMCU_row' - 1 :
          r = output_iMCU_row \/ r \in 0 .. output_iMCU_row - 1
    BY <1>0, <1>1
  <2> QED BY <1>0, <1>1, <1>2, <2>1 DEF RowsShown, OutputPass, paramVars
<1> QED
  BY <1>3, <1>4, <1>5, <1>6, <1>7 DEF IInv

\* process_data in an output pass that is not complete: wait for input, output a
\* row, decode and output a row in lockstep, or emit a row of the saved image.
LEMMA ProcessDataStep ==
  ASSUME IInv, OutputPass, error = "none", call # "none", output_scanline < Rows,
         UNCHANGED <<global_state, paramVars>>,
         ProcessData(CallTyped' /\ CallPhase')
  PROVE  IInv'
<1> USE ControlAssumption
<1>0. /\ InputTyped /\ OutputTyped /\ ParamTyped /\ CallTyped /\ PassPhase
      /\ TargetPhase /\ RowsShown /\ InputInBounds /\ BetweenScans /\ CallPhase
      /\ Decoding /\ InputPhase /\ HeaderPhase /\ global_state \in States
      /\ input_scan_number \in Nat
  BY Typed, Counters DEF IInv, InputPhase, Decoding, OutputPass
<1>1. CASE ~cranking /\ WaitForInput
  <2>1. PICK ret \in ConsumeResults : Consume(ret) /\ LoopUnlessSuspended(ret)
    BY <1>1 DEF WaitForInput
  <2> QED
    BY <1>0, <1>1, <2>1, LoopStep, ReadingStep DEF WaitForInput
<1>2. CASE ~cranking /\ OutputRow /\ CallTyped' /\ CallPhase'
  <2> DEFINE scans == IF input_iMCU_row > output_iMCU_row
                        THEN input_scan_number ELSE input_scan_number - 1
  <2>1. /\ EmitRow(scans) /\ UNCHANGED <<inputVars, output_scan_number>>
        /\ ~MustWait /\ decompress_data # "onepass"
    BY <1>2 DEF OutputRow
  <2>2. /\ scans \in Nat /\ scans >= output_scan_number /\ scans <= input_scan_number
        /\ eoi_reached => scans = input_scan_number
    BY <1>2, <2>1, RowReady
  <2>3. ~buffered_image /\ has_multiple_scans => scans = input_scan_number
    BY <1>0, <2>2 DEF RowsShown
  <2>4. /\ InputTyped' /\ InputInBounds' /\ BetweenScans'
        /\ UNCHANGED <<has_multiple_scans, eoi_reached, input_scan_number,
                       output_scan_number>>
    BY <1>0, <2>1
    DEF InputTyped, InputInBounds, BetweenScans, FullBuffer, inputVars, paramVars
  <2> HIDE DEF scans
  <2> QED
    BY <1>2, <2>1, <2>2, <2>3, <2>4, RowStep
<1>3. CASE ~cranking /\ DecompressOnepass(CallTyped' /\ CallPhase')
  <2>0. decompress_data = "onepass" /\ UNCHANGED output_scan_number
    BY <1>3 DEF DecompressOnepass
  <2>1. ~FullBuffer(buffered_image) /\ output_iMCU_row = output_scanline
        /\ input_iMCU_row = output_iMCU_row /\ ~buffered_image /\ ~has_multiple_scans
    BY <1>0, <1>3, <2>0 DEF PassPhase, FullBuffer
  <2>2. ASSUME Return("SUSPENDED") \/ Fail("CORRUPT"), UNCHANGED <<inputVars, outputVars>>
        PROVE  IInv'
    <3>1. CallTyped' /\ CallPhase'
      BY <1>0, <2>2 DEF CallTyped, CallPhase, Return, Fail, Errors
    <3> QED BY <2>0, <2>2, <3>1, CallStep
  <2>3. ASSUME CallTyped' /\ CallPhase', EmitRow(input_scan_number),
               input_iMCU_row' = input_iMCU_row + 1,
               consume_input' = FinishInputPass,
               UNCHANGED <<stream, pos, inheaders, eoi_reached, has_multiple_scans,
                           input_scan_number>>
        PROVE  IInv'
    <3>1. consume_input = "dummy" /\ input_iMCU_row \in Nat /\ input_iMCU_row < Rows
      BY <1>0, <2>1 DEF BetweenScans, InputTyped
    <3>2. InputTyped' /\ InputInBounds' /\ BetweenScans'
      BY <1>0, <2>0, <2>1, <2>3, <3>1
      DEF InputTyped, InputInBounds, BetweenScans, FullBuffer, FinishInputPass, paramVars
    <3>3. input_scan_number >= output_scan_number
      BY <1>0, <2>1 DEF TargetPhase
    <3> QED
      BY <1>0, <1>3, <2>0, <2>1, <2>3, <3>2, <3>3, RowStep
  <2> QED
    BY <1>3, <2>2, <2>3 DEF DecompressOnepass
<1>4. CASE CrankPost /\ CallTyped' /\ CallPhase'
  <2>1. /\ cranking /\ output_scanline' = output_scanline + 1
        /\ UNCHANGED <<inputVars, output_scan_number, output_iMCU_row, colormap,
                       is_dummy_pass, decompress_data, cranking, shown>>
    BY <1>4 DEF CrankPost
  <2>2. TypeOK'
    <3>1. InputTyped' /\ OutputTyped' /\ ParamTyped'
      BY <1>0, <2>1 DEF InputTyped, OutputTyped, ParamTyped, inputVars, paramVars
    <3> QED BY <1>0, <1>4, <3>1, TypedNext
  <2>3. InputInBounds' /\ HeaderPhase' /\ InputPhase'
    BY <1>0, <2>1 DEF InputInBounds, HeaderPhase, InputPhase, BetweenScans, FullBuffer,
       Decoding, inputVars, paramVars
  <2>4. PassPhase' /\ TargetPhase' /\ RowsShown'
    BY <1>0, <2>1 DEF PassPhase, TargetPhase, RowsShown, Decoding, OutputPass,
       FullBuffer, LimitedScan, inputVars, paramVars
  <2> QED BY <1>4, <2>2, <2>3, <2>4 DEF IInv
<1> QED
  BY <1>1, <1>2, <1>3, <1>4 DEF ProcessData

\* jpeg_read_scanlines and jpeg_read_raw_data, and the dummy pass.
LEMMA OutputSteps ==
  ASSUME IInv, ReadStep \/ DummyPassStep
  PROVE  IInv'
<1>0. CallTyped /\ CallPhase
  BY Typed DEF IInv
<1>1. CASE ReadStep
  <2>1. /\ OutputPass /\ error = "none" /\ call # "none" /\ output_scanline < Rows
        /\ UNCHANGED <<global_state, paramVars>>
    BY <1>0, <1>1 DEF ReadStep, CallPhase, OutputPass
  <2>2. Return("ROW") => CallTyped' /\ CallPhase'
    BY <1>0 DEF Return, CallTyped, CallPhase
  <2>3. ProcessData(CallTyped' /\ CallPhase')
    BY <1>1, <2>2 DEF ReadStep, ProcessData, DecompressOnepass
  <2> QED BY <2>1, <2>3, ProcessDataStep
<1>2. CASE DummyPassStep
  <2>1. /\ OutputPass /\ error = "none" /\ call # "none" /\ output_scanline < Rows
        /\ UNCHANGED <<global_state, paramVars>>
        /\ call \in {"jpeg_start_decompress", "jpeg_start_output"}
    BY <1>2 DEF DummyPassStep, InSetup, OutputPass
  <2>2. Stay => CallTyped' /\ CallPhase'
    BY <1>0, <2>1 DEF Stay, CallTyped, CallPhase, paramVars
  <2>3. ProcessData(CallTyped' /\ CallPhase')
    BY <1>2, <2>2 DEF DummyPassStep, ProcessData, DecompressOnepass
  <2> QED BY <2>1, <2>3, ProcessDataStep
<1> QED BY <1>1, <1>2

-------------------------------------------------------------------------------
(* The theorems                                                            *)

LEMMA InitIInv == Init => IInv
<1> SUFFICES ASSUME Init PROVE IInv
  OBVIOUS
<1> USE ControlAssumption
<1>1. stream \in Streams /\ Len(stream.items) \in Nat \ {0}
  BY DEF Init, StreamsAssumption
<1>2. TypeOK
  <2>1. InputTyped
    <3>1. eoi_reached \in BOOLEAN /\ has_multiple_scans \in BOOLEAN
      BY Zenon DEF Init
    <3> QED BY <1>1, <3>1 DEF Init, InputTyped
  <2>2. OutputTyped /\ ParamTyped /\ CallTyped
    <3>1. /\ colormap \in BOOLEAN /\ is_dummy_pass \in BOOLEAN /\ cranking \in BOOLEAN
          /\ buffered_image \in BOOLEAN /\ raw_data_out \in BOOLEAN
          /\ enable_2pass_quant \in BOOLEAN /\ do_block_smoothing \in BOOLEAN
      BY Zenon DEF Init
    <3>2. shown \in [Row -> Nat]
      BY DEF Init
    <3>3. CallTyped
      BY DEF Init, CallTyped
    <3> QED BY <3>1, <3>2, <3>3 DEF Init, OutputTyped, ParamTyped, ScanNumbers
  <2> QED BY <2>1, <2>2, Typed DEF Init, States
<1>3. InputInBounds /\ HeaderPhase /\ CallPhase
  BY <1>1 DEF Init, InputInBounds, HeaderPhase, CallPhase
<1>4. InputPhase /\ PassPhase /\ TargetPhase /\ RowsShown
  BY DEF Init, InputPhase, PassPhase, TargetPhase, RowsShown, Decoding, OutputPass
<1> QED BY <1>2, <1>3, <1>4 DEF IInv

LEMMA NextIInv == IInv /\ [Next]_vars => IInv'
<1> SUFFICES ASSUME IInv, [Next]_vars PROVE IInv'
  OBVIOUS
<1>1. CASE AppCall
  <2>1. CASE EnterConsumeInput \/ EnterReadHeader
    BY <2>1, DatastreamStep DEF EnterConsumeInput, EnterReadHeader
  <2>2. CASE EnterStartOutput
    BY <2>2, StartSteps, RepeatedStart
  <2>3. CASE EnterStartDecompress \/ EnterReadCoefficients
    BY <2>3, FirstPassSteps, EntrySteps
  <2>4. CASE ChangeParameters
    BY <2>4, SetupSteps
  <2>5. CASE jpeg_new_colormap
    BY <2>5, NewColormapStep
  <2> QED
    BY <1>1, <2>1, <2>2, <2>3, <2>4, <2>5, EntrySteps DEF AppCall
<1>2. CASE LibraryStep
  <2>1. CASE PreloadStep \/ FinishOutputStep \/ ReadCoefficientsStep \/ FinishDecompressStep
    BY <2>1, LoopSteps
  <2>2. CASE ConsumeInputStep \/ ReadHeaderStep
    BY <2>2, LoopSteps, HeaderSteps
  <2>3. CASE StartBufferedImage
    BY <2>3, EntrySteps
  <2>4. CASE PreloadDone
    BY <2>4, StartSteps
  <2>5. CASE ReadStep \/ DummyPassStep
    BY <2>5, OutputSteps
  <2>6. CASE DummyPassDone \/ SetupDone
    BY <2>6, DummyPassDoneStep, SetupSteps
  <2> QED
    BY <1>2, <2>1, <2>2, <2>3, <2>4, <2>5, <2>6 DEF LibraryStep
<1>3. CASE UNCHANGED vars
  <2>1. CallTyped' /\ CallPhase'
    BY <1>3, Typed DEF IInv, CallTyped, CallPhase, vars, outputVars, paramVars
  <2> QED BY <1>3, <2>1, CallStep DEF vars
<1> QED BY <1>1, <1>2, <1>3 DEF Next

LEMMA Inductive == Spec => []IInv
BY InitIInv, NextIInv, PTL DEF Spec

\* Every image starts from a clean slate, whatever call, suspension, error or
\* abort came before it: jpeg_consume_input and reset_input_controller leave
\* nothing of the last datastream in the input controller (jdapimin.c:290).
THEOREM CleanSlate == Spec => []StartsAfresh
<1>1. IInv => StartsAfresh
  BY DEF IInv, HeaderPhase, StartsAfresh, FreshHeader
<1> QED BY <1>1, Inductive, PTL

\* Outside buffered-image mode no row of a file of several scans is output
\* before the file was read to EOI, and each row is made from the last scan,
\* through two-pass quantization too (jdapistd.c:30).
THEOREM CompleteData == Spec => []OutputFromCompleteData
<1>1. IInv => OutputFromCompleteData
  <2> SUFFICES ASSUME IInv, OutputPass, ~buffered_image /\ has_multiple_scans
               PROVE  eoi_reached /\ \A r \in 0 .. output_scanline - 1 :
                                        shown[r] = input_scan_number
    BY DEF OutputFromCompleteData, OutputPass
  <2>1. output_scanline \in 0 .. Rows /\ output_iMCU_row \in 0 .. Rows
    BY Typed DEF IInv, OutputTyped
  <2>2. output_scanline <= output_iMCU_row
    BY <2>1, ControlAssumption DEF IInv, PassPhase
  <2> QED BY <2>1, <2>2, ControlAssumption DEF IInv, RowsShown
<1> QED BY <1>1, Inductive, PTL

\* If the application repeats a suspended jpeg_start_output unchanged, every row
\* of an output pass was made from its target scan or a later one: the
\* interlock of the coefficient controller (jdcoefct.c:405, 720) keeps what
\* jpeg_start_output promised, also when EOI lowers the target.
THEOREM TargetReached ==
  ASSUME RepeatsCall
  PROVE  Spec => []ShownAtLeastTarget
<1>1. IInv => ShownAtLeastTarget
  <2> SUFFICES ASSUME IInv, OutputPass
               PROVE  \A r \in 0 .. output_scanline - 1 : shown[r] >= output_scan_number
    BY DEF ShownAtLeastTarget, OutputPass
  <2>1. output_scanline \in 0 .. Rows /\ output_iMCU_row \in 0 .. Rows
    BY Typed DEF IInv, OutputTyped
  <2>2. output_scanline <= output_iMCU_row
    BY <2>1, ControlAssumption DEF IInv, PassPhase
  <2> QED BY <2>1, <2>2, ControlAssumption DEF IInv, RowsShown
<1> QED BY <1>1, Inductive, PTL

\* What libjpeg.txt:2014-2023 promises of the last pass holds for an application
\* that repeats a suspended jpeg_start_output unchanged: when the input is
\* complete and the target was the last scan, a complete pass showed the final
\* image.  (DecompressNewTarget shows that it fails without the assumption.)
THEOREM LastPassFinal ==
  ASSUME RepeatsCall
  PROVE  Spec => FinalPassInSync
<1>1. IInv /\ [Next]_vars =>
        [/\ call = "jpeg_finish_output" /\ global_state' = "BUFIMAGE"
         /\ eoi_reached /\ input_scan_number = output_scan_number
         /\ output_scanline = Rows
         => \A r \in Row : shown[r] = input_scan_number]_vars
  <2> SUFFICES ASSUME IInv, Next, call = "jpeg_finish_output",
                      global_state' = "BUFIMAGE",
                      input_scan_number = output_scan_number,
                      output_scanline = Rows, NEW r \in Row
               PROVE  shown[r] = input_scan_number
    OBVIOUS
  <2>1. error = "none"
    BY DEF Next, AppCall, LibraryStep, EnterConsumeInput, EnterReadHeader,
       EnterStartDecompress, StartDecompressNotImpl, EnterRead, EnterStartOutput,
       EnterFinishOutput, EnterReadCoefficients, EnterFinishDecompress,
       ChangeParameters, jpeg_new_colormap, Abort, BadCall, Enter, Idle, ConsumeInputStep,
       ReadHeaderStep, StartBufferedImage, PreloadStep, PreloadDone, ReadStep,
       DummyPassStep, DummyPassDone, SetupDone, FinishOutputStep,
       ReadCoefficientsStep, FinishDecompressStep, InSetup
  <2>2. OutputPass
    BY <2>1 DEF IInv, CallPhase, OutputPass
  <2>3. /\ output_iMCU_row = Rows
        /\ input_scan_number \in Nat /\ shown[r] \in Nat
    BY <2>2, Typed, Counters DEF IInv, PassPhase, OutputTyped
  <2>4. shown[r] >= output_scan_number /\ shown[r] <= input_scan_number
    BY <2>2, <2>3 DEF IInv, RowsShown, Row
  <2> QED BY <2>3, <2>4
<1> QED BY <1>1, Inductive, PTL DEF FinalPassInSync, Spec

\* jpeg_finish_decompress resets the object only when the datastream was read
\* to its EOI (jdapimin.c:382).
THEOREM ReadToTheEnd == Spec => TrailerRead
<1> DEFINE A == call = "jpeg_finish_decompress" /\ global_state' = "START" /\ error = "none"
                  => eoi_reached /\ pos = Len(stream.items)
<1>1. IInv /\ [Next]_vars => [A]_vars
  <2> SUFFICES ASSUME IInv, Next, call = "jpeg_finish_decompress",
                      global_state' = "START", error = "none"
               PROVE  eoi_reached /\ pos = Len(stream.items)
    OBVIOUS
  <2>1. eoi_reached => pos = Len(stream.items)
    BY DEF IInv, InputInBounds
  <2>2. global_state = "STOPPING"
    BY DEF IInv, CallPhase
  <2>3. LibraryStep
    BY DEF Next, AppCall, EnterConsumeInput, EnterReadHeader, EnterStartDecompress,
       StartDecompressNotImpl, EnterRead, EnterStartOutput, EnterFinishOutput,
       EnterReadCoefficients, EnterFinishDecompress, ChangeParameters,
       jpeg_new_colormap, Abort, BadCall, Enter, Idle
  <2>4. FinishDecompressStep
    BY <2>2, <2>3 DEF LibraryStep, ConsumeInputStep, ReadHeaderStep, StartBufferedImage,
       PreloadStep, PreloadDone, ReadStep, DummyPassStep, DummyPassDone, SetupDone,
       FinishOutputStep, ReadCoefficientsStep, InSetup
  <2>5. ~TrailerWanted
    BY <2>2, <2>4 DEF FinishDecompressStep
  <2> QED BY <2>1, <2>5 DEF TrailerWanted
<1> QED BY <1>1, Inductive, PTL DEF TrailerRead, Spec
===============================================================================
