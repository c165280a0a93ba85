--------------------------- MODULE CompressControl ----------------------------
(***************************************************************************)
(* The life of one compression object: the entry points of jcapimin.c,     *)
(* jcapistd.c and jctrans.c with their CSTATE_xxx state machine, the       *)
(* parameter processing and pass sequencing of jcmaster.c, and the marker  *)
(* writer (jcmarker.c) with what it leaves out because it was sent before. *)
(*                                                                         *)
(* Each image writes one datastream.  The history variable out is what the *)
(* stream says, and reader is what a decoder knows that has read all that  *)
(* was written: an interchange stream is read by a decoder that knows      *)
(* nothing yet, an abbreviated one by a decoder that read the earlier ones *)
(* and was given the tables the application suppressed.                    *)
(*                                                                         *)
(* Input is counted in scanlines, output in iMCU rows.  A destination may  *)
(* suspend before any iMCU row while the application writes scanlines, and *)
(* is an error in every other place.  Tables are known by their contents:  *)
(* a quality, "standard", or the image and scan they were optimized for.   *)
(***************************************************************************)
EXTENDS ScanScript

CONSTANTS
  Settings,     \* parameter sets the application uses, see SettingsAssumption
  Images,       \* image sizes, records of width and height
  LineCounts,   \* numbers of scanlines it passes in a call
  MaxImages     \* bound on the number of images begun

Component == [h : 1 .. 4, v : 1 .. 4, q : 0 .. 1, t : 0 .. 1]
ScaleFactor == Nat \ {0}

MAX_INTERVAL == 65535   \* an interval of restarts has 16 bits in the file

ASSUME SettingsAssumption ==
  /\ Settings \subseteq
       [components : Seq(Component) \ {<<>>}, quality : Nat,
        block_size : 1 .. 2 * DCTSIZE,
        scale_num : ScaleFactor, scale_denom : ScaleFactor, scan_info : Seq(Scan),
        arith_code : BOOLEAN, optimize_coding : BOOLEAN, raw_data_in : BOOLEAN,
        restart_interval : 0 .. MAX_INTERVAL, restart_in_rows : Nat]
  /\ \A s \in Settings :
       s.scan_info = <<>> => Len(s.components) <= MAX_COMPS_IN_SCAN
  /\ Images \subseteq [width : Nat \ {0}, height : Nat \ {0}]
  /\ LineCounts \subseteq Nat \ {0}
  /\ MaxImages \in Nat

VARIABLES
  global_state,   \* CSTATE_xxx without the prefix
  call,           \* "finish" while jpeg_finish_compress runs its passes
  error,          \* the ERREXIT that ended the last call, or "none"
  cinfo,          \* the parameters and what was made of them; given, a history
                  \* field, is the scan script as the application set it
  next_scanline,
  master,         \* my_comp_master
  scan,           \* comps_in_scan, Ss, Se, Ah, Al of the scan in work
  entropy,        \* how the entropy encoder was started
  coef,           \* coefficient controller: buffer, iMCU rows done and stored
  tbl, sent,      \* the tables of the object, and those with sent_table set
  last_restart_interval,
  images, out, reader

vars == <<global_state, call, error, cinfo, next_scanline, master, scan,
          entropy, coef, tbl, sent, last_restart_interval, images, out, reader>>

-------------------------------------------------------------------------------
(* Derived values *)

\* Quantization tables, and the Huffman tables for DC and AC coefficients.
Tables == {"q", "dc", "ac"} \X (0 .. 1)
Undefined == <<"undefined">>

CeilDiv(a, b) == (a + b - 1) \div b
Components(c) == DOMAIN c.components
max_h_samp_factor(c) == Max({c.components[i].h : i \in Components(c)})
max_v_samp_factor(c) == Max({c.components[i].v : i \in Components(c)})

\* jpeg_calc_jpeg_dimensions: the smallest DCT that reaches the wanted scale.
min_DCT_scaled_size(c) ==
  Min({d \in 1 .. 2 * DCTSIZE : c.scale_num * d >= c.scale_denom * c.block_size}
      \cup {2 * DCTSIZE})
jpeg_width(c) == CeilDiv(c.image.width * c.block_size, min_DCT_scaled_size(c))
jpeg_height(c) == CeilDiv(c.image.height * c.block_size, min_DCT_scaled_size(c))

total_iMCU_rows(c) ==
  CeilDiv(jpeg_height(c), max_v_samp_factor(c) * c.block_size)
width_in_blocks(c, i) ==
  CeilDiv(jpeg_width(c) * c.components[i].h, max_h_samp_factor(c) * c.block_size)
LimSe(block_size) ==
  IF block_size < DCTSIZE THEN block_size * block_size - 1 ELSE DCTSIZE2 - 1

ScriptRefused(c) ==
  c.scan_info # <<>> /\ ~validate_script(c.scan_info, Len(c.components))

\* What jinit_c_master_control makes of legal parameters.
MasterControl(c) ==
  LET progressive == c.scan_info # <<>> /\ Progressive(c.scan_info)
      small       == c.block_size < DCTSIZE
  IN  [c EXCEPT
         !.progressive_mode = progressive,
         !.scan_info = IF small THEN reduce_script(@, LimSe(c.block_size)) ELSE @,
         !.optimize_coding = @ \/ ((progressive \/ small) /\ ~c.arith_code)]

num_scans(c) == IF c.scan_info = <<>> THEN 1 ELSE Len(c.scan_info)
total_passes(c) == IF c.optimize_coding THEN num_scans(c) * 2 ELSE num_scans(c)

\* Seeded fault: optimization of a single scan reads no coefficients again.
need_full_buffer_multiscan(c) == num_scans(c) > 1

\* What jinit_compress_master asks the coefficient controller for.
need_full_buffer(c) == num_scans(c) > 1 \/ c.optimize_coding

select_scan_parameters(c, number) ==
  IF c.progressive_mode THEN c.scan_info[number + 1]
  ELSE [comps |-> IF c.scan_info = <<>> THEN [i \in Components(c) |-> i]
                  ELSE c.scan_info[number + 1].comps,
        Ss |-> 0, Se |-> c.block_size * c.block_size - 1, Ah |-> 0, Al |-> 0]

MCUs_per_row(c, s) ==
  IF Len(s.comps) = 1 THEN width_in_blocks(c, s.comps[1])
  ELSE CeilDiv(jpeg_width(c), max_h_samp_factor(c) * c.block_size)

\* Restarts given in rows become MCUs.
per_scan_setup(c, s) ==
  IF c.restart_in_rows = 0 THEN c
  ELSE [c EXCEPT !.restart_interval =
          Minimum(c.restart_in_rows * MCUs_per_row(c, s), MAX_INTERVAL)]

\* The tables that a frame header and a scan header define, in their order.
QuantTables(c) == [i \in Components(c) |-> <<"q", c.components[i].q>>]
HuffTables(c, s) ==
  LET kinds == (IF s.Ss = 0 /\ s.Ah = 0 THEN <<"dc">> ELSE <<>>)
               \o (IF s.Se # 0 THEN <<"ac">> ELSE <<>>)
      n     == Len(kinds)
  IN  IF c.arith_code THEN <<>>
      ELSE [k \in 1 .. n * Len(s.comps) |->
              <<kinds[((k - 1) % n) + 1], c.components[s.comps[((k - 1) \div n) + 1]].t>>]

\* The entropy encoder counts symbols, or takes the codes from the tables as
\* they are at the start of the pass.
start_pass(c, s, gather_statistics) ==
  [gather |-> gather_statistics, interval |-> c.restart_interval,
   codes |-> IF gather_statistics THEN <<>>
             ELSE [t \in Range(HuffTables(c, s)) |-> tbl[t]]]

\* Full(c, k): the lines that iMCU rows 0 .. k need.  RowsIn(c, r): the iMCU
\* rows in r lines; the preprocessor fills up the one at the bottom.
LinesPerRow(c) == max_v_samp_factor(c) * min_DCT_scaled_size(c)
Full(c, k) == Minimum((k + 1) * LinesPerRow(c), c.image.height)
RowsIn(c, r) ==
  IF r = c.image.height THEN total_iMCU_rows(c) ELSE r \div LinesPerRow(c)

\* finish_pass_master: what the next pass is.
NextPass(m, c) ==
  [m EXCEPT
     !.pass_type = IF @ = "output" /\ c.optimize_coding THEN "huff_opt" ELSE "output",
     !.scan_number = IF \/ m.pass_type = "output"
                        \/ m.pass_type = "main" /\ ~c.optimize_coding
                     THEN @ + 1 ELSE @,
     !.pass_number = @ + 1]

\* The last lines of prepare_for_pass.
Prepared(m, c, startup) ==
  [m EXCEPT !.call_pass_startup = startup,
            !.is_last_pass = (m.pass_number = total_passes(c) - 1)]

\* The optimization pass of a DC refinement scan is skipped.
Skipped(m) ==
  [m EXCEPT !.pass_type = "output", !.pass_number = @ + 1]

-------------------------------------------------------------------------------
(* Streams and their readers *)

NoFrame == [height |-> 0]
Stream(part) == [part |-> part, frame |-> NoFrame, scans |-> <<>>]
KnowsNothing == [tables |-> [t \in Tables |-> Undefined], interval |-> 0]

\* A scan, with the number of its iMCU rows that follow the header.
WithRows(s, rows) ==
  [comps |-> s.comps, Ss |-> s.Ss, Se |-> s.Se, Ah |-> s.Ah, Al |-> s.Al,
   rows |-> rows]

\* What emit_sof and emit_pseudo_sos put into the stream.
FrameHeader(c) ==
  [height |-> jpeg_height(c), max_v |-> max_v_samp_factor(c),
   progressive |-> c.progressive_mode,
   baseline |-> /\ ~c.arith_code /\ ~c.progressive_mode
                /\ c.block_size = DCTSIZE,
   pseudo_Se |-> IF c.progressive_mode /\ c.block_size # DCTSIZE
                 THEN c.block_size * c.block_size - 1 ELSE -1]

\* emit_dqt, emit_dht: of these tables the ones not sent before go out.
EmitTables(tables) ==
  /\ sent' = sent \cup Range(tables)
  /\ reader' = [reader EXCEPT !.tables =
       [t \in Tables |-> IF t \in Range(tables) \ sent THEN tbl[t] ELSE @[t]]]

HeaderTables(c, s, first) ==
  (IF first THEN QuantTables(c) ELSE <<>>) \o HuffTables(c, s)

DRIRequired(c) == c.restart_interval # last_restart_interval

\* write_frame_header if this is the first scan, and write_scan_header; rows
\* iMCU rows follow before the step is over.
WriteHeaders(c, s, first, rows) ==
  LET new == Range(HeaderTables(c, s, first)) \ sent
  IN  /\ sent' = sent \cup new
      /\ reader' = [tables |-> [t \in Tables |->
                                  IF t \in new THEN tbl[t] ELSE reader.tables[t]],
                    interval |-> IF DRIRequired(c) THEN c.restart_interval
                                 ELSE reader.interval]
      /\ last_restart_interval' = c.restart_interval
      /\ out' = [part |-> "scan",
                 frame |-> IF first THEN FrameHeader(c) ELSE out.frame,
                 scans |-> Append(out.scans, WithRows(s, rows))]

\* The destination gives up after some of the tables.
HeadersFail(c, s, first) ==
  /\ \E k \in 0 .. Len(HeaderTables(c, s, first)) :
       EmitTables(SubSeq(HeaderTables(c, s, first), 1, k))
  /\ error' = "CANT_SUSPEND"
  /\ out' = Stream("broken")
  /\ UNCHANGED last_restart_interval

-------------------------------------------------------------------------------
(* Setting up *)

Ready(state) == error = "none" /\ call = "none" /\ global_state = state

\* jpeg_set_defaults and the application's own settings after it.
Parameters(s, image) ==
  [components |-> s.components, quality |-> s.quality, block_size |-> s.block_size,
   scale_num |-> s.scale_num, scale_denom |-> s.scale_denom,
   scan_info |-> s.scan_info, given |-> s.scan_info, arith_code |-> s.arith_code,
   optimize_coding |-> s.optimize_coding, raw_data_in |-> s.raw_data_in,
   restart_interval |-> s.restart_interval, restart_in_rows |-> s.restart_in_rows,
   image |-> image, progressive_mode |-> FALSE]
DefaultTables(s) ==
  [t \in Tables |-> IF t[1] = "q" THEN <<"quality", s.quality>> ELSE <<"standard">>]

\* The memory of an image is released.
NoImage ==
  /\ master' = [pass_type |-> "none"]
  /\ scan' = <<>>
  /\ entropy' = [gather |-> FALSE, interval |-> 0, codes |-> <<>>]
  /\ coef' = [whole_image |-> FALSE, iMCU_row_num |-> 0]

Init ==
  /\ global_state = "START" /\ call = "none" /\ error = "none"
  /\ \E s \in Settings, i \in Images :
       cinfo = Parameters(s, i) /\ tbl = DefaultTables(s)
  /\ sent = {}
  /\ next_scanline = 0 /\ last_restart_interval = 0
  /\ master = [pass_type |-> "none"]
  /\ scan = <<>>
  /\ entropy = [gather |-> FALSE, interval |-> 0, codes |-> <<>>]
  /\ coef = [whole_image |-> FALSE, iMCU_row_num |-> 0]
  /\ images = 0
  /\ out = Stream("none") /\ reader = KnowsNothing

SetParameters(s) ==
  /\ Ready("START")
  /\ cinfo' = Parameters(s, cinfo.image)
  /\ tbl' = DefaultTables(s)
  /\ sent' = {}
  /\ out' = Stream("none")
  /\ UNCHANGED <<global_state, call, error, next_scanline, master, scan, entropy,
                 coef, last_restart_interval, images, reader>>

\* Suppressed tables the application brings to the reader in some other way.
jpeg_suppress_tables(suppress) ==
  /\ Ready("START") \/ Ready("WRCOEFS")
  /\ sent' = IF suppress THEN Tables ELSE {}
  /\ reader' = IF suppress THEN [reader EXCEPT !.tables = tbl] ELSE reader
  /\ out' = IF out.part = "broken" THEN Stream("none") ELSE out
  /\ UNCHANGED <<global_state, call, error, cinfo, next_scanline, master, scan,
                 entropy, coef, tbl, last_restart_interval, images>>

jpeg_write_tables ==
  /\ Ready("START") /\ out.part # "broken"
  /\ sent' = IF cinfo.arith_code THEN sent \cup {t \in Tables : t[1] = "q"} ELSE Tables
  /\ reader' = [tables |-> [t \in Tables |-> IF t \in sent' \ sent THEN tbl[t]
                                            ELSE reader.tables[t]],
                interval |-> 0]
  /\ last_restart_interval' = 0
  /\ UNCHANGED <<global_state, call, error, cinfo, next_scanline, master, scan,
                 entropy, coef, tbl, images, out>>

\* A file is complete, or continues what its reader knows; SOI ends restarts.
OpenStream(write_all_tables) ==
  /\ sent' = IF write_all_tables THEN {} ELSE sent
  /\ reader' = IF write_all_tables THEN KnowsNothing
               ELSE [reader EXCEPT !.interval = 0]
  /\ last_restart_interval' = 0
  /\ images' = images + 1

\* ERREXIT while the master is set up: there is no image.
Refuse(e, c) ==
  /\ error' = e
  /\ cinfo' = c
  /\ out' = Stream("none")
  /\ UNCHANGED <<global_state, next_scanline, master, scan, entropy, coef>>

jpeg_start_compress(write_all_tables, image) ==
  LET given == [cinfo EXCEPT !.image = image]
      legal == MasterControl(given)
      first == select_scan_parameters(legal, 0)
      c     == per_scan_setup(legal, first)
      m     == [pass_type |-> "main", scan_number |-> 0, pass_number |-> 0,
                call_pass_startup |-> FALSE, is_last_pass |-> FALSE]
  IN  /\ Ready("START") /\ images < MaxImages
      /\ write_all_tables \/ out.part # "broken"
      /\ OpenStream(write_all_tables)
      /\ \/ ScriptRefused(given) /\ Refuse("BAD_SCRIPT", given)
         \/ /\ ~ScriptRefused(given)
            /\ legal.arith_code /\ legal.optimize_coding
            /\ Refuse("NOT_COMPILED", c)
         \/ /\ ~ScriptRefused(given)
            /\ ~(legal.arith_code /\ legal.optimize_coding)
            /\ error' = IF (total_passes(c) > 1) # need_full_buffer(c)
                        THEN "BAD_BUFFER_MODE" ELSE "none"
            /\ cinfo' = c
            /\ scan' = first
            /\ entropy' = start_pass(c, first, c.optimize_coding)
            /\ coef' = [whole_image |-> need_full_buffer(c), iMCU_row_num |-> 0]
            /\ master' = Prepared(m, c, ~c.optimize_coding)
            /\ next_scanline' = 0
            /\ global_state' = IF c.raw_data_in THEN "RAW_OK" ELSE "SCANNING"
            /\ out' = Stream("header")
      /\ UNCHANGED <<call, tbl>>

\* The parameters are the source file's, jpeg_copy_critical_parameters leaves
\* no scaling.
jpeg_write_coefficients(image) ==
  LET given == [cinfo EXCEPT !.image = image]
      c     == MasterControl(given)
  IN  /\ Ready("START") /\ images < MaxImages
      /\ cinfo.scale_num = cinfo.scale_denom
      /\ OpenStream(TRUE)
      /\ \/ ScriptRefused(given) /\ Refuse("BAD_SCRIPT", given)
         \/ /\ ~ScriptRefused(given)
            /\ cinfo' = c
            /\ master' = [pass_type |-> IF c.optimize_coding THEN "huff_opt"
                                        ELSE "output",
                          scan_number |-> 0, pass_number |-> 0,
                          call_pass_startup |-> FALSE, is_last_pass |-> FALSE]
            /\ coef' = [whole_image |-> TRUE, iMCU_row_num |-> 0]
            /\ next_scanline' = 0
            /\ global_state' = "WRCOEFS"
            /\ out' = Stream("header")
            /\ UNCHANGED <<error, scan, entropy>>
      /\ UNCHANGED <<call, tbl>>

-------------------------------------------------------------------------------
(* The main pass *)

\* iMCU rows of the scan in work go out, unless they are only counted.  The
\* first call that writes data begins with the headers.
Compress(rows) ==
  /\ coef' = [coef EXCEPT !.iMCU_row_num = rows]
  /\ master' = [master EXCEPT !.call_pass_startup = FALSE]
  /\ IF master.call_pass_startup THEN WriteHeaders(cinfo, scan, TRUE, rows)
     ELSE /\ out' = IF entropy.gather THEN out
                    ELSE [out EXCEPT !.scans[1].rows = rows]
          /\ UNCHANGED <<sent, reader, last_restart_interval>>

\* pass_startup cannot be suspended.
StartupFails ==
  /\ Ready("SCANNING") \/ Ready("RAW_OK")
  /\ next_scanline < cinfo.image.height
  /\ master.call_pass_startup
  /\ master' = [master EXCEPT !.call_pass_startup = FALSE]
  /\ HeadersFail(cinfo, scan, TRUE)
  /\ UNCHANGED <<global_state, call, cinfo, next_scanline, scan, entropy, coef,
                 tbl, images>>

LinesTaken(num_lines) == Minimum(next_scanline + num_lines, cinfo.image.height)

\* Seeded fault: no suspension hack.
NextLineTaken(lines, full, rows) ==
  IF rows < full THEN Full(cinfo, rows) ELSE lines

\* Where the application is to go on if, of the full iMCU rows in the lines
\* taken, the destination had room for rows: at the line that completed the
\* next one, as if it had not been taken.
NextLine(lines, full, rows) ==
  IF rows < full THEN Full(cinfo, rows) - 1 ELSE lines

jpeg_write_scanlines(num_lines) ==
  LET lines == LinesTaken(num_lines)
      full  == RowsIn(cinfo, lines)
  IN  /\ Ready("SCANNING") /\ next_scanline < cinfo.image.height
      /\ \E rows \in coef.iMCU_row_num .. full :
           /\ entropy.gather => rows = full
           /\ Compress(rows)
           /\ next_scanline' = NextLine(lines, full, rows)
      /\ UNCHANGED <<global_state, call, error, cinfo, scan, entropy, tbl, images>>

lines_per_iMCU_row == max_v_samp_factor(cinfo) * DCTSIZE

\* One iMCU row: of more lines the rest is left, fewer are an error, which the
\* code finds only after pass_startup.
jpeg_write_raw_data(num_lines) ==
  LET enough == num_lines >= lines_per_iMCU_row
  IN  /\ Ready("RAW_OK") /\ next_scanline < cinfo.image.height
      /\ \E done \in 0 .. 1 :
           /\ IF enough THEN entropy.gather => done = 1 ELSE done = 0
           /\ Compress(coef.iMCU_row_num + done)
           /\ error' = IF ~enough THEN "BUFFER_SIZE"
                       ELSE IF coef.whole_image /\ coef.iMCU_row_num = total_iMCU_rows(cinfo)
                            THEN "BAD_VIRTUAL_ACCESS" ELSE "none"
           /\ next_scanline' = next_scanline + done * lines_per_iMCU_row
      /\ UNCHANGED <<global_state, call, cinfo, scan, entropy, tbl, images>>

-------------------------------------------------------------------------------
(* jpeg_finish_compress *)

\* Seeded fault: a table that was sent stays so when it is computed again.
OptimalTablesSent(c, s) ==
  LET new == Range(HuffTables(c, s))
  IN  /\ tbl' = [t \in Tables |-> IF t \in new
                                  THEN <<"optimal", images, master.scan_number>>
                                  ELSE tbl[t]]
      /\ UNCHANGED sent

\* finish_pass_gather: tables that fit the symbols counted.
OptimalTables(c, s) ==
  LET new == Range(HuffTables(c, s))
  IN  /\ tbl' = [t \in Tables |-> IF t \in new
                                  THEN <<"optimal", images, master.scan_number>>
                                  ELSE tbl[t]]
      /\ sent' = sent \ new

FinishCompress ==
  /\ \/ /\ Ready("SCANNING") \/ Ready("RAW_OK")
        /\ next_scanline < cinfo.image.height
        /\ error' = "TOO_LITTLE_DATA"
        /\ UNCHANGED <<call, master, tbl, sent>>
     \/ /\ Ready("SCANNING") \/ Ready("RAW_OK")
        /\ next_scanline >= cinfo.image.height
        /\ IF entropy.gather THEN OptimalTables(cinfo, scan) ELSE UNCHANGED <<tbl, sent>>
        /\ master' = NextPass(master, cinfo)
        /\ call' = "finish"
        /\ UNCHANGED error
     \/ /\ Ready("WRCOEFS")
        /\ call' = "finish"
        /\ UNCHANGED <<error, master, tbl, sent>>
  /\ UNCHANGED <<global_state, cinfo, next_scanline, scan, entropy, coef,
                 last_restart_interval, images, out, reader>>

PassDue == error = "none" /\ call = "finish" /\ ~master.is_last_pass

\* A refined DC coefficient is one bit: there is no code to optimize.
DCRefinement(s) == s.Ss = 0 /\ s.Ah # 0

OptimizePass ==
  /\ PassDue /\ master.pass_type = "huff_opt"
  /\ LET s == select_scan_parameters(cinfo, master.scan_number)
         c == per_scan_setup(cinfo, s)
     IN  /\ ~DCRefinement(s)
         /\ cinfo' = c
         /\ scan' = s
         /\ \/ /\ c.arith_code
               /\ error' = "NOT_COMPILED"
               /\ UNCHANGED <<entropy, coef, tbl, sent, master>>
            \/ /\ ~c.arith_code
               /\ entropy' = start_pass(c, s, TRUE)
               /\ coef' = [coef EXCEPT !.iMCU_row_num = total_iMCU_rows(c)]
               /\ OptimalTables(c, s)
               /\ master' = NextPass(Prepared(master, c, FALSE), c)
               /\ UNCHANGED error
  /\ UNCHANGED <<global_state, call, next_scanline, last_restart_interval,
                 images, out, reader>>

\* Seeded fault: a pass that follows no optimization keeps the parameters of the last.
SetupDueSometimes(skip) == ~cinfo.optimize_coding

\* Prior optimization did the per-scan setup.
SetupDue(skip) == skip \/ ~cinfo.optimize_coding

OutputPass ==
  /\ PassDue
  /\ LET skip  == master.pass_type = "huff_opt"
         m     == IF skip THEN Skipped(master) ELSE master
         next  == select_scan_parameters(cinfo, m.scan_number)
         s     == IF SetupDue(skip) THEN next ELSE scan
         c     == IF SetupDue(skip) THEN per_scan_setup(cinfo, s) ELSE cinfo
         first == m.scan_number = 0
     IN  /\ skip => DCRefinement(next)
         /\ cinfo' = c
         /\ scan' = s
         /\ entropy' = start_pass(c, s, FALSE)
         /\ coef' = [coef EXCEPT !.iMCU_row_num = total_iMCU_rows(c)]
         /\ \/ /\ HeadersFail(c, s, first)
               /\ master' = m
            \/ /\ coef.whole_image
               /\ WriteHeaders(c, s, first, total_iMCU_rows(c))
               /\ master' = NextPass(Prepared(m, c, FALSE), c)
               /\ UNCHANGED error
  /\ UNCHANGED <<global_state, call, next_scanline, tbl, images>>

WriteTrailer ==
  /\ error = "none" /\ call = "finish" /\ master.is_last_pass
  /\ call' = "none"
  /\ global_state' = "START"
  /\ out' = [out EXCEPT !.part = "done"]
  /\ NoImage
  /\ UNCHANGED <<error, cinfo, next_scanline, tbl, sent, last_restart_interval,
                 images, reader>>

-------------------------------------------------------------------------------
(* Giving up *)

\* An error is the end of a call; the application may also change its mind.
jpeg_abort_compress ==
  /\ error # "none" \/ (call = "none" /\ global_state # "START")
  /\ global_state' = "START" /\ call' = "none" /\ error' = "none"
  /\ out' = IF global_state = "START" THEN out ELSE Stream("broken")
  /\ NoImage
  /\ UNCHANGED <<cinfo, next_scanline, tbl, sent, last_restart_interval, images,
                 reader>>

\* Every entry point refuses some state, and does nothing else.
BadCall ==
  /\ error = "none" /\ call = "none"
  /\ error' = "BAD_STATE"
  /\ UNCHANGED <<global_state, call, cinfo, next_scanline, master, scan, entropy,
                 coef, tbl, sent, last_restart_interval, images, out, reader>>

Next ==
  \/ \E s \in Settings : SetParameters(s)
  \/ \E b \in BOOLEAN : jpeg_suppress_tables(b)
  \/ jpeg_write_tables
  \/ \E b \in BOOLEAN, i \in Images : jpeg_start_compress(b, i)
  \/ \E i \in Images : jpeg_write_coefficients(i)
  \/ StartupFails
  \/ \E n \in LineCounts : jpeg_write_scanlines(n)
  \/ \E n \in LineCounts \cup {lines_per_iMCU_row} : jpeg_write_raw_data(n)
  \/ FinishCompress
  \/ OptimizePass
  \/ OutputPass
  \/ WriteTrailer
  \/ jpeg_abort_compress
  \/ BadCall

Spec == Init /\ [][Next]_vars

-------------------------------------------------------------------------------
(* Correctness *)

\* What a decoder makes of the frame header and the first scan header
\* (initial_setup in jdinput.c).
BlockSizeRead ==
  IF out.frame.baseline \/ (out.frame.progressive /\ out.frame.pseudo_Se = -1)
  THEN DCTSIZE
  ELSE LET Se == IF out.frame.progressive THEN out.frame.pseudo_Se
                 ELSE out.scans[1].Se
       IN  CHOOSE b \in 1 .. 2 * DCTSIZE : b * b - 1 = Se
RowsRead == CeilDiv(out.frame.height, out.frame.max_v * BlockSizeRead)

\* The state is of the kinds declared; no more lines of an image are taken than
\* it has, and an interval of restarts fits its marker (jpeg_write_scanlines,
\* per_scan_setup).
TypeOK ==
  /\ global_state \in {"START", "SCANNING", "RAW_OK", "WRCOEFS"}
  /\ call \in {"none", "finish"}
  /\ error \in {"none", "BAD_STATE", "BAD_SCRIPT", "NOT_COMPILED", "BAD_BUFFER_MODE",
                "BAD_VIRTUAL_ACCESS", "BUFFER_SIZE", "CANT_SUSPEND", "TOO_LITTLE_DATA"}
  /\ cinfo.restart_interval \in 0 .. MAX_INTERVAL
  /\ next_scanline \in Nat
  /\ global_state = "SCANNING" => next_scanline <= cinfo.image.height
  /\ sent \subseteq Tables
  /\ images \in 0 .. MaxImages
  /\ out.part \in {"none", "header", "scan", "done", "broken"}

\* While scan data are written, the reader of the stream holds the tables they
\* are coded with: the ones sent before and left out, those redefined for each
\* scan by optimization, and the codes taken long before the header is written
\* (sent_table in jcmarker.c, jpeg_suppress_tables, finish_pass_gather).
ScanDecodable ==
  (out.part = "scan" /\ error = "none" /\ ~entropy.gather) =>
    /\ \A t \in DOMAIN entropy.codes : reader.tables[t] = entropy.codes[t]
    /\ \A t \in Range(QuantTables(cinfo)) : reader.tables[t] = tbl[t]

\* While scan data are written, the reader expects restart markers exactly as
\* often as the entropy encoder puts them, whatever was in force in the scan or
\* the image before (write_scan_header, per_scan_setup).
RestartAgreed ==
  (out.part = "scan" /\ error = "none" /\ ~entropy.gather) =>
    reader.interval = entropy.interval

\* A decoder derives the block size the image was coded with, and accepts every
\* scan of a progressive image without an error or a warning, also of a script
\* that was shortened (validate_script, reduce_script, emit_pseudo_sos).
ScansUnderstood ==
  out.part \in {"scan", "done"} =>
    /\ BlockSizeRead = cinfo.block_size
    /\ out.frame.progressive =>
         \A i \in DOMAIN out.scans :
           DecoderAccepts(out.scans, i, LimSe(BlockSizeRead))

\* A file that is complete has the scans of the script in order, each as long as
\* a decoder expects: no pass is left out, repeated or cut short, whichever
\* passes collected statistics (finish_pass_master, prepare_for_pass).
ImageComplete ==
  out.part = "done" =>
    /\ Len(out.scans) = num_scans(cinfo)
    /\ \A i \in DOMAIN out.scans :
         out.scans[i] = WithRows(select_scan_parameters(cinfo, i - 1), RowsRead)

\* When the application has passed all lines and may finish, every iMCU row has
\* been through the coefficient controller, although a destination refused some
\* of them (the suspension hack of process_data_simple_main).
DoneMeansCompressed ==
  (Ready("SCANNING") \/ Ready("RAW_OK")) /\ next_scanline >= cinfo.image.height
    => coef.iMCU_row_num = total_iMCU_rows(cinfo)

\* The buffer chosen when the image starts suits every pass, and no pass reads
\* beyond it (jinit_compress_master, start_pass_coef).
NoInternalError == error \notin {"BAD_BUFFER_MODE", "BAD_VIRTUAL_ACCESS"}

\* A script that is legal as the application set it is never refused, neither
\* for its first image nor for later ones with the same parameters.
LegalScriptAccepted ==
  error = "BAD_SCRIPT" =>
    ~validate_script(cinfo.given, Len(cinfo.components))

\* No more is taken than the image has, and the buffers suit the passes (TypeOK
\* and NoInternalError above).
StaysConsistent == TypeOK /\ NoInternalError

\* A reader of the stream works with the tables, the restart interval and the block
\* size of the encoder, and accepts every scan (write_frame_header and
\* write_scan_header).
ReaderInStep == ScanDecodable /\ RestartAgreed /\ ScansUnderstood
===============================================================================
