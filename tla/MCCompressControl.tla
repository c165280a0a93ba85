-------------------------- MODULE MCCompressControl ---------------------------
(***************************************************************************)
(* Small images for CompressControl: blocks of 3 x 3 instead of 8 x 8.     *)
(***************************************************************************)
EXTENDS CompressControl

Gray == <<[h |-> 1, v |-> 1, q |-> 0, t |-> 0]>>
\* Two components at different sampling and with different tables.
Two == <<[h |-> 2, v |-> 2, q |-> 0, t |-> 0], [h |-> 1, v |-> 1, q |-> 1, t |-> 1]>>
Shared == <<[h |-> 1, v |-> 1, q |-> 0, t |-> 0], [h |-> 1, v |-> 1, q |-> 1, t |-> 0]>>

Plain ==
  [components |-> Two, quality |-> 1, block_size |-> 3,
   scale_num |-> 1, scale_denom |-> 1, scan_info |-> <<>>,
   arith_code |-> FALSE, optimize_coding |-> FALSE, raw_data_in |-> FALSE,
   restart_interval |-> 0, restart_in_rows |-> 0]

Sequential(comps) ==
  [comps |-> comps, Ss |-> 0, Se |-> DCTSIZE2 - 1, Ah |-> 0, Al |-> 0]
OneByOne == <<Sequential(<<1>>), Sequential(<<2>>)>>

\* A DC scan is refined without ever having been sent.
Illegal == <<[comps |-> <<1>>, Ss |-> 0, Se |-> 0, Ah |-> 1, Al |-> 0]>>

Usual ==
  {Plain,
   [Plain EXCEPT !.components = Gray, !.quality = 2, !.raw_data_in = TRUE,
                 !.restart_interval = 2],
   [Plain EXCEPT !.components = Shared, !.scan_info = OneByOne,
                 !.optimize_coding = TRUE],
   [Plain EXCEPT !.scan_info = OneByOne, !.restart_in_rows = 1],
   [Plain EXCEPT !.scan_info = jpeg_simple_progression(2, FALSE),
                 !.restart_in_rows = 1],
   [Plain EXCEPT !.scan_info = jpeg_simple_progression(2, FALSE),
                 !.block_size = 2],
   [Plain EXCEPT !.components = Gray, !.block_size = 4,
                 !.scan_info = jpeg_simple_progression(1, FALSE)],
   [Plain EXCEPT !.components = Gray, !.scale_num = 2, !.block_size = 2],
   [Plain EXCEPT !.arith_code = TRUE, !.scan_info = OneByOne],
   [Plain EXCEPT !.arith_code = TRUE, !.optimize_coding = TRUE],
   [Plain EXCEPT !.scan_info = Illegal]}

\* One sequential scan per component, in small blocks.
SmallMultiScan == {[Plain EXCEPT !.scan_info = OneByOne, !.block_size = 2]}

\* Raw data of an image that is twice as large in the file.
ScaledRaw ==
  {[Plain EXCEPT !.components = Gray, !.raw_data_in = TRUE, !.block_size = 2,
                 !.scale_num = 2]}

Refuting == SmallMultiScan \cup ScaledRaw

Sizes == {[width |-> 7, height |-> 7]}
===============================================================================
