--------------------------- MODULE MCDecompressCoef ---------------------------
(***************************************************************************)
(* Datastreams for DecompressCoef: small images whose components have      *)
(* dummy blocks at the right or at the bottom, or none.                    *)
(***************************************************************************)
EXTENDS DecompressCoef

\* One interleaved scan of a 2x2 and a 1x1 component, 5 by 3 and 3 by 2 blocks.
Interleaved22 ==
  [image_width |-> 9, image_height |-> 5, block_size |-> 2,
   h |-> <<2, 1>>, v |-> <<2, 1>>, quant_tbl_no |-> <<0, 1>>, needed |-> {1, 2},
   progressive_mode |-> FALSE, buffered_image |-> FALSE,
   scans |-> <<[comps |-> <<1, 2>>, part |-> "all", Al |-> 0]>>]

\* The same, read through a coefficient buffer, and for gray output.
Buffered22 == [Interleaved22 EXCEPT !.buffered_image = TRUE, !.needed = {1}]

\* A gray image whose only component has sampling factors of 2: two MCU rows in
\* an iMCU row, but one in the last.
Gray22 ==
  [Interleaved22 EXCEPT !.h = <<2>>, !.v = <<2>>, !.quant_tbl_no = <<0>>, !.needed = {1},
                        !.image_width = 3, !.scans = <<[comps |-> <<1>>, part |-> "all", Al |-> 0]>>]

\* Two noninterleaved scans whose components share a slot, read to the end or in
\* buffered-image mode.
TwoScans ==
  [image_width |-> 3, image_height |-> 5, block_size |-> 2,
   h |-> <<1, 1>>, v |-> <<2, 1>>, quant_tbl_no |-> <<0, 0>>, needed |-> {1, 2},
   progressive_mode |-> FALSE, buffered_image |-> FALSE,
   scans |-> <<[comps |-> <<1>>, part |-> "all", Al |-> 0],
               [comps |-> <<2>>, part |-> "all", Al |-> 0]>>]
TwoScansBuffered == [TwoScans EXCEPT !.buffered_image = TRUE]

\* A progressive file: DC of both components, AC of the first in two steps.
Progressive ==
  [TwoScans EXCEPT !.progressive_mode = TRUE, !.buffered_image = TRUE,
                   !.quant_tbl_no = <<0, 1>>,
                   !.scans = <<[comps |-> <<1, 2>>, part |-> "DC", Al |-> 0],
                               [comps |-> <<1>>, part |-> "AC", Al |-> 1],
                               [comps |-> <<1>>, part |-> "AC", Al |-> 0]>>]

\* A scan too many for an image that is complete after the first.
OneTooMany ==
  [Gray22 EXCEPT !.scans = @ \o @]

AllImages == {Interleaved22, Buffered22, Gray22, TwoScans, TwoScansBuffered, Progressive, OneTooMany}
NonInterleaved == {TwoScansBuffered}
===============================================================================
