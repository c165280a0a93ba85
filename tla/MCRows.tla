-------------------------------- MODULE MCRows --------------------------------
(***************************************************************************)
(* Rows of samples on their way out of the decoder, through the color      *)
(* quantizers, and into the encoder: images for DecompressRows, sessions   *)
(* for ColorQuantizers and jobs for CompressRows, one at a time.           *)
(***************************************************************************)
EXTENDS DecompressRows, CompressRows, ColorQuantizers

(* Images to decompress, full-size component first.  The IDCT already      *)
(* doubles a component vertically where jdmaster.c lets it, so that the    *)
(* upsampler is left with ratios of 3, with ratios of 2 when an iMCU row   *)
(* has 5 row groups or more, or with nothing to do.                        *)

\* No quantization, no context: a full-size and a 3:1 component, two row groups
\* per iMCU row, heights around one, two and three iMCU rows.
Thru ==
  [M |-> 2, V |-> 3, RowGroup |-> <<3, 1>>, NeedContext |-> FALSE, Merged |-> FALSE,
   WholeImage |-> FALSE, PassKinds |-> {"thru"}, Heights |-> {1, 5, 6, 7, 14},
   MaxLines |-> {1, 2, 4}]

\* Context rows, one-pass and two-pass quantization in any order: heights of one
\* to four iMCU rows, the last one of one row, of some, or complete.
Context ==
  [M |-> 5, V |-> 2, RowGroup |-> <<2, 1>>, NeedContext |-> TRUE, Merged |-> FALSE,
   WholeImage |-> TRUE, PassKinds |-> {"onepass", "twopass"},
   Heights |-> {1, 9, 10, 11, 13, 21, 32}, MaxLines |-> {1, 2, 3}]

\* Merged 2:1 upsampling with its spare row, odd and even heights.
Merged2 ==
  [Context EXCEPT !.NeedContext = FALSE, !.Merged = TRUE, !.Heights = {1, 10, 11, 14}]

\* Merged upsampling of 2h1v: the upsampler relies on its callers for the bottom
\* of the image and for the room.
Merged1 ==
  [Merged2 EXCEPT !.V = 1, !.RowGroup = <<1, 1>>, !.Heights = {1, 5, 6, 9},
                  !.MaxLines = {1, 2}]

AllImages == {Thru, Context, Merged2, Merged1}

\* Strips of four rows and two scanlines per call.
FourRowStrips ==
  {[M |-> 1, V |-> 4, RowGroup |-> <<4, 4>>, NeedContext |-> FALSE, Merged |-> FALSE,
    WholeImage |-> TRUE, PassKinds |-> {"twopass"}, Heights |-> {7}, MaxLines |-> {2}]}

-------------------------------------------------------------------------------
(* Images to compress.  With fancy downsampling the DCT is doubled wherever *)
(* D is at most 8, without it where D is at most 4.                         *)

Comp(h, v, dct) == [h |-> h, v |-> v, dct_h |-> dct, dct_v |-> dct]

\* A ratio of 3, in one scan: heights around one, two and three iMCU rows.
Ratio3 ==
  [D |-> 2, comps |-> <<Comp(1, 3, 2), Comp(1, 1, 2)>>, smoothing |-> FALSE,
   scans |-> << <<1, 2>> >>, optimize |-> FALSE,
   Heights |-> {1, 5, 6, 7, 14}, Widths |-> {1}, MaxLines |-> {1, 2, 4}]

\* Smoothing of a full-size and a 2h2v component, not of a 2h1v one; dummy
\* blocks at the right.
Smoothing ==
  [D |-> 5, comps |-> <<Comp(2, 2, 5), Comp(1, 1, 5), Comp(1, 2, 5)>>, smoothing |-> TRUE,
   scans |-> << <<1, 2, 3>> >>, optimize |-> FALSE,
   Heights |-> {1, 2, 9, 10, 11, 21}, Widths |-> {3}, MaxLines |-> {1, 3}]

\* The same with Huffman optimization and, as in a progressive script, a second
\* scan of one component.
SmoothingTwice ==
  [Smoothing EXCEPT !.scans = << <<1, 2, 3>>, <<2>> >>, !.optimize = TRUE, !.Heights = {11}]

\* Smoothing with one row group in an iMCU row, and scans of one component and
\* of both.
Scans ==
  [D |-> 1, comps |-> <<Comp(2, 2, 1), Comp(1, 1, 2)>>, smoothing |-> TRUE,
   scans |-> << <<1>>, <<2>>, <<1, 2>> >>, optimize |-> FALSE,
   Heights |-> {1, 2, 3, 5, 7}, Widths |-> {1, 3}, MaxLines |-> {1, 3}]

\* One component with sampling factors of 2, in one pass and in two.
Gray(optimize) ==
  [D |-> 1, comps |-> <<Comp(2, 2, 1)>>, smoothing |-> FALSE,
   scans |-> << <<1>> >>, optimize |-> optimize,
   Heights |-> {1, 2, 3, 5, 7}, Widths |-> {1, 3}, MaxLines |-> {1, 3}]

NoJobs == {}
AllJobs == {Ratio3, Smoothing, SmoothingTwice, Scans} \cup {Gray(o) : o \in BOOLEAN}

-------------------------------------------------------------------------------
(* Pictures of few pixels to quantize.  They tell the colors apart that the *)
(* quantizers do: 25 cells are enough for every way to choose and to split  *)
(* a box, two rows for the errors of a row above, two passes for a table    *)
(* that is stale after one.                                                 *)

Shade(v, w, h) == [y \in 1 .. h |-> [x \in 1 .. w |-> <<v>>]]

\* A picture of three components whose samples are spread over all values.
Spread(w, h, a, b, c) ==
  [y \in 1 .. h |-> [x \in 1 .. w |->
     LET k == (y - 1) * w + x IN <<(k * a) % 256, (k * b + 90) % 256, (k * c + 200) % 256>>]]

Usual == [components |-> 3, desired |-> 8, two_pass |-> FALSE, buffered |-> TRUE,
          external |-> NULL, enable |-> {}, dither |-> "fs", maps |-> {}, pictures |-> {}]

Shades == [k \in 0 .. 3 |-> <<85 * k, 85 * k, 85 * k>>]
Colors == [k \in 0 .. 11 |-> <<(k * 97) % 256, (k * 53) % 256, (k * 31 + 16) % 256>>]

Vivid == Spread(3, 2, 37, 101, 11)
Dull == Spread(3, 2, 3, 5, 7)

\* Every way to change quantizers.
Change == [Usual EXCEPT !.enable = {"one", "two", "map"}, !.maps = {Shades, Colors},
                        !.pictures = {Vivid, Dull}]

\* One quantizer is not enabled; the session starts with a map of the application.
StartWithMap == [Usual EXCEPT !.external = Shades, !.enable = {"two"}, !.maps = {Colors},
                              !.desired = 12, !.dither = "ordered", !.pictures = {Vivid}]

\* Colors of many distances to many cells.
ManyCells == {[Usual EXCEPT !.buffered = FALSE, !.external = m, !.dither = d,
                            !.pictures = {Spread(9, 4, 53, 17, 92), Spread(8, 4, 31, 7, 2)}] :
                d \in {"none", "fs"}, m \in {Shades, Colors}}

\* No buffered image: pictures with many colors, and with more pixels in a cell
\* than a histcell can count.
ForPicture(desired, p) ==
  [Usual EXCEPT !.two_pass = TRUE, !.buffered = FALSE, !.desired = desired, !.pictures = p]
Crowded ==
  [y \in 1 .. 5 |-> [x \in 1 .. 4 |->
     IF x < 3 THEN <<200, 40, 96>> ELSE IF y = 1 THEN <<200, 40, 104>>
     ELSE <<x * 50, y * 30, (x * y * 80) % 256>>]]
TwoPass == {ForPicture(8, {Crowded}),
            ForPicture(8, {Spread(5, 5, 29, 71, 113), Spread(6, 4, 2, 3, 5)}),
            ForPicture(10, {Spread(6, 4, 2, 3, 5), Spread(5, 5, 83, 19, 200)}),
            [ForPicture(8, {Spread(5, 5, 29, 71, 113)}) EXCEPT !.dither = "none"]}

\* The grid, with 2 to 16 levels and all ways of dithering; 17 rows and columns of
\* one shade; four components, with room for one more level of the first.
Grids == {[Usual EXCEPT !.components = 1, !.buffered = FALSE, !.desired = n, !.dither = d,
                       !.pictures = {Shade(v, 17, 17) : v \in {0, 1, 77, 128, 255}}] :
           n \in {2, 5, 16}, d \in {"none", "ordered", "fs"}}
        \cup {[Usual EXCEPT !.desired = n, !.buffered = FALSE, !.dither = d, !.pictures = {Vivid}] :
           n \in {16, 17, 40, 256}, d \in {"none", "ordered"}}
Four == [Usual EXCEPT !.components = 4, !.desired = 24, !.two_pass = TRUE, !.external = Shades,
           !.enable = {"two"}, !.maps = {Shades},
           !.pictures = {[y \in 1 .. 2 |-> [x \in 1 .. 3 |-> <<x * 70, y * 99, 255 - x, 31 * x + y>>]]}]

\* Too few colors, or too many, for each quantizer; too many components.
Bad == {[Usual EXCEPT !.desired = n, !.two_pass = t, !.pictures = {Vivid}] :
          n \in {7, 257}, t \in BOOLEAN}
       \cup {[Four EXCEPT !.desired = 15], [Four EXCEPT !.components = 5]}

AllSessions == {Change, StartWithMap, Four} \cup ManyCells \cup TwoPass \cup Grids \cup Bad

\* Ordered dither for the first passes, a better quantizer for the last.
OrderedFirst == {[Change EXCEPT !.enable = {"two"}, !.dither = "ordered"]}

-------------------------------------------------------------------------------
\* A decoder alone; an encoder or a quantizer next to a decoder that does
\* nothing, which leaves its place to the decoder when it is done.
RowsInit ==
  /\ Init
  /\ \/ NothingToCompress /\ NothingToQuantize
     \/ /\ image = CHOOSE im \in Images : TRUE
        /\ output_height = CHOOSE h \in image.Heights : TRUE
        /\ \/ CompressInit /\ NothingToQuantize
           \/ NothingToCompress /\ QuantizersInit

RowsNext ==
  \/ step = "none" /\ phase = "none" /\ Next /\ UNCHANGED <<cvars, qvars>>
  \/ CompressNext /\ UNCHANGED <<vars, qvars>>
  \/ QuantizersNext /\ UNCHANGED <<vars, cvars>>

RowsSpec == RowsInit /\ [][RowsNext]_<<vars, cvars, qvars>>
===============================================================================
