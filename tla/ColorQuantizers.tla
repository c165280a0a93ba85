--------------------------- MODULE ColorQuantizers ---------------------------
(***************************************************************************)
(* The two color quantizers of the decoder, jquant1.c (a fixed grid of     *)
(* colors, in one pass) and jquant2.c (colors chosen for the picture in a  *)
(* prescan, or supplied by the application), and what jdmaster.c and the   *)
(* application do between output passes to choose among them.              *)
(*                                                                         *)
(* In buffered-image mode one image has many output passes, each of a      *)
(* better picture, and the application may change the quantizer and the    *)
(* dithering before each and abandon any of them.  Three tables live from  *)
(* pass to pass and must not be believed when they are stale: the padded   *)
(* index tables of jquant1.c, the errors carried from row to row, and the  *)
(* histogram of jquant2.c, which the second pass uses as a cache of the    *)
(* nearest colors.                                                         *)
(*                                                                         *)
(* Rows are quantized one at a time: a call for several rows does the same *)
(* for each.  The order of color components is R, G, B.                    *)
(***************************************************************************)
EXTENDS Integers, Sequences, SequencesExt, FiniteSetsExt, Functions

CONSTANTS
  Sessions,   \* what is decompressed, see MasterSelection
  HistMax,    \* the largest value of a histcell, 65535 in the source
  MaxPasses   \* bound on the output passes of a session

VARIABLES
  session,    \* parameters of the image, never changed
  cinfo,      \* [colormap, two_pass_quantize, dither_mode, cquantize, enabled]
  onepass,    \* jquant1.c: [Ncolors, is_padded, row_index, on_odd_row, fserrors]
  twopass,    \* jquant2.c: [histogram, needs_zeroed, on_odd_row, fserrors]
  phase,      \* "none", "between" passes, "prescan", "rows", or "error"
  picture,    \* what the decoder delivers in this pass: rows of pixels
  boxlist,    \* of select_colors
  passes_done, rows_done,
  \* History of the pass:
  asked,      \* what was last asked for: [kind: "one", "two" or "map", map]
  counted,    \* the picture whose colors were counted last
  codes,      \* the rows of color map indexes
  misses      \* the rows of representation errors

qvars == <<session, cinfo, onepass, twopass, phase, picture, boxlist, passes_done,
           rows_done, asked, counted, codes, misses>>

MAXJSAMPLE == 255
MAX_Q_COMPS == 4
MAXNUMCOLORS == MAXJSAMPLE + 1
NULL == <<>>

out_color_components == session.components
CI == 1 .. out_color_components

\* The tuple of f(1) .. f(n).
Tuple(n, f(_)) == FoldLeft(LAMBDA t, i : Append(t, f(i)), <<>>, [i \in 1 .. n |-> i])
Pixel(f(_)) == Tuple(out_color_components, f)

output_width == Len(picture[1])

range_limit(v) == Max({0, Min({v, MAXJSAMPLE})})

Product(f, S) == FoldFunctionOnSet(LAMBDA a, b : a * b, 1, f, S)

-----------------------------------------------------------------------------
(* jquant1.c: the grid of colors. *)

\* floor(nc'th root of desired_number_of_colors), or 1.
iroot == Max({r \in 1 .. session.desired : r ^ out_color_components <= session.desired})

\* Green, red, blue; other color spaces are of four components or of one.
GrowthOrder == IF out_color_components = 3 THEN <<2, 1, 3>>
               ELSE [i \in CI |-> i]

\* One time around the loop of increments, up to the first that does not fit.
GrownOnce(n) ==
  LET grow(s, j) ==
        LET more == [s.n EXCEPT ![j] = @ + 1]
        IN IF s.full \/ Product(more, CI) > session.desired
           THEN [s EXCEPT !.full = TRUE] ELSE [s EXCEPT !.n = more]
  IN FoldLeft(grow, [n |-> n, full |-> FALSE], GrowthOrder).n

\* select_ncolors
select_ncolors ==
  LET grown[n \in [CI -> Nat]] == LET m == GrownOnce(n) IN IF m = n THEN n ELSE grown[m]
  IN grown[[i \in CI |-> iroot]]

output_value(j, maxj) == (j * MAXJSAMPLE + maxj \div 2) \div maxj

largest_input_value(j, maxj) == ((2 * j + 1) * MAXJSAMPLE + maxj) \div (2 * maxj)

\* The number of adjacent entries that share a value of component i.
blksize(n, i) == Product(n, i + 1 .. Len(n))

\* create_colormap: row-major order, the last component changes fastest.
OrthogonalMap(n) ==
  [k \in 0 .. Product(n, CI) - 1 |->
     [i \in CI |-> output_value((k \div blksize(n, i)) % n[i], n[i] - 1)]]

\* colorindex[i][v]: the first value whose range reaches up to v, premultiplied.
\* Beyond the samples there are entries only if the table is padded.
colorindex(i, v) ==
  LET n == onepass.Ncolors
      level == Min({j \in 0 .. n[i] - 1 : range_limit(v) <= largest_input_value(j, n[i] - 1)})
  IN IF onepass.is_padded \/ v \in 0 .. MAXJSAMPLE THEN level * blksize(n, i) ELSE -1

\* The fill order of cell (y, x) of Bayer's matrix: the bits of y and x, most
\* significant last, select quarters of ever smaller squares.
base_dither_matrix(y, x) ==
  LET bit(a, k) == (a \div 2^k) % 2
      quarter(k) == << <<0, 3>>, <<2, 1>> >>[bit(y, k) + 1][bit(x, k) + 1]
  IN MapThenSumSet(LAMBDA k : quarter(k) * 4^(3 - k), 0 .. 3)

\* make_odither_array; the quotient is rounded towards zero.
odither(i, y, x) ==
  LET num == (255 - 2 * base_dither_matrix(y, x)) * MAXJSAMPLE
      den == 2 * 256 * (onepass.Ncolors[i] - 1)
  IN IF num < 0 THEN -((-num) \div den) ELSE num \div den

-----------------------------------------------------------------------------
(* jquant2.c: the colors of a picture. *)

Axes == 1 .. 3
SCALE == <<2, 3, 1>>
HIST_BITS == <<5, 6, 5>>
SHIFT == [a \in Axes |-> 8 - HIST_BITS[a]]

Cell(pixel) == Tuple(3, LAMBDA a : pixel[a] \div 2^SHIFT[a])
CellCenter(cell) == Tuple(3, LAMBDA a : cell[a] * 2^SHIFT[a] + 2^SHIFT[a] \div 2)

\* Cells of the histogram that hold no zero are the domain of a function.
ZeroedHistogram == [c \in {} |-> 0]

\* prescan_quantize: a count that would overflow is left at its maximum.
Count(histogram, pixel) ==
  LET c == Cell(pixel)
  IN IF c \in DOMAIN histogram THEN [histogram EXCEPT ![c] = Min({@ + 1, HistMax})]
     ELSE (c :> 1) @@ histogram

InBox(c, box) == \A a \in Axes : box.lo[a] <= c[a] /\ c[a] <= box.hi[a]

Extent(box, a) == (box.hi[a] - box.lo[a]) * 2^SHIFT[a] * SCALE[a]

\* update_box: shrunk to the cells in use, with its 2-norm and population.
update_box(histogram, lo, hi) ==
  LET inside == {c \in DOMAIN histogram : InBox(c, [lo |-> lo, hi |-> hi])}
      shrunk == IF inside = {} THEN [lo |-> lo, hi |-> hi]
                ELSE [lo |-> [a \in Axes |-> Min({c[a] : c \in inside})],
                      hi |-> [a \in Axes |-> Max({c[a] : c \in inside})]]
  IN [lo |-> shrunk.lo, hi |-> shrunk.hi, colorcount |-> Cardinality(inside),
      volume |-> MapThenSumSet(LAMBDA a : Extent(shrunk, a)^2, Axes)]

\* find_biggest_color_pop, find_biggest_volume: the first of the biggest boxes
\* that can be split, 0 if there is none.
Biggest(boxes, size) ==
  LET splittable == {b \in DOMAIN boxes : boxes[b].volume > 0}
  IN IF splittable = {} THEN 0
     ELSE LET most == Max({boxes[b][size] : b \in splittable})
          IN Min({b \in splittable : boxes[b][size] = most})

\* The longest axis; green wins ties, then red.
LongestAxis(box) ==
  LET longest == Max({Extent(box, a) : a \in Axes})
  IN IF Extent(box, 2) = longest THEN 2 ELSE IF Extent(box, 1) = longest THEN 1 ELSE 3

\* A box is split halfway along its longest axis.
Split(histogram, boxes, b) ==
  LET box == boxes[b]
      n == LongestAxis(box)
      lb == (box.lo[n] + box.hi[n]) \div 2
  IN Append([boxes EXCEPT ![b] = update_box(histogram, box.lo, [box.hi EXCEPT ![n] = lb])],
            update_box(histogram, [box.lo EXCEPT ![n] = lb + 1], box.hi))

\* median_cut: by population for the first half, then by volume.
median_cut(histogram, first) ==
  LET cut(boxes, k) ==
        LET b == IF 2 * Len(boxes) <= session.desired
                 THEN Biggest(boxes, "colorcount")
                 ELSE Biggest(boxes, "volume")
        IN IF b = 0 THEN boxes ELSE Split(histogram, boxes, b)
  IN FoldLeft(cut, <<first>>, [k \in 1 .. session.desired - 1 |-> k])

\* Seeded fault: the mean is not rounded.
compute_color_down(histogram, box) ==
  LET inside == {c \in DOMAIN histogram : InBox(c, box)}
      total == MapThenSumSet(LAMBDA c : histogram[c], inside)
  IN [a \in Axes |->
        MapThenSumSet(LAMBDA c : CellCenter(c)[a] * histogram[c], inside) \div total]

\* compute_color: the mean of the cells' centers weighted by pixels, rounded.
compute_color(histogram, box) ==
  LET inside == {c \in DOMAIN histogram : InBox(c, box)}
      total == MapThenSumSet(LAMBDA c : histogram[c], inside)
      weighted(a) == MapThenSumSet(LAMBDA c : CellCenter(c)[a] * histogram[c], inside)
  IN [a \in Axes |-> (weighted(a) + total \div 2) \div total]

\* select_colors
select_boxes(histogram) ==
  median_cut(histogram, update_box(histogram, <<0, 0, 0>>, [a \in Axes |-> 2^HIST_BITS[a] - 1]))

-----------------------------------------------------------------------------
(* jquant2.c: the nearest color, by boxes of 4 x 8 x 4 cells. *)

BOX_LOG == [a \in Axes |-> HIST_BITS[a] - 3]
BOX_ELEMS == [a \in Axes |-> 2^BOX_LOG[a]]

\* Squares of the least and of the greatest distance, along axis a, of a color
\* to the centers of the cells of a box from minc to maxc.
AxisDistances(x, a, minc, maxc) ==
  LET toMin == (SCALE[a] * (x - minc))^2
      toMax == (SCALE[a] * (x - maxc))^2
      center == (minc + maxc) \div 2
  IN IF x < minc THEN [near |-> toMin, far |-> toMax]
     ELSE IF x > maxc THEN [near |-> toMax, far |-> toMin]
     ELSE [near |-> 0, far |-> IF x <= center THEN toMax ELSE toMin]

\* find_nearby_colors: no color farther from all of the box than some color is
\* from any of it (Heckbert).
find_nearby_colors(map, minc) ==
  LET maxc == [a \in Axes |-> minc[a] + (BOX_ELEMS[a] - 1) * 2^SHIFT[a]]
      along(i, a) == AxisDistances(map[i][a], a, minc[a], maxc[a])
      mindist == [i \in DOMAIN map |-> MapThenSumSet(LAMBDA a : along(i, a).near, Axes)]
      maxdist == [i \in DOMAIN map |-> MapThenSumSet(LAMBDA a : along(i, a).far, Axes)]
      minmaxdist == Min(Range(maxdist))
  IN {i \in DOMAIN map : mindist[i] <= minmaxdist}

\* The squares of the distances to the cells along axis a, by Thomas' increments.
Incremental(x, a, minc) ==
  LET step == 2^SHIFT[a] * SCALE[a]
      inc == (minc - x) * SCALE[a]
      next(d, k) == [dists |-> Append(d.dists, d.dist), dist |-> d.dist + d.xx,
                     xx |-> d.xx + 2 * step * step]
  IN FoldLeft(next, [dists |-> <<>>, dist |-> inc * inc, xx |-> inc * (2 * step) + step * step],
              [k \in 1 .. BOX_ELEMS[a] |-> k]).dists

\* find_best_colors: the first of the nearest colors, for every cell of a box.
find_best_colors(map, minc, candidates) ==
  LET table(i) == [color |-> i, along |-> Tuple(3, LAMBDA a : Incremental(map[i][a], a, minc[a]))]
      tables == FoldLeft(LAMBDA t, i : Append(t, table(i)), <<>>,
                         SetToSortSeq(candidates, <))
      dist(t, k) == t.along[1][k[1]] + t.along[2][k[2]] + t.along[3][k[3]]
      nearer(k, b, t) == IF dist(t, k) < b.dist THEN [color |-> t.color, dist |-> dist(t, k)] ELSE b
      best(k) == FoldLeft(LAMBDA b, t : nearer(k, b, t), [color |-> 0, dist |-> 2147483647], tables)
  IN [k \in (1 .. BOX_ELEMS[1]) \X (1 .. BOX_ELEMS[2]) \X (1 .. BOX_ELEMS[3]) |-> best(k).color]

NearestColors(map, minc) == find_best_colors(map, minc, find_nearby_colors(map, minc))

\* The cache with the box filled whose first cell is corner.
BoxFilled(cache, corner, best) ==
  LET at(d) == <<d[1] - corner[1] + 1, d[2] - corner[2] + 1, d[3] - corner[3] + 1>>
      boxcells == {<<corner[1] + k[1] - 1, corner[2] + k[2] - 1, corner[3] + k[3] - 1>> :
                     k \in DOMAIN best}
  IN [d \in boxcells |-> best[at(d)] + 1] @@ cache

\* fill_inverse_cmap: the box is the one that cell c is in.
fill_inverse_cmap(cache, map, c) ==
  LET corner == [a \in Axes |-> (c[a] \div BOX_ELEMS[a]) * BOX_ELEMS[a]]
  IN BoxFilled(cache, corner, NearestColors(map, CellCenter(corner)))

-----------------------------------------------------------------------------
(* Quantizing a row.  Both modules look a color up and get its code, the   *)
(* error it is represented with, and the cache they leave behind.          *)

\* The code is the sum of the components' parts; a part is the code of a color with
\* the same level of that component, for the map is orthogonal.
SumOfParts(cache, part, v) ==
  [cache |-> cache,
   code |-> MapThenSumSet(LAMBDA i : part[i], CI),
   miss |-> Pixel(LAMBDA i : v[i] - (IF part[i] \in DOMAIN cinfo.colormap
                                      THEN cinfo.colormap[part[i]][i] ELSE 0))]

Lookup1(cache, v) == SumOfParts(cache, Pixel(LAMBDA i : colorindex(i, v[i])), v)

\* A code that is left in the cache from another map may be outside this one.
Found(cache, code, v) ==
  [cache |-> cache, code |-> code,
   miss |-> Pixel(LAMBDA i : v[i] - (IF code \in DOMAIN cinfo.colormap
                                      THEN cinfo.colormap[code][i] ELSE 0))]

CacheWith(cache, c) ==
  IF c \in DOMAIN cache THEN cache ELSE fill_inverse_cmap(cache, cinfo.colormap, c)

FoundIn(cache, c, v) == Found(cache, cache[c] - 1, v)

Lookup2(cache, v) == FoundIn(CacheWith(cache, Cell(v)), Cell(v), v)

Lookup(cache, v) ==
  IF cinfo.cquantize = "1pass" THEN Lookup1(cache, v) ELSE Lookup2(cache, v)

\* What color_quantize returns for a row: indexes, representation errors, cache,
\* and the errors for the next row.
RowStart(cache, fserrors) ==
  LET zero == Pixel(LAMBDA i : 0)
  IN [cache |-> cache, fserrors |-> fserrors, codes |-> <<>>, misses |-> <<>>,
      cur |-> zero, belowerr |-> zero, bpreverr |-> zero]

\* color_quantize, color_quantize3, pass2_no_dither
PlainRow(pixels, cache) ==
  LET next(s, found) == [s EXCEPT !.cache = found.cache, !.codes = Append(@, found.code)]
      step(s, pixel) == next(s, Lookup(s.cache, pixel))
  IN FoldLeft(step, RowStart(cache, NULL), pixels)

\* quantize_ord_dither, quantize3_ord_dither
OrderedRow(pixels) ==
  LET dithered(col) ==
        Pixel(LAMBDA i : pixels[col][i] + odither(i, onepass.row_index, (col - 1) % 16))
      step(s, col) ==
        [s EXCEPT !.codes = Append(@, Lookup1(NULL, dithered(col)).code)]
  IN FoldLeft(step, RowStart(NULL, NULL), [col \in DOMAIN pixels |-> col])

\* init_error_limit: 1:1 up to 16, 1:2 up to 48, then constant.
error_limit(e) ==
  LET size == IF e < 0 THEN -e ELSE e
      out == IF size < 16 THEN size ELSE IF size < 48 THEN 16 + (size - 16) \div 2 ELSE 32
  IN IF e < 0 THEN -out ELSE out

\* Only the two-pass quantizer limits the error it applies.
Limited(e) == IF cinfo.cquantize = "1pass" THEN e ELSE error_limit(e)

\* The pixel plus the errors that have reached it, a legal sample.
Corrected(s, pixel, col) ==
  Pixel(LAMBDA i : range_limit(pixel[i] + Limited((s.cur[i] + s.fserrors[col][i] + 8) \div 16)))

\* Its own error goes to the next pixel and to three of the row below.
Propagated(s, found, behind, odd) ==
  [fserrors |-> [s.fserrors EXCEPT ![behind] =
                  Pixel(LAMBDA i : s.bpreverr[i] + 3 * found.miss[i])],
   cache |-> found.cache,
   codes |-> IF odd THEN <<found.code>> \o s.codes ELSE Append(s.codes, found.code),
   misses |-> IF odd THEN <<found.miss>> \o s.misses ELSE Append(s.misses, found.miss),
   cur |-> Pixel(LAMBDA i : 7 * found.miss[i]),
   belowerr |-> found.miss,
   bpreverr |-> Pixel(LAMBDA i : s.belowerr[i] + 5 * found.miss[i])]

\* quantize_fs_dither, pass2_fs_dither: the row's errors at columns not yet
\* processed, the next row's at columns that are, in one array.
DitheredRow(pixels, odd, cache, fserrors) ==
  LET width == Len(pixels)
      columns == [k \in 1 .. width |-> IF odd THEN width + 1 - k ELSE k]
      step(s, col) == Propagated(s, Lookup(s.cache, Corrected(s, pixels[col], col)),
                                 IF odd THEN col + 1 ELSE col - 1, odd)
      unloaded(end, last) == [end EXCEPT !.fserrors[last] = end.bpreverr]
  IN unloaded(FoldLeft(step, RowStart(cache, fserrors), columns), columns[width])

NoErrors == [col \in 0 .. output_width + 1 |-> Pixel(LAMBDA i : 0)]

-----------------------------------------------------------------------------
(* jdmaster.c: choosing the quantizers. *)

\* master_selection: without buffered-image mode there is one method; with more
\* or fewer components than three there is one method.
EnabledAtStart(s) ==
  LET chosen == IF s.components # 3 THEN "one"
                ELSE IF s.external # NULL THEN "map"
                ELSE IF s.two_pass THEN "two" ELSE "one"
      before == IF s.buffered /\ s.components = 3 THEN s.enable ELSE {}
  IN before \cup {chosen}

Refused(s) ==
  LET enabled == EnabledAtStart(s)
  IN \/ "one" \in enabled /\ (\/ s.components > MAX_Q_COMPS
                              \/ s.desired > MAXNUMCOLORS
                              \/ 2 ^ s.components > s.desired)
     \/ "two" \in enabled /\ s.desired \notin 8 .. MAXNUMCOLORS

\* start_pass_2_quant, jinit_2pass_quantizer: ordered dithering becomes F-S.
DitherOf2Pass(mode) == IF mode = "none" THEN "none" ELSE "fs"

\* The state in which master_selection leaves session s.
MasterSelection(s) ==
  LET enabled == EnabledAtStart(s)
      with2 == enabled \cap {"two", "map"} # {}
      external == IF s.components = 3 THEN s.external ELSE NULL
  IN /\ session = s
     /\ picture \in s.pictures
     /\ phase = IF Refused(s) THEN "error" ELSE "between"
     /\ cinfo = [colormap |-> external, two_pass_quantize |-> s.two_pass,
                 dither_mode |-> IF with2 THEN DitherOf2Pass(s.dither) ELSE s.dither,
                 cquantize |-> IF with2 THEN "2pass" ELSE "1pass",
                 enabled |-> enabled]
     /\ onepass = [Ncolors |-> IF Refused(s) \/ "one" \notin enabled THEN NULL ELSE select_ncolors,
                   is_padded |-> s.dither = "ordered",
                   row_index |-> 0, on_odd_row |-> FALSE, fserrors |-> NULL]
     /\ twopass = [histogram |-> ZeroedHistogram, needs_zeroed |-> TRUE,
                   on_odd_row |-> FALSE, fserrors |-> NULL]
     /\ asked = [kind |-> IF external # NULL THEN "map"
                          ELSE IF s.components = 3 /\ s.two_pass THEN "two" ELSE "one",
                 map |-> external]

QuantizersInit ==
  /\ \E s \in Sessions : MasterSelection(s)
  /\ boxlist = <<>> /\ passes_done = 0 /\ rows_done = 0
  /\ counted = NULL /\ codes = <<>> /\ misses = <<>>

-----------------------------------------------------------------------------
(* Between two passes. *)

Idle ==
  /\ phase = "between"
  /\ passes_done < MaxPasses
  /\ session.buffered \/ passes_done = 0

\* The application sets colormap to NULL, to get another map from the library.
AskFor(two_pass) ==
  /\ Idle /\ session.buffered
  /\ cinfo' = [cinfo EXCEPT !.colormap = NULL, !.two_pass_quantize = two_pass]
  /\ asked' = [kind |-> IF two_pass THEN "two" ELSE "one", map |-> NULL]
  /\ UNCHANGED <<session, onepass, twopass, phase, picture, boxlist, passes_done, rows_done,
                 counted, codes, misses>>

\* new_color_map_2_quant
new_color_map(quantizer) == [quantizer EXCEPT !.needs_zeroed = TRUE]

\* jpeg_new_colormap, after the application has set its own color map.
jpeg_new_colormap(map) ==
  /\ Idle /\ session.buffered
  /\ asked' = [kind |-> "map", map |-> map]
  /\ IF "map" \in cinfo.enabled
     THEN /\ cinfo' = [cinfo EXCEPT !.colormap = map, !.cquantize = "2pass"]
          /\ twopass' = new_color_map(twopass)
          /\ UNCHANGED phase
     ELSE /\ cinfo' = [cinfo EXCEPT !.colormap = map]
          /\ phase' = "error"
          /\ UNCHANGED twopass
  /\ UNCHANGED <<session, onepass, picture, boxlist, passes_done, rows_done,
                 counted, codes, misses>>

\* start_pass_1_quant: its own map, fresh errors and dither rows, and a padded
\* table if it is needed.
StartPass1(mode) ==
  /\ cinfo' = [cinfo EXCEPT !.colormap = OrthogonalMap(onepass.Ncolors),
                            !.dither_mode = mode, !.cquantize = "1pass"]
  /\ onepass' = CASE mode = "ordered" -> [onepass EXCEPT !.row_index = 0, !.is_padded = TRUE]
                  [] mode = "fs" -> [onepass EXCEPT !.on_odd_row = FALSE, !.fserrors = NoErrors]
                  [] mode = "none" -> onepass
  /\ UNCHANGED twopass

\* start_pass_2_quant of the prescan: an empty histogram.
StartPrescan(mode) ==
  /\ cinfo' = [cinfo EXCEPT !.dither_mode = DitherOf2Pass(mode), !.cquantize = "2pass"]
  /\ twopass' = [twopass EXCEPT !.histogram = ZeroedHistogram, !.needs_zeroed = FALSE]
  /\ UNCHANGED onepass

\* start_pass_2_quant of a pass that delivers rows: fresh errors, and an empty
\* cache unless the map is the one of the last pass.
StartPass2(quantizer, map, mode) ==
  LET fresh == IF DitherOf2Pass(mode) = "none" THEN quantizer
               ELSE [quantizer EXCEPT !.fserrors = NoErrors, !.on_odd_row = FALSE]
  IN /\ cinfo' = [cinfo EXCEPT !.colormap = map, !.dither_mode = DitherOf2Pass(mode)]
     /\ twopass' = IF quantizer.needs_zeroed
                   THEN [fresh EXCEPT !.histogram = ZeroedHistogram, !.needs_zeroed = FALSE]
                   ELSE fresh
     /\ UNCHANGED onepass

\* prepare_for_output_pass, for jpeg_start_output with the dithering and the
\* picture that the application wants, or for jpeg_start_decompress.
StartOutput(mode, shown) ==
  /\ Idle
  /\ session.buffered \/ (mode = cinfo.dither_mode /\ shown = picture)
  /\ picture' = shown
  /\ codes' = <<>> /\ misses' = <<>> /\ rows_done' = 0
  /\ UNCHANGED <<session, boxlist, passes_done, asked, counted>>
  /\ IF cinfo.colormap # NULL
     THEN /\ phase' = "rows"
          /\ IF cinfo.cquantize = "1pass" THEN StartPass1(mode)
             ELSE StartPass2(twopass, cinfo.colormap, mode)
     ELSE IF cinfo.two_pass_quantize /\ "two" \in cinfo.enabled
     THEN phase' = "prescan" /\ StartPrescan(mode)
     ELSE IF "one" \in cinfo.enabled
     THEN phase' = "rows" /\ StartPass1(mode)
     ELSE phase' = "error" /\ UNCHANGED <<cinfo, onepass, twopass>>

-----------------------------------------------------------------------------
(* During a pass. *)

\* prescan_quantize
Prescan ==
  /\ phase = "prescan" /\ rows_done < Len(picture)
  /\ rows_done' = rows_done + 1
  /\ twopass' = [twopass EXCEPT !.histogram = FoldLeft(Count, @, picture[rows_done + 1])]
  /\ UNCHANGED <<session, cinfo, onepass, phase, picture, boxlist, passes_done, asked,
                 counted, codes, misses>>

\* Seeded fault: the counts are left for the second pass.
finish_pass1_forgetful(quantizer) == quantizer

\* finish_pass1: the counts are no cache.
finish_pass1(quantizer) == [quantizer EXCEPT !.needs_zeroed = TRUE]

\* finish_output_pass of the dummy pass, and prepare_for_output_pass again.
FinishPrescan ==
  /\ phase = "prescan" /\ rows_done = Len(picture)
  /\ phase' = "rows" /\ rows_done' = 0
  /\ boxlist' = select_boxes(twopass.histogram)
  /\ counted' = picture
  /\ StartPass2(finish_pass1(twopass),
                [k \in 0 .. Len(boxlist') - 1 |-> compute_color(twopass.histogram, boxlist'[k + 1])],
                cinfo.dither_mode)
  /\ UNCHANGED <<session, picture, passes_done, asked, codes, misses>>

\* The row that color_quantize makes, and what it leaves behind.
QuantizedRow(pixels) ==
  IF cinfo.cquantize = "1pass"
  THEN CASE cinfo.dither_mode = "none" -> PlainRow(pixels, NULL)
         [] cinfo.dither_mode = "ordered" -> OrderedRow(pixels)
         [] cinfo.dither_mode = "fs" ->
              DitheredRow(pixels, onepass.on_odd_row, NULL, onepass.fserrors)
  ELSE IF cinfo.dither_mode = "none" THEN PlainRow(pixels, twopass.histogram)
  ELSE DitheredRow(pixels, twopass.on_odd_row, twopass.histogram, twopass.fserrors)

RowDone(r, fs) ==
  /\ codes' = Append(codes, r.codes)
  /\ misses' = Append(misses, r.misses)
  /\ IF cinfo.cquantize = "1pass"
     THEN /\ onepass' = [onepass EXCEPT
               !.row_index = IF cinfo.dither_mode = "ordered" THEN (@ + 1) % 16 ELSE @,
               !.on_odd_row = IF fs THEN ~@ ELSE @,
               !.fserrors = IF fs THEN r.fserrors ELSE @]
          /\ UNCHANGED twopass
     ELSE /\ twopass' = [twopass EXCEPT
               !.histogram = r.cache,
               !.on_odd_row = IF fs THEN ~@ ELSE @,
               !.fserrors = IF fs THEN r.fserrors ELSE @]
          /\ UNCHANGED onepass

QuantizeRow ==
  /\ phase = "rows" /\ rows_done < Len(picture)
  /\ rows_done' = rows_done + 1
  /\ \E r \in {QuantizedRow(picture[rows_done + 1])} : RowDone(r, cinfo.dither_mode = "fs")
  /\ UNCHANGED <<session, cinfo, phase, picture, boxlist, passes_done, asked, counted>>

\* finish_output_pass; jpeg_finish_output may be called before the last row.
FinishOutput ==
  /\ phase = "rows"
  /\ session.buffered \/ rows_done = Len(picture)
  /\ phase' = "between"
  /\ passes_done' = passes_done + 1
  /\ codes' = <<>> /\ misses' = <<>> /\ rows_done' = 0
  /\ UNCHANGED <<session, cinfo, onepass, twopass, picture, boxlist, asked, counted>>

NothingToQuantize ==
  /\ phase = "none" /\ session = NULL /\ cinfo = NULL /\ onepass = NULL /\ twopass = NULL
  /\ picture = NULL /\ boxlist = <<>> /\ passes_done = 0 /\ rows_done = 0
  /\ asked = NULL /\ counted = NULL /\ codes = <<>> /\ misses = <<>>

\* The end of the image, or jpeg_abort.
EndSession ==
  /\ phase = "error" \/ (phase = "between" /\ ~Idle)
  /\ phase' = "none" /\ session' = NULL /\ cinfo' = NULL /\ onepass' = NULL /\ twopass' = NULL
  /\ picture' = NULL /\ boxlist' = <<>> /\ passes_done' = 0 /\ rows_done' = 0
  /\ asked' = NULL /\ counted' = NULL /\ codes' = <<>> /\ misses' = <<>>

QuantizersNext ==
  \/ \E two_pass \in BOOLEAN : AskFor(two_pass)
  \/ phase = "between" /\ \E map \in session.maps : jpeg_new_colormap(map)
  \/ /\ phase = "between"
     /\ \E mode \in {"none", "ordered", "fs"}, p \in session.pictures : StartOutput(mode, p)
  \/ Prescan \/ FinishPrescan \/ QuantizeRow \/ FinishOutput \/ EndSession

-----------------------------------------------------------------------------
(* Properties. *)

Magnitude(a) == IF a < 0 THEN -a ELSE a

ValuesOf(i) == {cinfo.colormap[k][i] : k \in DOMAIN cinfo.colormap}

\* The color map of the one-pass quantizer has every combination of its levels
\* once, black and white and equal steps between, at least two levels of each
\* component and not more colors than desired; one more level of the component
\* that matters most would be too many (select_ncolors, create_colormap).
GridRight ==
  LET map == cinfo.colormap
      levels == [i \in CI |-> ValuesOf(i)]
      n == [i \in CI |-> Cardinality(levels[i])]
  IN /\ Cardinality(DOMAIN map) <= session.desired
     /\ Cardinality(DOMAIN map) = Product(n, CI)
     /\ IsInjective(map)
     /\ \A i \in CI :
          /\ {0, MAXJSAMPLE} \subseteq levels[i]
          /\ \A j \in 0 .. n[i] - 1 : \E l \in levels[i] :
               2 * Magnitude(l * (n[i] - 1) - j * MAXJSAMPLE) <= n[i] - 1
     /\ \A j \in 1 .. Len(GrowthOrder) - 1 : n[GrowthOrder[j]] >= n[GrowthOrder[j + 1]]
     /\ LET most == GrowthOrder[1]
        IN Product([n EXCEPT ![most] = @ + 1], CI) > session.desired

\* The map made in the prescan has as many colors as desired, or one for every
\* cell in use when there are fewer; its boxes share the cells of the picture out
\* among them, none is larger than its cells, and each color is the mean of the
\* pixels in its box to the nearest integer (median_cut, update_box,
\* compute_color), whatever the histogram had been used for.
CutRight ==
  LET pixels == {<<y, x>> : y \in DOMAIN counted, x \in DOMAIN counted[1]}
      cellOf == [p \in pixels |-> Cell(counted[p[1]][p[2]])]
      used == Range(cellOf)
      weight == [c \in used |-> Min({Cardinality({p \in pixels : cellOf[p] = c}), HistMax})]
      in == [b \in DOMAIN boxlist |-> {c \in used : InBox(c, boxlist[b])}]
  IN /\ Len(boxlist) = Min({session.desired, Cardinality(used)})
     /\ DOMAIN cinfo.colormap = 0 .. Len(boxlist) - 1
     /\ \A c \in used : Cardinality({b \in DOMAIN boxlist : c \in in[b]}) = 1
     /\ \A b \in DOMAIN boxlist :
          /\ \A a \in Axes : {boxlist[b].lo[a], boxlist[b].hi[a]} \subseteq {c[a] : c \in in[b]}
          /\ LET total == MapThenSumSet(LAMBDA c : weight[c], in[b])
             IN \A a \in Axes :
                  2 * Magnitude(cinfo.colormap[b - 1][a] * total
                     - MapThenSumSet(LAMBDA c : weight[c] * CellCenter(c)[a], in[b])) <= total

\* Every pass uses the kind of map that the application asked for last, if it was
\* enabled, and that map is right; only what was not enabled, or more or fewer
\* colors than can be, is an error (libjpeg.txt:2106-2145).
ColormapRight ==
  /\ phase = "error" => Refused(session) \/ asked.kind \notin cinfo.enabled
  /\ phase = "rows" =>
       IF asked.kind = "map" THEN cinfo.colormap = asked.map /\ cinfo.cquantize = "2pass"
       ELSE IF asked.kind = "two" /\ "two" \in cinfo.enabled
            THEN cinfo.cquantize = "2pass" /\ CutRight
            ELSE cinfo.cquantize = "1pass" /\ GridRight

\* Index code stands for value v: the nearest level of each component, or the one
\* next to it where v is within one of halfway; or the nearest color to the center
\* of v's cell, where the whole color map is searched.
StandsFor(code, v) ==
  /\ code \in DOMAIN cinfo.colormap
  /\ IF cinfo.cquantize = "1pass"
     THEN \A i \in CI : \A l \in ValuesOf(i) :
            Magnitude(cinfo.colormap[code][i] - v[i]) <= Magnitude(l - v[i]) + 1
     ELSE LET distance(k) == MapThenSumSet(
                LAMBDA a : (SCALE[a] * (cinfo.colormap[k][a] - CellCenter(Cell(v))[a]))^2, Axes)
          IN \A k \in DOMAIN cinfo.colormap : distance(code) <= distance(k)

\* The errors that Floyd and Steinberg's filter brings to pixel (y, x) from the
\* pixel before it and from three pixels of the row above, which was worked on in
\* the other direction, times 16.
Brought(y, x, i) ==
  LET dir == IF y % 2 = 1 THEN 1 ELSE -1
      miss(r, c) == IF r \in DOMAIN misses /\ c \in 1 .. output_width THEN misses[r][c][i] ELSE 0
  IN 7 * miss(y, x - dir) + 3 * miss(y - 1, x - dir) + 5 * miss(y - 1, x) + miss(y - 1, x + dir)

FsRight(y) ==
  \A x \in 1 .. output_width :
    LET size(e) == Min({Magnitude(e), 8 + Magnitude(e) \div 2, 32})
        limited(e) == IF cinfo.cquantize = "1pass" THEN e ELSE IF e < 0 THEN -size(e) ELSE size(e)
        corrected == Pixel(LAMBDA i : range_limit(
                       picture[y][x][i] + limited((Brought(y, x, i) + 8) \div 16)))
    IN /\ StandsFor(codes[y][x], corrected)
       /\ \A i \in CI : misses[y][x][i] = corrected[i] - cinfo.colormap[codes[y][x]][i]

\* A dithered sample is less than a step from the pixel, and the mean of 16 rows
\* and columns of one color is that color, off by less than two.
OrderedRight(y) ==
  LET level(r, c, i) == cinfo.colormap[codes[r][c]][i]
      flat == \A r \in 1 .. y : \A c \in 1 .. output_width : picture[r][c] = picture[1][1]
      sum(c0, i) == MapThenSumSet(LAMBDA p : level(p[1], p[2], i),
                                  (y - 15 .. y) \X (c0 .. c0 + 15))
  IN /\ \A x \in 1 .. output_width :
          /\ codes[y][x] \in DOMAIN cinfo.colormap
          /\ \A i \in CI :
               Magnitude(level(y, x, i) - picture[y][x][i])
                 <= MAXJSAMPLE \div (onepass.Ncolors[i] - 1) + 1
     /\ (flat /\ y >= 16) => \A c0 \in 1 .. output_width - 15, i \in CI :
          Magnitude(sum(c0, i) - 256 * picture[1][1][i]) < 2 * 256

\* The row just delivered shows the picture in the colors of the map of this
\* pass, with the errors of this pass, whatever passes, maps and ways of dithering
\* came before it (color_quantize of both modules).
PixelsRight ==
  (phase = "rows" /\ rows_done > 0) =>
    CASE cinfo.dither_mode = "none" ->
           \A x \in 1 .. output_width : StandsFor(codes[rows_done][x], picture[rows_done][x])
      [] cinfo.dither_mode = "fs" -> FsRight(rows_done)
      [] cinfo.dither_mode = "ordered" -> OrderedRight(rows_done)

\* An application that starts with the one-pass quantizer gets the dithering it
\* asked for in the first pass; it is the other quantizers that have no ordered
\* dither (libjpeg.txt:1174-1177 and 2090-2093).
OrderedKept ==
  phase = "between" /\ passes_done = 0 /\ ~session.two_pass /\ session.external = NULL =>
    cinfo.dither_mode = session.dither
=============================================================================
