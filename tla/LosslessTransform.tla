-------------------------- MODULE LosslessTransform --------------------------
(***************************************************************************)
(* Lossless rotation, mirroring and cropping of a file (transupp.c), as    *)
(* jpegtran uses it.  A destination block is a source block whose odd      *)
(* columns or rows of coefficients change sign, or which is transposed;    *)
(* partial iMCUs at an edge that would have to move are left where they    *)
(* are, or trimmed off.  The transformation works on the coefficient       *)
(* arrays the decoder requested, and on a workspace requested before they  *)
(* are realized; sizes, sampling factors and offsets of both sides meet.   *)
(***************************************************************************)
EXTENDS ComponentSizes, SequencesExt

CONSTANTS
  Requests,             \* the options of jpeg_transform_info: [transform, perfect, trim,
                        \* force_grayscale, crop_x, crop_y]
  TransformScales,      \* as Outputs
  TransformBlockSizes   \* of the files that are transformed

\* JXFORM_CODE
Transforms == {"none", "flip_h", "flip_v", "transpose", "transverse", "rot_90", "rot_180",
               "rot_270"}

ASSUME TransformAssumption ==
  \A o \in Requests : /\ o.transform \in Transforms
                      /\ {o.perfect, o.trim, o.force_grayscale} \subseteq BOOLEAN
                      /\ {o.crop_x.offset, o.crop_y.offset} \subseteq Nat

VARIABLES
  info,    \* jpeg_transform_info
  image    \* the destination: for each component, block by block, what was put there

tvars == <<vars, info, image>>

-----------------------------------------------------------------------------
(* Options.                                                                 *)

Transposing == {"transpose", "transverse", "rot_90", "rot_270"}

\* Transformations that cannot move a partial iMCU at the destination's right
\* edge, and at its bottom edge.
KeepRight == {"flip_h", "transverse", "rot_90", "rot_180"}
KeepBottom == {"flip_v", "transverse", "rot_180", "rot_270"}

\* A crop specification, for each direction: [size, size_set, offset,
\* offset_set].  An offset that is not set is +0; without cropping, nothing is.
CropSize(full, s) == IF s.size_set = "unset" THEN full - s.offset ELSE s.size

LegalCrop(full, s) ==
  /\ s.offset < full
  /\ CropSize(full, s) \in 1 .. full
  /\ s.offset <= full - CropSize(full, s)

\* Where the crop region begins.
CropFrom(full, s) ==
  IF s.offset_set = "neg" THEN full - CropSize(full, s) - s.offset ELSE s.offset

\* The destination in one direction: the uncropped size, the size of an
\* iMCU, the output size, and the crop offset in iMCUs.  The region is made
\* larger so that it begins at an iMCU boundary, unless its size is forced.
Cropped(full, unit, s) ==
  [full |-> full, unit |-> unit,
   output |-> IF s.size_set = "force" THEN s.size
              ELSE CropSize(full, s) + (CropFrom(full, s) % unit),
   offset |-> CropFrom(full, s) \div unit]

\* Seeded fault: without regard to where the crop region lies.
TrimmedAnywhere(a) ==
  LET mcus == a.output \div a.unit
  IN IF mcus > 0 /\ mcus = a.full \div a.unit THEN [a EXCEPT !.output = mcus * a.unit] ELSE a

\* trim_right_edge, trim_bottom_edge
Trimmed(a) ==
  LET mcus == a.output \div a.unit
  IN IF mcus > 0 /\ a.offset + mcus = a.full \div a.unit
     THEN [a EXCEPT !.output = mcus * a.unit] ELSE a

jtransform_perfect_transform(width, height, mcu_width, mcu_height, transform) ==
  /\ transform \in {"flip_h", "rot_270", "transverse", "rot_180"} => width % mcu_width = 0
  /\ transform \in {"flip_v", "rot_90", "transverse", "rot_180"} => height % mcu_height = 0

-----------------------------------------------------------------------------
(* The routines.  Source block and signs for the destination block (x, y)  *)
(* of component c = [h, v] of the destination; geometry g has the whole    *)
(* iMCUs of the image (MCU_cols, MCU_rows) and the crop offset in iMCUs.   *)
(* Rows are accessed in strips; "h" and "v" in turned say that odd columns *)
(* and odd rows of the source block are negated, "t" that it is then       *)
(* transposed.                                                             *)

comp_width(g, c) == g.cols * c.h
comp_height(g, c) == g.rows * c.v
x_crop_blocks(g, c) == g.x * c.h
y_crop_blocks(g, c) == g.y * c.v

MirrorableColumn(g, c, x) == x_crop_blocks(g, c) + x < comp_width(g, c)
MirrorableRow(g, c, y) == y_crop_blocks(g, c) + y < comp_height(g, c)
MirroredColumn(g, c, x) == comp_width(g, c) - x_crop_blocks(g, c) - x - 1
MirroredRow(g, c, y) == comp_height(g, c) - y_crop_blocks(g, c) - y - 1

\* The strip of n rows that begins at the destination's strip of position p,
\* and the row of it that p takes; in the same order, or mirrored.
PlainStrip(crop, p, n) ==
  [first |-> p - (p % n) + crop, rows |-> n, row |-> p + crop]
MirroredStrip(limit, crop, p, n) ==
  LET first == limit - crop - (p - (p % n)) - n
  IN [first |-> first, rows |-> n, row |-> first + n - (p % n) - 1]

Block(strip, column, turned) == [strip |-> strip, column |-> column, turned |-> turned]

do_crop(g, c, x, y) ==
  Block(PlainStrip(y_crop_blocks(g, c), y, c.v), x + x_crop_blocks(g, c), {})

\* In place: blocks are swapped in pairs, then what is kept moves left.
do_flip_h_no_crop(g, c, x, y) ==
  LET swapped(p) == IF p < comp_width(g, c)
                    THEN Block(PlainStrip(0, y, c.v), comp_width(g, c) - p - 1, {"h"})
                    ELSE Block(PlainStrip(0, y, c.v), p, {})
  IN swapped(x + x_crop_blocks(g, c))

do_flip_h(g, c, x, y) ==
  IF MirrorableColumn(g, c, x)
  THEN Block(PlainStrip(y_crop_blocks(g, c), y, c.v), MirroredColumn(g, c, x), {"h"})
  ELSE do_crop(g, c, x, y)

do_flip_v(g, c, x, y) ==
  IF MirrorableRow(g, c, y - (y % c.v))
  THEN Block(MirroredStrip(comp_height(g, c), y_crop_blocks(g, c), y, c.v),
             x + x_crop_blocks(g, c), {"v"})
  ELSE do_crop(g, c, x, y)

do_transpose(g, c, x, y) ==
  Block(PlainStrip(x_crop_blocks(g, c), x, c.h), y + y_crop_blocks(g, c), {"t"})

do_rot_90(g, c, x, y) ==
  IF MirrorableColumn(g, c, x - (x % c.h))
  THEN Block(MirroredStrip(comp_width(g, c), x_crop_blocks(g, c), x, c.h),
             y + y_crop_blocks(g, c), {"v", "t"})
  ELSE do_transpose(g, c, x, y)

do_rot_270(g, c, x, y) ==
  IF MirrorableRow(g, c, y - (y % c.v))
  THEN Block(PlainStrip(x_crop_blocks(g, c), x, c.h), MirroredRow(g, c, y), {"h", "t"})
  ELSE do_transpose(g, c, x, y)

do_rot_180(g, c, x, y) ==
  IF ~MirrorableRow(g, c, y - (y % c.v)) THEN do_flip_h(g, c, x, y)
  ELSE IF ~MirrorableColumn(g, c, x) THEN do_flip_v(g, c, x, y)
  ELSE Block(MirroredStrip(comp_height(g, c), y_crop_blocks(g, c), y, c.v),
             MirroredColumn(g, c, x), {"h", "v"})

do_transverse(g, c, x, y) ==
  IF ~MirrorableColumn(g, c, x - (x % c.h)) THEN do_rot_270(g, c, x, y)
  ELSE IF ~MirrorableRow(g, c, y - (y % c.v)) THEN do_rot_90(g, c, x, y)
  ELSE Block(MirroredStrip(comp_width(g, c), x_crop_blocks(g, c), x, c.h),
             MirroredRow(g, c, y), {"h", "v", "t"})

\* jtransform_execute_transform.  A file that is neither cropped nor transformed is written
\* from the source arrays, where do_crop would leave every block.
Moved(transform, g, c, x, y) ==
  CASE transform = "none" -> do_crop(g, c, x, y)
    [] transform = "flip_h" -> IF g.y # 0 THEN do_flip_h(g, c, x, y)
                               ELSE do_flip_h_no_crop(g, c, x, y)
    [] transform = "flip_v" -> do_flip_v(g, c, x, y)
    [] transform = "transpose" -> do_transpose(g, c, x, y)
    [] transform = "transverse" -> do_transverse(g, c, x, y)
    [] transform = "rot_90" -> do_rot_90(g, c, x, y)
    [] transform = "rot_180" -> do_rot_180(g, c, x, y)
    [] transform = "rot_270" -> do_rot_270(g, c, x, y)

-----------------------------------------------------------------------------
(* The steps of jpegtran. *)

TInit == Init /\ info = Nothing /\ image = <<>>

Refuse(code) == stage' = "refused" /\ error' = code

\* Only luma is left of a YCbCr image that is forced to grayscale.
NumComponents(o) ==
  IF o.force_grayscale /\ Len(params.comp_info) = 3 THEN 1 ELSE Len(params.comp_info)

\* One component makes an iMCU a block, whatever its sampling factors.
SourceMCU(o, size) ==
  IF NumComponents(o) = 1 THEN [h |-> size, v |-> size]
  ELSE [h |-> MaxH(params.comp_info) * size, v |-> MaxV(params.comp_info) * size]

\* The destination's directions, full width and iMCU width first.
Uncropped(o, src, mcu) ==
  IF o.transform \in Transposing
  THEN [w |-> <<src.output_height, mcu.v>>, h |-> <<src.output_width, mcu.h>>]
  ELSE [w |-> <<src.output_width, mcu.h>>, h |-> <<src.output_height, mcu.v>>]

TrimmedIf(trim, a) == IF trim THEN Trimmed(a) ELSE a

need_workspace(transform, w, h) ==
  CASE transform = "none" -> w.offset # 0 \/ h.offset # 0
    [] transform = "flip_h" -> h.offset # 0
    [] OTHER -> TRUE

\* A bound: of the files, which are all alike, those of other encoders in
\* some of the block sizes.
TransformedFile == enc.methods = <<>> /\ params.block_size \in TransformBlockSizes

\* jtransform_request_workspace: refuses what is not perfect when it is
\* asked to, or a crop region that is not in the image; else decides on the
\* sizes of the destination and of the workspace.
RequestWorkspace ==
  /\ stage = "header" /\ TransformedFile
  /\ \E s \in TransformScales : dec' = CoreOutput([dec EXCEPT !.scale_num = s[1],
                                                             !.scale_denom = s[2]])
  /\ \E o \in Requests :
       LET mcu == SourceMCU(o, dec'.min_DCT_scaled_size)
           full == Uncropped(o, dec', mcu)
           w == TrimmedIf(o.trim /\ o.transform \in KeepRight,
                          Cropped(full.w[1], full.w[2], o.crop_x))
           h == TrimmedIf(o.trim /\ o.transform \in KeepBottom,
                          Cropped(full.h[1], full.h[2], o.crop_y))
           perfect == jtransform_perfect_transform(dec'.output_width, dec'.output_height,
                                                   mcu.h, mcu.v, o.transform)
       IN \/ /\ o.perfect /\ ~perfect
             /\ stage' = "imperfect"
             /\ UNCHANGED <<error, info>>
          \/ /\ o.perfect => perfect
             /\ IF LegalCrop(full.w[1], o.crop_x) /\ LegalCrop(full.h[1], o.crop_y)
                THEN /\ stage' = "workspace"
                     /\ info' = [request |-> o, w |-> w, h |-> h, comp_info |-> <<>>,
                                 workspace |-> need_workspace(o.transform, w, h)]
                     /\ UNCHANGED error
                ELSE Refuse("BAD_CROP_SPEC") /\ UNCHANGED info
  /\ UNCHANGED <<params, enc, image>>

\* The components of the destination: transpose_critical_parameters, and a
\* single component, whose block is an iMCU.
AdjustedComponents(o) ==
  LET comps == params.comp_info
  IN [i \in 1 .. NumComponents(o) |->
        IF NumComponents(o) = 1 THEN [comps[i] EXCEPT !.h = 1, !.v = 1]
        ELSE IF o.transform \in Transposing
        THEN [comps[i] EXCEPT !.h = comps[i].v, !.v = comps[i].h]
        ELSE comps[i]]

\* jpeg_copy_critical_parameters, jtransform_adjust_parameters with
\* transpose_critical_parameters, and what jpeg_write_coefficients computes.
AdjustParameters ==
  /\ stage = "workspace"
  /\ LET o == info.request
         comps == params.comp_info
         size == dec.min_DCT_scaled_size
         adjusted == AdjustedComponents(o)
     IN IF o.force_grayscale /\ ~( /\ Len(comps) \in {1, 3}
                                   /\ comps[1].h = MaxH(comps) /\ comps[1].v = MaxV(comps))
        THEN Refuse("CONVERSION_NOTIMPL") /\ UNCHANGED <<info, enc>>
        ELSE /\ stage' = "adjusted"
             /\ info' = [info EXCEPT !.comp_info = adjusted]
             /\ enc' = [enc EXCEPT
                          !.jpeg_width = info.w.output, !.jpeg_height = info.h.output,
                          !.block_size = size, !.min_DCT_scaled_size = size,
                          !.sized = SizedComponents(adjusted, info.w.output, info.h.output,
                                                    size, size, TRUE)]
             /\ UNCHANGED error
  /\ UNCHANGED <<params, dec, image>>

\* MCU_cols and MCU_rows of the routines, and the crop offset.
Geometry ==
  LET across == MaxH(info.comp_info) * enc.min_DCT_scaled_size
      down == MaxV(info.comp_info) * enc.min_DCT_scaled_size
      turned == info.request.transform \in Transposing
  IN [cols |-> (IF turned THEN dec.output_height ELSE dec.output_width) \div across,
      rows |-> (IF turned THEN dec.output_width ELSE dec.output_height) \div down,
      x |-> info.w.offset, y |-> info.h.offset]

\* The blocks the loops of a routine write: whole strips, and when
\* transposing whole iMCUs across too.
Written(c, s) ==
  (0 .. (IF info.request.transform \in Transposing
         THEN jround_up(s.width_in_blocks, c.h) ELSE s.width_in_blocks) - 1)
  \X (0 .. jround_up(s.height_in_blocks, c.v) - 1)

ExecuteTransform ==
  /\ stage = "adjusted"
  /\ stage' = "transformed"
  /\ \E g \in {Geometry} :
       image' = [i \in DOMAIN info.comp_info |->
                   [p \in Written(info.comp_info[i], enc.sized[i]) |->
                      Moved(info.request.transform, g, info.comp_info[i], p[1], p[2])]]
  /\ UNCHANGED <<error, params, enc, dec, info>>

TNext == \/ Next /\ UNCHANGED <<info, image>>
         \/ RequestWorkspace \/ AdjustParameters \/ ExecuteTransform

TSpec == TInit /\ [][TNext]_tvars

-----------------------------------------------------------------------------
(* Properties. *)

\* Blocks of component i that belong to the destination image.
RealBlocks(i) == (0 .. enc.sized[i].width_in_blocks - 1)
                 \X (0 .. enc.sized[i].height_in_blocks - 1)

\* The transformation routines stay within the arrays, although they never
\* look at their sizes: strips and columns they read are in the decoder's
\* array, padded to whole iMCUs (jinit_d_coef_controller), and what they
\* write, padding included, is in the workspace, or in place.
TransformFits ==
  stage = "transformed" =>
    \A i \in DOMAIN image :
      LET c == info.comp_info[i]
          source == [cols |-> jround_up(dec.sized[i].width_in_blocks, params.comp_info[i].h),
                     rows |-> jround_up(dec.sized[i].height_in_blocks, params.comp_info[i].v)]
          target == IF info.workspace
                    THEN [cols |-> jdiv_round_up(info.w.output, info.w.unit) * c.h,
                          rows |-> jdiv_round_up(info.h.output, info.h.unit) * c.v]
                    ELSE source
      IN \A p \in DOMAIN image[i] :
           LET b == image[i][p]
           IN /\ b.strip.first >= 0
              /\ b.strip.first + b.strip.rows <= source.rows
              /\ b.column \in 0 .. source.cols - 1
              /\ p[1] < target.cols /\ p[2] < target.rows

\* Each transformation as the flips and transpositions it stands for ("h",
\* "v", "t"; comments of do_rot_90, do_rot_270, do_rot_180, do_transverse).
Steps == [none |-> <<>>, flip_h |-> <<"h">>, flip_v |-> <<"v">>, transpose |-> <<"t">>,
          rot_90 |-> <<"t", "h">>, rot_270 |-> <<"h", "t">>, rot_180 |-> <<"v", "h">>,
          transverse |-> <<"v", "h", "t">>]

Undoing == [t \in DOMAIN Steps |->
              CASE t = "rot_90" -> "rot_270" [] t = "rot_270" -> "rot_90" [] OTHER -> t]

\* The signs of a block that is turned by s before it is turned by turned.
Toggle(turned, s) == (turned \ {s}) \cup ({s} \ turned)
Swap(turned) == (IF "h" \in turned THEN {"v"} ELSE {}) \cup (IF "v" \in turned THEN {"h"} ELSE {})
                \cup (turned \ {"h", "v"})

\* From a block's place after a flip or transposition to its place before;
\* a flip leaves partial iMCUs at its edge where they are.
StepBack(s, b) ==
  CASE s = "h" -> IF b.column < b.cols
                  THEN [b EXCEPT !.column = b.cols - 1 - @, !.turned = Toggle(@, "h")] ELSE b
    [] s = "v" -> IF b.row < b.rows
                  THEN [b EXCEPT !.row = b.rows - 1 - @, !.turned = Toggle(@, "v")] ELSE b
    [] s = "t" -> [column |-> b.row, row |-> b.column, cols |-> b.rows, rows |-> b.cols,
                   turned |-> Toggle(Swap(b.turned), "t")]

\* Where the block (x, y) comes from when the flips and transpositions are
\* done one after the other.
Origin(steps, g, c, x, y) ==
  FoldRight(StepBack, steps,
            [column |-> x, row |-> y, cols |-> g.cols * c.h, rows |-> g.rows * c.v,
             turned |-> {}])

\* Every transformation, edges included, is the sequence of flips and
\* transpositions it is described as, and cropping takes a part of the
\* result and changes nothing else (usage.txt:498-501; transupp.h:69-71).
IsItsSequence(g) ==
  \A i \in DOMAIN image :
    LET c == info.comp_info[i]
    IN \A p \in RealBlocks(i) :
         LET from == Origin(Steps[info.request.transform], g, c,
                            p[1] + g.x * c.h, p[2] + g.y * c.v)
             b == image[i][p]
         IN /\ b.column = from.column
            /\ b.strip.row = from.row
            /\ b.turned = from.turned

\* Without cropping and trimming, the inverse transformation of the new
\* file gives back every block of the old one (usage.txt:490-492).
IsReversible(g) ==
  LET o == info.request
      back == Undoing[o.transform]
      turned == o.transform \in Transposing
      gb == IF turned THEN [g EXCEPT !.cols = g.rows, !.rows = g.cols] ELSE g
  IN info.w.output = info.w.full /\ info.h.output = info.h.full =>
       \A i \in DOMAIN image :
         LET c == info.comp_info[i]
             cb == IF turned THEN [c EXCEPT !.h = c.v, !.v = c.h] ELSE c
         IN \A p \in RealBlocks(i) :
              LET q == IF turned THEN <<p[2], p[1]>> ELSE p
                  b == Moved(back, gb, cb, q[1], q[2])
                  a == image[i][<<b.column, b.strip.row>>]
              IN /\ a.column = q[1] /\ a.strip.row = q[2]
                 /\ a.turned = IF turned THEN Swap(b.turned) ELSE b.turned

\* A transformation that was accepted as perfect, or is trimmed, leaves no
\* block behind that had to move; only an image of less than an iMCU across
\* or down cannot be trimmed in that direction (transupp.h:45).
NoBlockKept(g) ==
  \A i \in DOMAIN image : \A p \in RealBlocks(i) :
    LET o == info.request
        c == info.comp_info[i]
    IN /\ o.perfect \/ (o.trim /\ info.w.output >= info.w.unit) =>
            (o.transform \in KeepRight => MirrorableColumn(g, c, p[1]))
       /\ o.perfect \/ (o.trim /\ info.h.output >= info.h.unit) =>
            (o.transform \in KeepBottom => MirrorableRow(g, c, p[2]))

\* What the documentation of the transformations promises holds of every block
\* of the new file, whatever was cropped, trimmed or left in place
\* (jtransform_execute_transform).
TransformRight ==
  stage = "transformed" =>
    \A g \in {Geometry} : IsItsSequence(g) /\ IsReversible(g) /\ NoBlockKept(g)

\* Whoever writes or reads the file finds room for what is in it: the
\* encoder's and the decoder's buffers, and the decoder's array of
\* coefficients when the file is transcoded or transformed.
BuffersFit == EncoderFits /\ DecoderFits /\ TranscodeFits /\ TransformFits
=============================================================================
