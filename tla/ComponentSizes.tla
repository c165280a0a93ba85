--------------------------- MODULE ComponentSizes ---------------------------
(***************************************************************************)
(* How large everything is.  Sampling factors, the block size of the file  *)
(* and a scale decide the size of the image in the file, the size of each  *)
(* component in blocks, the DCT each component is coded and decoded with   *)
(* (an encoder scales chroma down, and a decoder up, in the DCT rather     *)
(* than in the sampling routines when factors allow it), the down- and     *)
(* upsampling routine, and the size of every sample buffer in between.     *)
(* initial_setup and jpeg_calc_jpeg_dimensions (jcmaster.c),               *)
(* jinit_downsampler, start_pass_fdctmgr (jcdctmgr.c); initial_setup and   *)
(* jpeg_core_output_dimensions (jdinput.c), jpeg_calc_output_dimensions    *)
(* (jdmaster.c), jinit_upsampler, start_pass (jddctmgr.c); and the         *)
(* transcoder, which takes sizes from a decoder to an encoder.             *)
(*                                                                         *)
(* An encoder makes a file, or another program did; a decoder opens it and *)
(* asks for sizes as often as the application likes, and either decodes it *)
(* or transcodes it.                                                       *)
(***************************************************************************)
EXTENDS Integers, Sequences, FiniteSetsExt

CONSTANTS
  Images,       \* records [width, height] of the application's images
  Components,   \* sequences of [h, v, q]: sampling factors, quantization table
  BlockSizes,   \* of files
  Scales,       \* pairs <<scale_num, scale_denom>> the encoder is asked for
  Outputs,      \* the same for the decoder
  DctMethods    \* subset of {"islow", "ifast", "float"}

DCTSIZE == 8
MAX_SAMP_FACTOR == 4
NUM_QUANT_TBLS == 4

ASSUME SizesAssumption ==
  /\ BlockSizes \subseteq 1 .. 16
  /\ \A i \in Images : {i.width, i.height} \subseteq 1 .. 2^24 - 1
  /\ Components \subseteq
       Seq([h : 1 .. MAX_SAMP_FACTOR, v : 1 .. MAX_SAMP_FACTOR, q : 0 .. NUM_QUANT_TBLS - 1])
         \ {<<>>}

VARIABLES
  stage,      \* "params", "encoder", "downsampler", "file", "foreign",
              \* "header", "dimensions", "upsampler", "decoder", "transcoded", "error"
  error,      \* the ERREXIT that ended it, or "none"
  params,     \* what the application sets
  enc,        \* sizes of the compression object
  dec         \* sizes of the decompression object

vars == <<stage, error, params, enc, dec>>

-----------------------------------------------------------------------------
(* Shared arithmetic. *)

jdiv_round_up(a, b) == (a + b - 1) \div b
jround_up(a, b) == jdiv_round_up(a, b) * b

\* max_h_samp_factor and max_v_samp_factor
MaxH(comps) == Max({comps[i].h : i \in DOMAIN comps})
MaxV(comps) == Max({comps[i].v : i \in DOMAIN comps})

\* Seeded fault: the size doubles while the block is not over DCTSIZE afterwards,
\* whatever the sampling factor.
ScaledWhileSmall(size, fancy, max, samp) ==
  LET grow[s \in {1, 2, 4, 8, 16}] ==
        IF size * s <= (IF fancy THEN DCTSIZE ELSE DCTSIZE \div 2) /\ max >= samp * s * 2
        THEN grow[s * 2] ELSE size * s
  IN grow[1]

\* The loop both masters have: the DCT grows by powers of two while it is
\* not larger than DCTSIZE and the sampling ratio is a multiple of it.
ScaledSize(size, fancy, max, samp) ==
  LET grow[s \in {1, 2, 4, 8, 16}] ==
        IF /\ size * s <= (IF fancy THEN DCTSIZE ELSE DCTSIZE \div 2)
           /\ max % (samp * s * 2) = 0
        THEN grow[s * 2] ELSE size * s
  IN grow[1]

\* DCT_h_scaled_size and DCT_v_scaled_size of a component; one is at most
\* twice the other.
DctSizes(c, size, fancy, maxh, maxv) ==
  LET h == ScaledSize(size, fancy, maxh, c.h)
      v == ScaledSize(size, fancy, maxv, c.v)
  IN [h |-> Min({h, v * 2}), v |-> Min({v, h * 2})]

\* Size of a component in blocks.
Blocks(length, samp, max, block_size) == jdiv_round_up(length * samp, max * block_size)

\* The fields of each component: its DCT, its size in blocks and in samples.
SizedComponents(comps, width, height, block_size, size, fancy) ==
  LET maxh == MaxH(comps)
      maxv == MaxV(comps)
  IN [i \in DOMAIN comps |->
        LET c == comps[i]
            dct == DctSizes(c, size, fancy, maxh, maxv)
        IN [DCT_h_scaled_size |-> dct.h,
            DCT_v_scaled_size |-> dct.v,
            width_in_blocks |-> Blocks(width, c.h, maxh, block_size),
            height_in_blocks |-> Blocks(height, c.v, maxv, block_size),
            downsampled_width |-> jdiv_round_up(width * c.h * dct.h, maxh * block_size),
            downsampled_height |-> jdiv_round_up(height * c.v * dct.v, maxv * block_size)]]

\* Samples of a component that stand for max_h x max_v pixels.
Group(c, sized, size) ==
  [h |-> (c.h * sized.DCT_h_scaled_size) \div size,
   v |-> (c.v * sized.DCT_v_scaled_size) \div size]

\* The routine that takes a group of pixels to a group of samples, or back:
\* by how much it shrinks or expands in each direction.
SamplingRoutine(group, maxh, maxv) ==
  CASE maxh = group.h /\ maxv = group.v -> [name |-> "fullsize", h |-> 1, v |-> 1]
    [] maxh = group.h * 2 /\ maxv = group.v -> [name |-> "h2v1", h |-> 2, v |-> 1]
    [] maxh = group.h * 2 /\ maxv = group.v * 2 -> [name |-> "h2v2", h |-> 2, v |-> 2]
    [] OTHER ->
         IF maxh % group.h = 0 /\ maxv % group.v = 0
         THEN [name |-> "int", h |-> maxh \div group.h, v |-> maxv \div group.v]
         ELSE [name |-> "fractional", h |-> 0, v |-> 0]

\* The sizes that have a routine in jfdctint.c and jidctint.c.
Supported(h, v) == /\ h \in 1 .. 16 /\ v \in 1 .. 16
                   /\ h = v \/ h = 2 * v \/ v = 2 * h

\* The method a block of this size is transformed with.
MethodFor(sized, dct_method) ==
  IF sized.DCT_h_scaled_size = DCTSIZE /\ sized.DCT_v_scaled_size = DCTSIZE
  THEN dct_method ELSE "islow"

Fail(code) == stage' = "error" /\ error' = code

-----------------------------------------------------------------------------
Nothing == [min_DCT_scaled_size |-> 0]

Init ==
  /\ stage = "params" /\ error = "none"
  /\ enc = Nothing /\ dec = Nothing
  /\ \E image \in Images, comps \in Components, b \in BlockSizes, s \in Scales,
        fancy \in BOOLEAN, m \in DctMethods :
       params = [image |-> image, comp_info |-> comps, block_size |-> b,
                 scale_num |-> s[1], scale_denom |-> s[2],
                 do_fancy_downsampling |-> fancy, dct_method |-> m]

\* jpeg_calc_jpeg_dimensions: the smallest DCT that scales by no more than
\* scale_num/scale_denom, or 16.
EncoderScale(p) ==
  Min({d \in 1 .. 16 : p.scale_num * d >= p.scale_denom * p.block_size} \cup {16})

\* initial_setup of jcmaster.c, for sizes that come from the application.
InitialSetup ==
  /\ stage = "params"
  /\ LET size == EncoderScale(params)
         width == jdiv_round_up(params.image.width * params.block_size, size)
         height == jdiv_round_up(params.image.height * params.block_size, size)
     IN /\ stage' = "encoder"
        /\ enc' = [jpeg_width |-> width, jpeg_height |-> height,
                   block_size |-> params.block_size, min_DCT_scaled_size |-> size,
                   sized |-> SizedComponents(params.comp_info, width, height,
                               params.block_size, size, params.do_fancy_downsampling),
                   methods |-> <<>>, do_dct |-> <<>>, divisors |-> <<>>,
                   float_divisors |-> <<>>]
  /\ UNCHANGED <<error, params, dec>>

\* jinit_downsampler
InitDownsampler ==
  /\ stage = "encoder"
  /\ LET comps == params.comp_info
         method(i) == SamplingRoutine(
                        Group(comps[i], enc.sized[i], enc.min_DCT_scaled_size),
                        MaxH(comps), MaxV(comps))
         methods == [i \in DOMAIN comps |-> method(i)]
     IN IF \E i \in DOMAIN comps : methods[i].name = "fractional"
        THEN Fail("FRACT_SAMPLE_NOTIMPL") /\ UNCHANGED enc
        ELSE /\ stage' = "downsampler"
             /\ enc' = [enc EXCEPT !.methods = methods]
             /\ UNCHANGED error
  /\ UNCHANGED <<params, dec>>

\* start_pass_fdctmgr: component after component chooses its routine and
\* builds the divisors of its quantization table for it.  The integer
\* methods share an array; a table that was built is built again.
StartForward ==
  /\ stage = "downsampler"
  /\ LET comps == params.comp_info
         size(i) == <<enc.sized[i].DCT_h_scaled_size, enc.sized[i].DCT_v_scaled_size>>
         do_dct == [i \in DOMAIN comps |-> MethodFor(enc.sized[i], params.dct_method)]
         users(q, m) == {i \in DOMAIN comps : comps[i].q = q /\ do_dct[i] \in m}
         tables(m) == {comps[i].q : i \in {j \in DOMAIN comps : do_dct[j] \in m}}
         built(m) == [q \in tables(m) |-> do_dct[Max(users(q, m))]]
     IN IF \E i \in DOMAIN comps : ~Supported(size(i)[1], size(i)[2])
        THEN Fail("BAD_DCTSIZE") /\ UNCHANGED enc
        ELSE /\ stage' = "file"
             /\ enc' = [enc EXCEPT !.do_dct = do_dct,
                          !.divisors = built({"islow", "ifast"}),
                          !.float_divisors = built({"float"})]
             /\ UNCHANGED error
  /\ UNCHANGED <<params, dec>>

-----------------------------------------------------------------------------
(* The decoder. *)

\* A file some other encoder made: only its sizes in blocks are given, by
\* the standard, and its sampling factors may be any.
ForeignFile ==
  /\ stage = "params"
  /\ stage' = "foreign"
  /\ params' = [params EXCEPT !.scale_num = 1, !.scale_denom = 1,
                              !.do_fancy_downsampling = TRUE, !.dct_method = "islow"]
  /\ enc' = [jpeg_width |-> params.image.width, jpeg_height |-> params.image.height,
             block_size |-> params.block_size, min_DCT_scaled_size |-> params.block_size,
             sized |-> SizedComponents(params.comp_info, params.image.width,
                         params.image.height, params.block_size, params.block_size, TRUE),
             methods |-> <<>>, do_dct |-> <<>>, divisors |-> <<>>, float_divisors |-> <<>>]
  /\ UNCHANGED <<error, dec>>

\* initial_setup of jdinput.c, and default_decompress_parms.
ReadHeader ==
  /\ stage \in {"file", "foreign"}
  /\ stage' = "header"
  /\ LET b == enc.block_size
     IN dec' = [image_width |-> enc.jpeg_width, image_height |-> enc.jpeg_height,
                block_size |-> b, scale_num |-> b, scale_denom |-> b, fancy |-> TRUE,
                min_DCT_scaled_size |-> b,
                output_width |-> 0, output_height |-> 0,
                sized |->
                  [i \in DOMAIN params.comp_info |->
                     LET c == params.comp_info[i]
                         maxh == MaxH(params.comp_info)
                         maxv == MaxV(params.comp_info)
                     IN [DCT_h_scaled_size |-> b,
                         DCT_v_scaled_size |-> b,
                         width_in_blocks |-> Blocks(enc.jpeg_width, c.h, maxh, b),
                         height_in_blocks |-> Blocks(enc.jpeg_height, c.v, maxv, b),
                         downsampled_width |-> jdiv_round_up(enc.jpeg_width * c.h, maxh),
                         downsampled_height |-> jdiv_round_up(enc.jpeg_height * c.v, maxv)]],
                methods |-> <<>>, merged |-> FALSE]
  /\ UNCHANGED <<error, params, enc>>

\* jpeg_core_output_dimensions: the smallest DCT that scales by at least
\* scale_num/scale_denom, or 16.
CoreOutput(d) ==
  LET size == Min({k \in 1 .. 16 : d.scale_num * d.block_size <= d.scale_denom * k} \cup {16})
  IN [d EXCEPT !.min_DCT_scaled_size = size,
               !.output_width = jdiv_round_up(d.image_width * size, d.block_size),
               !.output_height = jdiv_round_up(d.image_height * size, d.block_size)]

\* Seeded fault: however the IDCTs are scaled.
MergedAtAnyScale(comps, d) ==
  /\ ~d.fancy
  /\ Len(comps) = 3
  /\ comps[1].h = 2 /\ comps[2].h = 1 /\ comps[3].h = 1
  /\ comps[1].v <= 2 /\ comps[2].v = 1 /\ comps[3].v = 1

\* use_merged_upsample, for a YCbCr file decoded to RGB.
use_merged_upsample(comps, d) ==
  /\ ~d.fancy
  /\ Len(comps) = 3
  /\ comps[1].h = 2 /\ comps[2].h = 1 /\ comps[3].h = 1
  /\ comps[1].v <= 2 /\ comps[2].v = 1 /\ comps[3].v = 1
  /\ \A i \in 1 .. 3 : /\ d.sized[i].DCT_h_scaled_size = d.min_DCT_scaled_size
                       /\ d.sized[i].DCT_v_scaled_size = d.min_DCT_scaled_size

\* jpeg_calc_output_dimensions, called as often as the application likes,
\* with the scale and do_fancy_upsampling it has set.
CalcOutputDimensions ==
  /\ stage \in {"header", "dimensions"}
  /\ stage' = "dimensions"
  /\ \E s \in Outputs, fancy \in BOOLEAN :
       LET asked == CoreOutput([dec EXCEPT !.scale_num = s[1], !.fancy = fancy,
                                           !.scale_denom = s[2]])
           resized == SizedComponents(params.comp_info, dec.image_width, dec.image_height,
                        dec.block_size, asked.min_DCT_scaled_size, fancy)
           sized == [i \in DOMAIN resized |->
                       [resized[i] EXCEPT !.width_in_blocks = dec.sized[i].width_in_blocks,
                                          !.height_in_blocks = dec.sized[i].height_in_blocks]]
           done == [asked EXCEPT !.sized = sized]
       IN dec' = [done EXCEPT !.merged = use_merged_upsample(params.comp_info, done)]
  /\ UNCHANGED <<error, params, enc>>

\* jinit_upsampler or jinit_merged_upsampler (as master_selection chooses)
InitUpsampler ==
  /\ stage = "dimensions"
  /\ LET comps == params.comp_info
         routine(i) == SamplingRoutine(
                         Group(comps[i], dec.sized[i], dec.min_DCT_scaled_size),
                         MaxH(comps), MaxV(comps))
         methods == [i \in DOMAIN comps |-> routine(i)]
     IN IF ~dec.merged /\ \E i \in DOMAIN comps : methods[i].name = "fractional"
        THEN Fail("FRACT_SAMPLE_NOTIMPL") /\ UNCHANGED dec
        ELSE /\ stage' = "upsampler"
             /\ dec' = [dec EXCEPT !.methods = methods]
             /\ UNCHANGED error
  /\ UNCHANGED <<params, enc>>

\* start_pass of jddctmgr.c; its multiplier tables belong to components.
StartInverse ==
  /\ stage = "upsampler"
  /\ IF \E i \in DOMAIN params.comp_info :
          ~Supported(dec.sized[i].DCT_h_scaled_size, dec.sized[i].DCT_v_scaled_size)
     THEN Fail("BAD_DCTSIZE")
     ELSE stage' = "decoder" /\ UNCHANGED error
  /\ UNCHANGED <<params, enc, dec>>

\* Transcoding without decoding: jpeg_read_coefficients computes the sizes
\* with jpeg_core_output_dimensions alone, jpeg_copy_critical_parameters
\* takes them over, and jpeg_calc_trans_dimensions makes the DCT size of the
\* source the block size of the new file.
Transcode ==
  /\ stage = "header"
  /\ stage' = "transcoded"
  /\ \E s \in Outputs :
       LET core == CoreOutput([dec EXCEPT !.scale_num = s[1],
                                          !.scale_denom = s[2]])
           size == core.min_DCT_scaled_size
       IN /\ dec' = [core EXCEPT !.sized = [i \in DOMAIN @ |->
                       [@[i] EXCEPT !.DCT_h_scaled_size = size, !.DCT_v_scaled_size = size]]]
          /\ enc' = [enc EXCEPT
                       !.jpeg_width = core.output_width, !.jpeg_height = core.output_height,
                       !.block_size = size, !.min_DCT_scaled_size = size,
                       !.sized = SizedComponents(params.comp_info, core.output_width,
                                   core.output_height, size, size, TRUE)]
  /\ UNCHANGED <<error, params>>

Next == \/ InitialSetup \/ InitDownsampler \/ StartForward
        \/ ForeignFile \/ ReadHeader \/ CalcOutputDimensions \/ InitUpsampler \/ StartInverse
        \/ Transcode

Spec == Init /\ [][Next]_vars

-----------------------------------------------------------------------------
(* Properties. *)

Integral(comps) == \A i \in DOMAIN comps : /\ MaxH(comps) % comps[i].h = 0
                                           /\ MaxV(comps) % comps[i].v = 0

\* Scaling in the DCT never makes legal sampling factors illegal: whatever
\* the block size, the scales of the encoder and the decoder and the fancy
\* flags, every component gets a DCT that exists and a sampling routine
\* with whole factors, unless its sampling factors do not divide those of
\* the image ("Note this code adapts subsampling ratios which are powers of
\* 2", "We don't support DCT ratios larger than 2").
IntegralFactorsWork ==
  stage = "error" => error = "FRACT_SAMPLE_NOTIMPL" /\ ~Integral(params.comp_info)

\* The width of the rows the preprocessor gives a component's downsampler
\* (create_context_buffer and jinit_c_prep_controller).
PrepWidth(i) ==
  LET comps == params.comp_info
  IN (enc.sized[i].width_in_blocks * enc.min_DCT_scaled_size * MaxH(comps)) \div comps[i].h

\* In the encoder every row fits where it is put: an image row into the
\* preprocessor's buffer, what the downsampler reads (whole blocks times
\* its factor) into the same buffer, and its output into whole blocks; and
\* no block lies entirely outside the samples.  Down as across, a row group
\* fills v_samp_factor rows of blocks with max_v_samp_factor *
\* min_DCT_v_scaled_size lines.
EncoderFits ==
  stage = "file" =>
    \A i \in DOMAIN params.comp_info :
      LET c == params.comp_info[i]
          s == enc.sized[i]
      IN /\ params.image.width <= PrepWidth(i)
         /\ s.width_in_blocks * s.DCT_h_scaled_size * enc.methods[i].h = PrepWidth(i)
         /\ c.v * s.DCT_v_scaled_size * enc.methods[i].v
              = MaxV(params.comp_info) * enc.min_DCT_scaled_size
         /\ s.downsampled_width <= s.width_in_blocks * s.DCT_h_scaled_size
         /\ s.downsampled_width > (s.width_in_blocks - 1) * s.DCT_h_scaled_size
         /\ s.downsampled_height <= s.height_in_blocks * s.DCT_v_scaled_size
         /\ s.downsampled_height > (s.height_in_blocks - 1) * s.DCT_v_scaled_size

\* The smoothing downsamplers take the first and the last column apart from the
\* output_cols - 2 others (jcsample.c:359 and 449): a component that may be
\* smoothed has two columns.
SmoothedHasColumns ==
  stage = "file" =>
    \A i \in DOMAIN params.comp_info :
      enc.methods[i].name \in {"fullsize", "h2v2"} =>
        enc.sized[i].width_in_blocks * enc.sized[i].DCT_h_scaled_size >= 2

\* In the decoder as well: the samples of whole blocks are enough for the
\* output row, the expanded row fits the upsampler's buffer, the merged
\* upsampler gets components of its own factors only, and the decoder finds
\* as many blocks in the file as the encoder put there.
DecoderFits ==
  stage = "decoder" =>
    LET comps == params.comp_info
    IN \A i \in DOMAIN comps :
         LET s == dec.sized[i]
             m == dec.methods[i]
             consumed == jdiv_round_up(dec.output_width, m.h)
         IN /\ consumed <= s.downsampled_width
            /\ s.downsampled_width <= s.width_in_blocks * s.DCT_h_scaled_size
            /\ m.name = "fullsize"
                 \/ consumed * m.h <= jround_up(dec.output_width, MaxH(comps))
            /\ jdiv_round_up(dec.output_height, m.v) <= s.downsampled_height
            /\ dec.merged => m.name = IF i = 1 THEN "fullsize"
                                      ELSE IF MaxV(comps) = 2 THEN "h2v2" ELSE "h2v1"
            /\ s.width_in_blocks = enc.sized[i].width_in_blocks
            /\ s.height_in_blocks = enc.sized[i].height_in_blocks

\* jpegtran's rescaling: the new file has as many MCUs as the old one, and
\* each of its blocks has a place in the source's array of blocks, which is
\* padded to whole MCUs; that holds for fractional sampling factors too,
\* for which the number of blocks may differ.
TranscodeFits ==
  stage = "transcoded" =>
    LET comps == params.comp_info
    IN /\ jdiv_round_up(enc.jpeg_width, MaxH(comps) * enc.block_size)
            = jdiv_round_up(dec.image_width, MaxH(comps) * dec.block_size)
       /\ \A i \in DOMAIN comps :
            /\ enc.sized[i].width_in_blocks
                 <= jround_up(dec.sized[i].width_in_blocks, comps[i].h)
            /\ enc.sized[i].height_in_blocks
                 <= jround_up(dec.sized[i].height_in_blocks, comps[i].v)

\* Every component is quantized by divisors built for the method that
\* transforms it.
DivisorsFit ==
  stage = "file" =>
    \A i \in DOMAIN params.comp_info :
      LET q == params.comp_info[i].q
          table == IF enc.do_dct[i] = "float" THEN enc.float_divisors ELSE enc.divisors
      IN table[q] = enc.do_dct[i]
=============================================================================
