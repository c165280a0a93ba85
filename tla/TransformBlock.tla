--------------------------- MODULE TransformBlock ---------------------------
(***************************************************************************)
(* One block on its way through the encoder's and the decoder's transform: *)
(* forward_DCT (jcdctmgr.c) runs the row and the column pass of the        *)
(* routine chosen for the component and divides by the quantization table; *)
(* the decoder multiplies by its table, runs the column and the row pass   *)
(* of its routine and limits the result to the range of a sample.  A block *)
(* starts as samples (the whole way) or as coefficients (the decoder's     *)
(* half, for a file made elsewhere).                                       *)
(*                                                                         *)
(* The transforms are linear up to rounding, so blocks with one sample off *)
(* the grey level, or with one coefficient, examine every constant, sign   *)
(* and shift of every pass.                                                *)
(***************************************************************************)
EXTENDS ForwardDct, InverseDct, FiniteSets
Fast == INSTANCE FastDct

CONSTANTS
  Forward,   \* the forward routines examined: a set of pairs <<width, height>>
  Inverse,   \* the inverse routines examined
  Samples,   \* the values of the one sample that is not grey
  Grey,      \* the values of blocks whose samples are all equal
  Quants,    \* the quantization values, the same for all coefficients
  Levels     \* the dequantized values of the one coefficient of a block

VARIABLES
  stage,     \* "samples", "rows", "dct", "coefs", "columns", "out"
  method,    \* "islow" or "ifast", cinfo->dct_method
  fwd,       \* the block size of the forward routine; <<0, 0>>: none
  inv,       \* the block size of the inverse routine
  samples,   \* sample_data
  rows,      \* data[] between the passes of the forward routine
  data,      \* the workspace of forward_DCT
  quant,     \* the quantization value
  coefs,     \* the coefficients as the file carries them
  workspace, \* the array between the passes of the inverse routine
  out        \* output_buf

vars == <<stage, method, fwd, inv, samples, rows, data, quant, coefs, workspace, out>>

\* The routines by the size of their block (the switch of
\* start_pass_fdctmgr and of start_pass).
ForwardRoutines ==
  {jpeg_fdct_islow, jpeg_fdct_7x7, jpeg_fdct_6x6, jpeg_fdct_5x5, jpeg_fdct_4x4,
   jpeg_fdct_3x3, jpeg_fdct_2x2, jpeg_fdct_1x1, jpeg_fdct_9x9, jpeg_fdct_10x10,
   jpeg_fdct_11x11, jpeg_fdct_12x12, jpeg_fdct_13x13, jpeg_fdct_14x14,
   jpeg_fdct_15x15, jpeg_fdct_16x16, jpeg_fdct_16x8, jpeg_fdct_14x7,
   jpeg_fdct_12x6, jpeg_fdct_10x5, jpeg_fdct_8x4, jpeg_fdct_6x3, jpeg_fdct_4x2,
   jpeg_fdct_2x1, jpeg_fdct_8x16, jpeg_fdct_7x14, jpeg_fdct_6x12, jpeg_fdct_5x10,
   jpeg_fdct_4x8, jpeg_fdct_3x6, jpeg_fdct_2x4, jpeg_fdct_1x2}

InverseRoutines ==
  {jpeg_idct_islow, jpeg_idct_7x7, jpeg_idct_6x6, jpeg_idct_5x5, jpeg_idct_4x4,
   jpeg_idct_3x3, jpeg_idct_2x2, jpeg_idct_1x1, jpeg_idct_9x9, jpeg_idct_10x10,
   jpeg_idct_11x11, jpeg_idct_12x12, jpeg_idct_13x13, jpeg_idct_14x14,
   jpeg_idct_15x15, jpeg_idct_16x16, jpeg_idct_16x8, jpeg_idct_14x7,
   jpeg_idct_12x6, jpeg_idct_10x5, jpeg_idct_8x4, jpeg_idct_6x3, jpeg_idct_4x2,
   jpeg_idct_2x1, jpeg_idct_8x16, jpeg_idct_7x14, jpeg_idct_6x12, jpeg_idct_5x10,
   jpeg_idct_4x8, jpeg_idct_3x6, jpeg_idct_2x4, jpeg_idct_1x2}

RoutineFor(size, routines) ==
  CHOOSE r \in routines : r.width = size[1] /\ r.height = size[2]

\* The divisors of a component: the quantization values times eight, and
\* times the scale factors of the fast DCT (start_pass_fdctmgr).
Divisor(v, u) == IF method = "islow" THEN quant * 8
                 ELSE DESCALE(quant * Fast!AanScale(v, u), 14 - 3)

\* The multipliers of a component (start_pass of jddctmgr.c).
Multiplier(v, u) == IF method = "islow" THEN quant
                    ELSE DESCALE(quant * Fast!AanScale(v, u), 14 - Fast!IFAST_SCALE_BITS)

-----------------------------------------------------------------------------
Block(w, h, f(_, _)) == [y \in 0 .. h - 1 |-> [x \in 0 .. w - 1 |-> f(y, x)]]

\* Blocks of one sample value s at (y0, x0), and grey elsewhere.
OneSample(w, h, y0, x0, s) ==
  LET f(y, x) == IF y = y0 /\ x = x0 THEN s ELSE CENTERJSAMPLE IN Block(w, h, f)

OneCoefficient(v0, u0, c) ==
  LET f(v, u) == IF v = v0 /\ u = u0 THEN c ELSE 0 IN Block(DCTSIZE, DCTSIZE, f)

\* The samples that drive the sums furthest.
Checkerboard(w, h) ==
  LET f(y, x) == IF (x + y) % 2 = 0 THEN MAXJSAMPLE ELSE 0 IN Block(w, h, f)

\* Positions that visit every row and every column.
Diagonal(w, h) ==
  IF w >= h THEN {<<(x * h) \div w, x>> : x \in 0 .. w - 1}
  ELSE {<<y, (y * w) \div h>> : y \in 0 .. h - 1}

Corners == {<<v, u>> \in (0 .. 7) \X (0 .. 7) : v = u \/ v + u = 7}

None == [y \in {} |-> 0]

Init ==
  /\ rows = None /\ data = None /\ workspace = None /\ out = None
  /\ quant \in Quants
  /\ method \in {"islow", "ifast"}
  /\ \/ /\ stage = "samples"
        /\ fwd \in Forward
        /\ method = "ifast" => fwd = <<8, 8>>
        /\ inv = fwd
        /\ coefs = None
        /\ LET w == fwd[1]
               h == fwd[2]
           IN \/ \E p \in Diagonal(w, h), s \in Samples :
                   samples = OneSample(w, h, p[1], p[2], s)
              \/ \E g \in Grey : LET f(y, x) == g IN samples = Block(w, h, f)
              \/ samples = Checkerboard(w, h)
        /\ quant = 1 \/ fwd = <<8, 8>>  \* the divisors are the same for every size
     \/ /\ stage = "coefs"
        /\ fwd = <<0, 0>>
        /\ samples = None
        /\ inv \in Inverse
        /\ method = "ifast" => inv = <<8, 8>>
        /\ quant = 1 \/ inv = <<8, 8>>
        /\ \E p \in Corners, c \in Levels : coefs = OneCoefficient(p[1], p[2], c \div quant)

\* The first pass of the forward routine.
RowPass ==
  /\ stage = "samples"
  /\ stage' = "rows"
  /\ rows' = IF method = "ifast" THEN Fast!FastForwardRows(samples)
             ELSE ForwardRows(RoutineFor(fwd, ForwardRoutines), samples)
  /\ UNCHANGED <<method, fwd, inv, samples, data, quant, coefs, workspace, out>>

ColumnPass ==
  /\ stage = "rows"
  /\ stage' = "dct"
  /\ data' = IF method = "ifast" THEN Fast!FastForwardColumns(rows)
             ELSE ForwardColumns(RoutineFor(fwd, ForwardRoutines), rows)
  /\ UNCHANGED <<method, fwd, inv, samples, rows, quant, coefs, workspace, out>>

\* Seeded fault: the fudge added to the signed value.
QuantizedSigned(temp, qval) ==
  LET shifted == temp + qval \div 2
      magnitude == IF shifted < 0 THEN -shifted ELSE shifted
      quotient == magnitude \div qval
  IN IF shifted < 0 THEN -quotient ELSE quotient

\* The quantization loop of forward_DCT: the division rounds the magnitude
\* to the nearest integer, half away from zero, and skips the division when
\* the result is zero.
Quantized(temp, qval) ==
  LET magnitude == (IF temp < 0 THEN -temp ELSE temp) + qval \div 2
      quotient == IF magnitude >= qval THEN magnitude \div qval ELSE 0
  IN IF temp < 0 THEN -quotient ELSE quotient

Quantize ==
  /\ stage = "dct"
  /\ stage' = "coefs"
  /\ LET f(v, u) == Quantized(data[v][u], Divisor(v, u))
     IN coefs' = Block(DCTSIZE, DCTSIZE, f)
  /\ UNCHANGED <<method, fwd, inv, samples, rows, data, quant, workspace, out>>

\* Dequantization and the first pass of the inverse routine.
InverseColumnPass ==
  /\ stage = "coefs"
  /\ stage' = "columns"
  /\ LET f(v, u) == coefs[v][u] * Multiplier(v, u)
         block == Block(DCTSIZE, DCTSIZE, f)
     IN workspace' = IF method = "ifast" THEN Fast!FastInverseColumns(block)
                     ELSE InverseColumns(RoutineFor(inv, InverseRoutines), block)
  /\ UNCHANGED <<method, fwd, inv, samples, rows, data, quant, coefs, out>>

\* The second pass and the range limit.
InverseRowPass ==
  /\ stage = "columns"
  /\ stage' = "out"
  /\ LET raw == IF method = "ifast" THEN Fast!FastInverseRows(workspace)
                ELSE InverseRows(RoutineFor(inv, InverseRoutines), workspace)
         f(y, x) == range_limit(raw[y][x])
     IN out' = Block(inv[1], inv[2], f)
  /\ UNCHANGED <<method, fwd, inv, samples, rows, data, quant, coefs, workspace>>

Next == RowPass \/ ColumnPass \/ Quantize \/ InverseColumnPass \/ InverseRowPass

Spec == Init /\ [][Next]_vars

-----------------------------------------------------------------------------
(* Properties. *)

Magnitude(a) == IF a < 0 THEN -a ELSE a

Sum2(w, h, f(_, _)) ==
  LET row[x \in 0 .. w, y \in 0 .. h - 1] == IF x = 0 THEN 0 ELSE row[x - 1, y] + f(y, x - 1)
      all[y \in 0 .. h] == IF y = 0 THEN 0 ELSE all[y - 1] + row[w, y - 1]
  IN all[h]

\* Eight times coefficient (v, u) of the DCT of the block, taken from its
\* definition: the sum of the samples weighted with the cosines, scaled for
\* the size of the block.
TrueCoefficient(v, u) ==
  LET w == fwd[1]
      h == fwd[2]
      term(y, x) == (samples[y][x] - CENTERJSAMPLE) * Basis2(v, u, y, x, h, w)
      scaled(y, x) == Round(term(y, x), 256)
  IN Round(Sum2(w, h, scaled) * 64, w * h * 32)

\* The forward routine of every block size computes the DCT of the samples,
\* scaled for the size of the block, as the comments of jfdctint.c say of
\* its constants ("cK represents sqrt(2) * cos(K*pi/32)") and of its
\* results ("We must also scale the output by (8/16)*(8/8)").
ForwardIsTheDct ==
  stage = "dct" =>
    \A v, u \in 0 .. DCTSIZE - 1 :
      IF u >= fwd[1] \/ v >= fwd[2] THEN data[v][u] = 0
      ELSE LET ideal == TrueCoefficient(v, u)
           IN IF method = "islow" THEN Magnitude(data[v][u] - ideal) <= 4
              ELSE Magnitude(data[v][u] * 2^11 - Round(ideal * Fast!AanScale(v, u), 8)) <= 12 * 2^11

\* Quantization rounds to the nearest multiple of the divisor, of either
\* sign alike: what the file carries is never more than half a divisor off.
QuantizedToNearest ==
  (stage = "coefs" /\ fwd # <<0, 0>>) =>
    \A v, u \in 0 .. DCTSIZE - 1 :
      2 * Magnitude(coefs[v][u] * Divisor(v, u) - data[v][u]) <= Divisor(v, u)

\* Eight times the coefficient (v, u) that the inverse routine is given; the
\* table of the fast routine holds it with the scale factor and rounded.
Dequantized(v, u) ==
  IF method = "islow" THEN coefs[v][u] * quant * 8
  ELSE Round(coefs[v][u] * Multiplier(v, u) * 2^15, Fast!AanScale(v, u))

\* The sample at (y, x) that the coefficients stand for, times 2^10.
TrueSample(y, x) ==
  LET cosine(v, u) == IF u < inv[1] /\ v < inv[2] /\ coefs[v][u] # 0
                      THEN Dequantized(v, u) * Basis2(v, u, y, x, inv[2], inv[1]) ELSE 0
  IN Sum2(DCTSIZE, DCTSIZE, cosine) \div 512

Clamp(a) == IF a < 0 THEN 0 ELSE IF a > MAXJSAMPLE THEN MAXJSAMPLE ELSE a

\* The inverse routine of every block size gives each sample the value the
\* coefficients stand for, off by at most one, clamped to 0..MAXJSAMPLE at
\* both ends by the table, not wrapped by the mask.
InverseIsTheDct ==
  (stage = "out" /\ fwd = <<0, 0>>) =>
    \A y \in 0 .. inv[2] - 1, x \in 0 .. inv[1] - 1 :
      LET ideal == Round(TrueSample(y, x), 2^10) + CENTERJSAMPLE
          near == IF method = "islow" THEN 1 ELSE 3
      IN Magnitude(out[y][x] - Clamp(ideal)) <= near

\* With quantization values of one, what the encoder writes decodes to the
\* samples it was given, off by at most two; blocks wider or taller than 8
\* keep no more than 64 values of their samples, so of those only a grey
\* block is kept.  A grey block is kept exactly, whatever its size.
RoundTrip ==
  (stage = "out" /\ fwd # <<0, 0>> /\ quant = 1 /\ method = "islow") =>
    LET grey == \A y \in DOMAIN samples : \A x \in DOMAIN samples[y] :
                  samples[y][x] = samples[0][0]
    IN (grey \/ (fwd[1] <= 8 /\ fwd[2] <= 8)) =>
         \A y \in DOMAIN samples : \A x \in DOMAIN samples[y] :
           Magnitude(out[y][x] - samples[y][x]) <= (IF grey THEN 0 ELSE 2)

\* A block comes through quantization and back with no more lost than the
\* divisors take (forward_DCT in jcdctmgr.c, start_pass in jddctmgr.c).
BlockSurvives == QuantizedToNearest /\ RoundTrip
=============================================================================
