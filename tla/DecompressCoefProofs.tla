------------------------- MODULE DecompressCoefProofs -------------------------
(***************************************************************************)
(* Theorems about DecompressCoef, for images of any size, any sampling     *)
(* factors and block size, any legal sequence of scans, and a suspension   *)
(* before any MCU.                                                         *)
(***************************************************************************)
EXTENDS DecompressCoef, NumberLemmas, FiniteSetTheorems, TLAPS

-------------------------------------------------------------------------------
(* The inductive invariant                                                 *)

\* MCU rows of the scan in an iMCU row that is not the last.
RowsPerIMCU == IF Interleaved THEN 1 ELSE image.v[Comps[1]]

\* The MCUs of the scan that the entropy decoder has delivered.
Reached ==
  IF consume_input = "data"
  THEN (input_iMCU_row * RowsPerIMCU + MCU_vert_offset) * MCUs_per_row + MCU_ctr
  ELSE MCUs_per_row * MCU_rows_in_scan

\* The MCU of the scan that has a block.
MCUNumber(c, row, col) ==
  (row \div MCU_height(c)) * MCUs_per_row + col \div MCU_width(c)

CoefBlock == [scan : Nat, num : Int]

\* Of what kind the counters are.
Counters ==
  /\ image \in Images
  /\ error \in {"none", "NO_QUANT_TABLE", "EOI_EXPECTED"}
  /\ consume_input \in {"markers", "data", "EOI"}
  /\ input_scan_number \in 0 .. Len(image.scans)
  /\ input_iMCU_row \in 0 .. total_iMCU_rows
  /\ MCU_vert_offset \in Nat /\ MCU_ctr \in Nat /\ decoded \in Nat
  /\ output_scan_number \in 0 .. MaxTarget
  /\ output_iMCU_row \in 0 .. total_iMCU_rows
  /\ decompress_data \in {"none", "onepass", "data", "smooth"}
  /\ emitted \in BOOLEAN

\* Within a scan the counters stand at an MCU of it; a file that is not buffered
\* has one scan.
InputPlace ==
  /\ input_scan_number = 0 => consume_input = "markers"
  /\ consume_input = "data" =>
       /\ input_iMCU_row < total_iMCU_rows
       /\ MCU_vert_offset < MCU_rows_per_iMCU_row
       /\ MCU_ctr < MCUs_per_row
  /\ error = "none" /\ ~has_multiple_scans => input_scan_number <= 1
  /\ error = "none" /\ input_scan_number > 0 => decoded = Reached * blocks_in_MCU

\* A pass without coefficient buffer is where the input is.
OutputPlace ==
  /\ decompress_data = "onepass" =>
       ~FullBuffer /\ input_scan_number > 0 /\ output_iMCU_row = input_iMCU_row
  /\ decompress_data \in {"data", "smooth"} => FullBuffer /\ input_scan_number > 0
  /\ decompress_data = "smooth" => image.progressive_mode
  /\ decompress_data = "onepass" /\ ~emitted => consume_input = "data"
  /\ ~FullBuffer /\ decompress_data = "none" /\ consume_input = "data" =>
       input_iMCU_row = 0 /\ MCU_vert_offset = 0 /\ MCU_ctr = 0
  /\ emitted => decompress_data # "none" /\ output_iMCU_row > 0
  /\ decompress_data # "none" => output_scan_number > 0
  /\ consume_input = "EOI" => output_scan_number <= input_scan_number
  /\ emitted /\ decompress_data # "onepass" => output_scan_number <= input_scan_number

Place == Counters /\ InputPlace /\ OutputPlace

\* The arrays, as they were requested.
Shape ==
  /\ DOMAIN coef_arrays = Component
  /\ \A c \in Component :
       coef_arrays[c] \in [0 .. ArrayRows(c) - 1 -> [0 .. ArrayCols(c) - 1 -> CoefBlock]]

\* A block is in its place, and of the last scan that got to it.
StoredBlock(c, row, col) ==
  LET scan == coef_arrays[c][row][col].scan
  IN /\ InPlace(c, row, col)
     /\ scan <= input_scan_number
     /\ FullBuffer /\ Real(c, row, col) =>
          /\ \A k \in 1 .. input_scan_number - 1 : InScan(c, k) => scan >= k
          /\ /\ error = "none" /\ input_scan_number > 0 /\ InScan(c, input_scan_number)
             /\ MCUNumber(c, row, col) < Reached
             => scan = input_scan_number

Stored ==
  /\ Shape
  /\ \A c \in Component :
       \A row \in 0 .. ArrayRows(c) - 1 : \A col \in 0 .. ArrayCols(c) - 1 :
         StoredBlock(c, row, col)

Slots == {image.quant_tbl_no[c] : c \in Component}
Saved(c) == tables_at_scan[FirstScan(c)][image.quant_tbl_no[c]]

\* The tables saved are those of each component's first scan.
TablesSaved ==
  /\ tables_defined \in 0 .. MaxTables
  /\ quant_tbl_ptrs \in [Slots -> 0 .. MaxTables]
  /\ tables_at_scan \in Seq([Slots -> 0 .. MaxTables])
  /\ quant_table \in [Component -> 0 .. MaxTables]
  /\ Len(tables_at_scan) <= input_scan_number
  /\ error # "EOI_EXPECTED" => Len(tables_at_scan) = input_scan_number
  /\ \A c \in Component :
       quant_table[c] = IF Scanned(c, Len(tables_at_scan)) THEN Saved(c) ELSE 0
  /\ error # "NO_QUANT_TABLE" =>
       \A c \in Component : Scanned(c, Len(tables_at_scan)) => quant_table[c] # 0

\* A multiplier table is zero, or made from the saved table.
TablesBuilt ==
  /\ cur_method \in [Component -> Methods \cup {"none"}]
  /\ dct_method \in Methods
  /\ \A c \in Component :
       IF cur_method[c] = "none" THEN dct_table[c] = ZeroTable
       ELSE /\ quant_table[c] # 0
            /\ dct_table[c] = [method |-> cur_method[c], table |-> quant_table[c]]
  /\ DOMAIN dct_table = Component
  /\ scan_at_start \in 0 .. Len(tables_at_scan)
  /\ TableRight

\* The real blocks of the iMCU row being emitted, in the first n MCUs of the scan.
RowUpTo(c, n) ==
  {p \in (0 .. image.v[c] - 1) \X (0 .. width_in_blocks(c) - 1) :
     LET row == output_iMCU_row * image.v[c] + p[1]
     IN Real(c, row, p[2]) /\ MCUNumber(c, row, p[2]) < n}

NumbersRight(c, first, blocks) ==
  \A p \in DOMAIN blocks :
    blocks[p].scan # 0 =>
      blocks[p].num = StreamOrder(blocks[p].scan, c, first + p[1], p[2])

\* Without coefficient buffer, exactly those have been emitted, in their places.
EmittedSoFar ==
  decompress_data = "onepass" /\ consume_input = "data" =>
    \A c \in image.needed :
      /\ DOMAIN Emitting(c) = RowUpTo(c, Reached)
      /\ NumbersRight(c, output_iMCU_row * image.v[c], Emitting(c))

-------------------------------------------------------------------------------
(* The geometry of an image                                                *)

\* MCUs of an interleaved scan in a row.
across == CeilDiv(image.image_width, max_h_samp_factor * image.block_size)

LEMMA ImageTypes ==
  ASSUME image \in Images
  PROVE  /\ image.image_width \in Nat \ {0} /\ image.image_height \in Nat \ {0}
         /\ image.block_size \in Nat \ {0}
         /\ image.h \in Seq(1 .. 4) /\ image.v \in Seq(1 .. 4)
         /\ image.h # <<>> /\ image.v # <<>>
         /\ Component = 1 .. Len(image.h) /\ DOMAIN image.v = Component
         /\ \A c \in Component : image.h[c] \in 1 .. 4 /\ image.v[c] \in 1 .. 4
         /\ image.progressive_mode \in BOOLEAN /\ image.buffered_image \in BOOLEAN
         /\ image.needed \subseteq Component
<1>1. /\ {image.image_width, image.image_height, image.block_size} \subseteq Nat \ {0}
      /\ image.h \in Seq(1 .. 4) \ {<<>>} /\ image.v \in Seq(1 .. 4)
      /\ Len(image.h) = Len(image.v)
      /\ {image.progressive_mode, image.buffered_image} \subseteq BOOLEAN
      /\ image.needed \subseteq DOMAIN image.h
  BY CoefAssumption DEF CoefAssumption
<1>2. Len(image.h) \in Nat \ {0} /\ DOMAIN image.h = 1 .. Len(image.h)
      /\ DOMAIN image.v = 1 .. Len(image.v)
  BY <1>1
<1>3. image.v # <<>>
  BY <1>1, <1>2
<1> QED BY <1>1, <1>2, <1>3 DEF Component

\* The largest of some sampling factors is one of them.
LEMMA MaxOfIs ==
  ASSUME NEW s \in Seq(1 .. 4), s # <<>>
  PROVE  MaxOf(s) \in 1 .. 4
<1> DEFINE T == {s[i] : i \in DOMAIN s}
<1>1. T \in SUBSET Nat /\ \A n \in T : n <= 4 /\ n \in 1 .. 4
  OBVIOUS
<1>2. T # {}
  <2>1. Len(s) \in Nat \ {0} /\ DOMAIN s = 1 .. Len(s)
    OBVIOUS
  <2>2. 1 \in DOMAIN s
    BY <2>1
  <2> QED BY <2>2
<1>3. \E m \in T : \A n \in T : n <= m
  <2> HIDE DEF T
  <2> QED BY <1>1, <1>2, GreatestNat
<1>4. \E m \in T : \A i \in DOMAIN s : s[i] <= m
  BY <1>3
<1>5. MaxOf(s) \in T
  BY <1>4 DEF MaxOf
<1> QED BY <1>1, <1>5

\* A component has as many blocks as fill its share of the iMCUs, but for the last.
LEMMA CoveredBlocks ==
  ASSUME NEW x \in Nat \ {0}, NEW d \in Nat \ {0}, NEW f \in 1 .. 4
  PROVE  /\ CeilDiv(x, d) \in Nat \ {0}
         /\ CeilDiv(x * f, d) \in Nat \ {0}
         /\ (CeilDiv(x, d) - 1) * f < CeilDiv(x * f, d)
         /\ CeilDiv(x * f, d) <= CeilDiv(x, d) * f
         /\ CeilDiv(CeilDiv(x * f, d), f) = CeilDiv(x, d)
<1> DEFINE t == CeilDiv(x, d)
           y == CeilDiv(x * f, d)
<1>1. t \in Nat \ {0} /\ (t - 1) * d < x /\ x <= t * d
  BY RoundedUp DEF CeilDiv
<1>2. x * f \in Nat \ {0}
  BY PositiveProduct
<1>3. y \in Nat \ {0} /\ (y - 1) * d < x * f /\ x * f <= y * d
  BY <1>2, RoundedUp DEF CeilDiv
<1> HIDE DEF t, y
<1>4. (t - 1) * d * f < x * f /\ x * f <= t * d * f
  <2>1. (t - 1) * d \in Int /\ t * d \in Int /\ f \in Nat \ {0}
    BY <1>1
  <2> QED BY <2>1, <1>1, ProductOrder
<1>5. (t - 1) * d * f = ((t - 1) * f) * d /\ t * d * f = (t * f) * d
  BY <1>1
<1>6. /\ (t - 1) * f \in Int /\ t * f \in Int /\ y - 1 \in Int /\ x * f \in Int
      /\ (y - 1) * d \in Int /\ y * d \in Int /\ ((t - 1) * f) * d \in Int /\ (t * f) * d \in Int
  BY <1>1, <1>2, <1>3
<1>7. ((t - 1) * f) * d < y * d /\ (y - 1) * d < (t * f) * d
  BY <1>3, <1>4, <1>5, <1>6
<1>8. (t - 1) * f < y /\ y - 1 < t * f
  BY <1>7, <1>6, <1>3, ProductOrder
<1>9. y <= t * f
  BY <1>8, <1>6, <1>3
<1>10. (y + f - 1) \div f = t
  BY <1>1, <1>3, <1>8, <1>9, RoundedUnique
<1>11. CeilDiv(y, f) = t
  BY <1>10 DEF CeilDiv
<1> QED BY <1>1, <1>3, <1>8, <1>9, <1>11 DEF t, y

\* What is left in the last group.
LEMMA LastOfIs ==
  ASSUME NEW y \in Nat \ {0}, NEW f \in Nat \ {0}, NEW t \in Nat \ {0},
         (t - 1) * f < y, y <= t * f
  PROVE  LastOf(y, f) = y - (t - 1) * f /\ LastOf(y, f) \in 1 .. f
<1>1. /\ t * f = (t - 1) * f + f /\ t * f \in Int /\ (t - 1) * f \in Int
  OBVIOUS
<1>2. CASE y = t * f
  <2>1. y \div f = t
    BY <1>1, <1>2, DivUnique
  <2>2. y % f = 0
    BY <2>1, <1>2, RemainderIs
  <2> QED BY <2>2, <1>1, <1>2 DEF LastOf
<1>3. CASE y < t * f
  <2>1. y \div f = t - 1
    BY <1>1, <1>3, DivUnique
  <2>2. y % f = y - (t - 1) * f
    <3>1. y % f = y - (y \div f) * f
      BY RemainderIs, y \in Int
    <3> QED BY <3>1, <2>1
  <2>3. y % f # 0
    BY <2>2, <1>1
  <2> QED BY <2>2, <2>3, <1>1, <1>3 DEF LastOf
<1> QED BY <1>1, <1>2, <1>3

LEMMA Geometry ==
  ASSUME image \in Images
  PROVE  /\ total_iMCU_rows \in Nat \ {0} /\ across \in Nat \ {0}
         /\ \A c \in Component :
              /\ height_in_blocks(c) \in Nat \ {0} /\ width_in_blocks(c) \in Nat \ {0}
              /\ (total_iMCU_rows - 1) * image.v[c] < height_in_blocks(c)
              /\ height_in_blocks(c) <= total_iMCU_rows * image.v[c]
              /\ (across - 1) * image.h[c] < width_in_blocks(c)
              /\ width_in_blocks(c) <= across * image.h[c]
              /\ ArrayRows(c) = total_iMCU_rows * image.v[c]
              /\ ArrayCols(c) = across * image.h[c]
              /\ LastOf(height_in_blocks(c), image.v[c])
                   = height_in_blocks(c) - (total_iMCU_rows - 1) * image.v[c]
              /\ LastOf(height_in_blocks(c), image.v[c]) \in 1 .. image.v[c]
              /\ LastOf(width_in_blocks(c), image.h[c])
                   = width_in_blocks(c) - (across - 1) * image.h[c]
              /\ LastOf(width_in_blocks(c), image.h[c]) \in 1 .. image.h[c]
<1> DEFINE dv == max_v_samp_factor * image.block_size
           dh == max_h_samp_factor * image.block_size
<1>1. dv \in Nat \ {0} /\ dh \in Nat \ {0}
  <2>1. max_v_samp_factor \in Nat \ {0} /\ max_h_samp_factor \in Nat \ {0}
    BY ImageTypes, MaxOfIs DEF max_v_samp_factor, max_h_samp_factor
  <2> QED BY <2>1, ImageTypes, PositiveProduct
<1>2. total_iMCU_rows = CeilDiv(image.image_height, dv)
      /\ across = CeilDiv(image.image_width, dh)
  BY DEF total_iMCU_rows, across
<1>3. \A c \in Component :
         /\ height_in_blocks(c) = CeilDiv(image.image_height * image.v[c], dv)
         /\ width_in_blocks(c) = CeilDiv(image.image_width * image.h[c], dh)
  BY DEF height_in_blocks, width_in_blocks
<1> HIDE DEF dv, dh
<1>4. total_iMCU_rows \in Nat \ {0} /\ across \in Nat \ {0}
  BY <1>1, <1>2, ImageTypes, RoundedUp DEF CeilDiv
<1>5. ASSUME NEW c \in Component
      PROVE  /\ height_in_blocks(c) \in Nat \ {0} /\ width_in_blocks(c) \in Nat \ {0}
             /\ (total_iMCU_rows - 1) * image.v[c] < height_in_blocks(c)
             /\ height_in_blocks(c) <= total_iMCU_rows * image.v[c]
             /\ (across - 1) * image.h[c] < width_in_blocks(c)
             /\ width_in_blocks(c) <= across * image.h[c]
             /\ ArrayRows(c) = total_iMCU_rows * image.v[c]
             /\ ArrayCols(c) = across * image.h[c]
  <2>1. image.v[c] \in 1 .. 4 /\ image.h[c] \in 1 .. 4
    BY ImageTypes
  <2>2. /\ height_in_blocks(c) \in Nat \ {0}
        /\ (total_iMCU_rows - 1) * image.v[c] < height_in_blocks(c)
        /\ height_in_blocks(c) <= total_iMCU_rows * image.v[c]
        /\ CeilDiv(height_in_blocks(c), image.v[c]) = total_iMCU_rows
    <3> DEFINE x == image.image_height
               f == image.v[c]
    <3>1. x \in Nat \ {0} /\ f \in 1 .. 4
      BY <2>1, ImageTypes
    <3>2. height_in_blocks(c) = CeilDiv(x * f, dv) /\ total_iMCU_rows = CeilDiv(x, dv)
      BY <1>2, <1>3
    <3> HIDE DEF x, f
    <3>3. /\ CeilDiv(x, dv) \in Nat \ {0}
          /\ CeilDiv(x * f, dv) \in Nat \ {0}
          /\ (CeilDiv(x, dv) - 1) * f < CeilDiv(x * f, dv)
          /\ CeilDiv(x * f, dv) <= CeilDiv(x, dv) * f
          /\ CeilDiv(CeilDiv(x * f, dv), f) = CeilDiv(x, dv)
      BY <1>1, <3>1, CoveredBlocks
    <3>4. /\ height_in_blocks(c) \in Nat \ {0}
          /\ (total_iMCU_rows - 1) * f < height_in_blocks(c)
          /\ height_in_blocks(c) <= total_iMCU_rows * f
          /\ CeilDiv(height_in_blocks(c), f) = total_iMCU_rows
      BY <3>2, <3>3, Zenon
    <3> QED BY <3>4 DEF f
  <2>3. /\ width_in_blocks(c) \in Nat \ {0}
        /\ (across - 1) * image.h[c] < width_in_blocks(c)
        /\ width_in_blocks(c) <= across * image.h[c]
        /\ CeilDiv(width_in_blocks(c), image.h[c]) = across
    <3> DEFINE x == image.image_width
               f == image.h[c]
    <3>1. x \in Nat \ {0} /\ f \in 1 .. 4
      BY <2>1, ImageTypes
    <3>2. width_in_blocks(c) = CeilDiv(x * f, dh) /\ across = CeilDiv(x, dh)
      BY <1>2, <1>3
    <3> HIDE DEF x, f
    <3>3. /\ CeilDiv(x, dh) \in Nat \ {0}
          /\ CeilDiv(x * f, dh) \in Nat \ {0}
          /\ (CeilDiv(x, dh) - 1) * f < CeilDiv(x * f, dh)
          /\ CeilDiv(x * f, dh) <= CeilDiv(x, dh) * f
          /\ CeilDiv(CeilDiv(x * f, dh), f) = CeilDiv(x, dh)
      BY <1>1, <3>1, CoveredBlocks
    <3>4. /\ width_in_blocks(c) \in Nat \ {0}
          /\ (across - 1) * f < width_in_blocks(c)
          /\ width_in_blocks(c) <= across * f
          /\ CeilDiv(width_in_blocks(c), f) = across
      BY <3>2, <3>3, Zenon
    <3> QED BY <3>4 DEF f
  <2> QED BY <2>2, <2>3 DEF ArrayRows, ArrayCols, RoundUp
<1>6. ASSUME NEW c \in Component
      PROVE  /\ LastOf(height_in_blocks(c), image.v[c])
                  = height_in_blocks(c) - (total_iMCU_rows - 1) * image.v[c]
             /\ LastOf(height_in_blocks(c), image.v[c]) \in 1 .. image.v[c]
             /\ LastOf(width_in_blocks(c), image.h[c])
                  = width_in_blocks(c) - (across - 1) * image.h[c]
             /\ LastOf(width_in_blocks(c), image.h[c]) \in 1 .. image.h[c]
  <2>1. image.v[c] \in Nat \ {0} /\ image.h[c] \in Nat \ {0}
    BY ImageTypes
  <2> QED BY <1>4, <1>5, <2>1, LastOfIs
<1> QED BY <1>4, <1>5, <1>6

\* Places of the arrays.
LEMMA PlacesAreNat ==
  ASSUME image \in Images, NEW c \in Component
  PROVE  /\ ArrayRows(c) \in Nat /\ ArrayCols(c) \in Nat
         /\ 0 .. ArrayRows(c) - 1 \subseteq Nat /\ 0 .. ArrayCols(c) - 1 \subseteq Nat
         /\ height_in_blocks(c) <= ArrayRows(c) /\ width_in_blocks(c) <= ArrayCols(c)
<1>1. /\ ArrayRows(c) = total_iMCU_rows * image.v[c] /\ ArrayCols(c) = across * image.h[c]
      /\ total_iMCU_rows \in Nat /\ across \in Nat
      /\ height_in_blocks(c) <= total_iMCU_rows * image.v[c]
      /\ width_in_blocks(c) <= across * image.h[c]
  BY Geometry
<1>2. image.v[c] \in 1 .. 4 /\ image.h[c] \in 1 .. 4
  BY ImageTypes
<1>3. total_iMCU_rows * image.v[c] \in Nat /\ across * image.h[c] \in Nat
  <2>1. image.v[c] \in Nat /\ image.h[c] \in Nat
    BY <1>2
  <2> QED BY <1>1, <2>1
<1> QED BY <1>1, <1>3

-------------------------------------------------------------------------------
(* The geometry of a scan                                                  *)

LEMMA ScanTypes ==
  ASSUME image \in Images, NEW k \in DOMAIN image.scans
  PROVE  /\ image.scans \in Seq(ScanHeader) /\ image.scans # <<>>
         /\ k \in 1 .. Len(image.scans)
         /\ Scan(k).comps \in Seq(Nat) /\ Len(Scan(k).comps) \in Nat \ {0}
         /\ DOMAIN Scan(k).comps = 1 .. Len(Scan(k).comps)
         /\ \A i \in DOMAIN Scan(k).comps :
              /\ Scan(k).comps[i] \in Component
              /\ \A j \in DOMAIN Scan(k).comps : Scan(k).comps[j] = Scan(k).comps[i] => j = i
         /\ Scan(k).Al \in Nat
         /\ image.progressive_mode => Scan(k).part \in {"DC", "AC"}
         /\ Scan(k).part = "AC" => Len(Scan(k).comps) = 1
<1>1. /\ image.scans \in Seq(ScanHeader) \ {<<>>}
      /\ image.scans[k].comps # <<>>
      /\ \A i \in DOMAIN image.scans[k].comps :
           /\ image.scans[k].comps[i] \in DOMAIN image.h
           /\ \A j \in 1 .. i - 1 : image.scans[k].comps[j] # image.scans[k].comps[i]
      /\ image.scans[k].part \in (IF image.progressive_mode THEN {"DC", "AC"} ELSE {"all"})
      /\ image.scans[k].part = "AC" => Len(image.scans[k].comps) = 1
  BY CoefAssumption DEF CoefAssumption
<1>2. image.scans[k] \in ScanHeader /\ k \in 1 .. Len(image.scans)
  BY <1>1
<1>3. image.scans[k].comps \in Seq(Nat) /\ image.scans[k].Al \in Nat
  BY <1>2 DEF ScanHeader
<1> DEFINE comps == image.scans[k].comps
<1>4. comps \in Seq(Nat) /\ comps # <<>>
  BY <1>1, <1>3
<1>5. \A i \in DOMAIN comps : \A j \in 1 .. i - 1 : comps[j] # comps[i]
  BY <1>1
<1>6. \A i \in DOMAIN comps : comps[i] \in DOMAIN image.h
  BY <1>1
<1> HIDE DEF comps
<1>7. Len(comps) \in Nat \ {0} /\ DOMAIN comps = 1 .. Len(comps)
  BY <1>4
<1>8. \A i \in DOMAIN comps : \A j \in DOMAIN comps : comps[j] = comps[i] => j = i
  <2> SUFFICES ASSUME NEW i \in DOMAIN comps, NEW j \in DOMAIN comps, j # i
               PROVE  comps[j] # comps[i]
    OBVIOUS
  <2>1. i \in 1 .. Len(comps) /\ j \in 1 .. Len(comps) /\ Len(comps) \in Nat
    BY <1>7
  <2>2. j \in 1 .. i - 1 \/ i \in 1 .. j - 1
    BY <2>1
  <2> QED BY <2>2, <1>5
<1> QED BY <1>1, <1>2, <1>3, <1>6, <1>7, <1>8 DEF comps, Scan, Component

\* The scan being read.
InAScan == image \in Images /\ input_scan_number \in DOMAIN image.scans

LEMMA CompsTypes ==
  ASSUME InAScan
  PROVE  /\ Len(Comps) \in Nat \ {0} /\ DOMAIN Comps = 1 .. Len(Comps)
         /\ \A i \in DOMAIN Comps :
              /\ Comps[i] \in Component
              /\ \A j \in DOMAIN Comps : Comps[j] = Comps[i] => j = i
         /\ Interleaved <=> Len(Comps) # 1
<1>1. /\ Len(Comps) \in Nat \ {0} /\ DOMAIN Comps = 1 .. Len(Comps)
      /\ \A i \in DOMAIN Comps :
           /\ Comps[i] \in Component
           /\ \A j \in DOMAIN Comps : Comps[j] = Comps[i] => j = i
  BY ScanTypes DEF InAScan, Comps
<1> HIDE DEF Comps
<1> QED BY <1>1 DEF Interleaved

LEMMA ScanGeometry ==
  ASSUME InAScan
  PROVE  /\ MCUs_per_row \in Nat \ {0} /\ MCU_rows_in_scan \in Nat \ {0}
         /\ RowsPerIMCU \in 1 .. 4
         /\ (total_iMCU_rows - 1) * RowsPerIMCU < MCU_rows_in_scan
         /\ MCU_rows_in_scan <= total_iMCU_rows * RowsPerIMCU
         /\ ~Interleaved =>
              /\ RowsPerIMCU = image.v[Comps[1]]
              /\ MCUs_per_row = width_in_blocks(Comps[1])
              /\ MCU_rows_in_scan = height_in_blocks(Comps[1])
         /\ Interleaved =>
              RowsPerIMCU = 1 /\ MCUs_per_row = across /\ MCU_rows_in_scan = total_iMCU_rows
<1>1. CASE Interleaved
  <2>1. RowsPerIMCU = 1 /\ MCUs_per_row = across /\ MCU_rows_in_scan = total_iMCU_rows
    BY <1>1 DEF RowsPerIMCU, MCUs_per_row, MCU_rows_in_scan, across, total_iMCU_rows
  <2>2. total_iMCU_rows \in Nat \ {0} /\ across \in Nat \ {0}
    BY Geometry DEF InAScan
  <2> QED BY <1>1, <2>1, <2>2
<1>2. CASE ~Interleaved
  <2>1. /\ RowsPerIMCU = image.v[Comps[1]]
        /\ MCUs_per_row = width_in_blocks(Comps[1])
        /\ MCU_rows_in_scan = height_in_blocks(Comps[1])
    BY <1>2 DEF RowsPerIMCU, MCUs_per_row, MCU_rows_in_scan
  <2>2. Comps[1] \in Component
    BY CompsTypes
  <2>3. image.v[Comps[1]] \in 1 .. 4
    BY <2>2, ImageTypes DEF InAScan
  <2> QED BY <1>2, <2>1, <2>2, <2>3, Geometry DEF InAScan
<1> QED BY <1>1, <1>2

\* Where the components of the scan are in an iMCU row and in an MCU.
LEMMA MCUGeometry ==
  ASSUME InAScan, NEW i \in DOMAIN Comps
  PROVE  /\ Comps[i] \in Component
         /\ MCU_width(Comps[i]) \in 1 .. 4 /\ MCU_height(Comps[i]) \in 1 .. 4
         /\ RowsPerIMCU * MCU_height(Comps[i]) = image.v[Comps[i]]
         /\ ~Interleaved => /\ i = 1
                            /\ MCU_width(Comps[i]) = 1 /\ MCU_height(Comps[i]) = 1
         /\ Interleaved => /\ MCU_width(Comps[i]) = image.h[Comps[i]]
                           /\ MCU_height(Comps[i]) = image.v[Comps[i]]
<1>1. Comps[i] \in Component
  BY CompsTypes
<1>2. image.h[Comps[i]] \in 1 .. 4 /\ image.v[Comps[i]] \in 1 .. 4
  BY <1>1, ImageTypes DEF InAScan
<1>3. CASE Interleaved
  <2>1. RowsPerIMCU = 1 /\ MCU_width(Comps[i]) = image.h[Comps[i]]
        /\ MCU_height(Comps[i]) = image.v[Comps[i]]
    BY <1>3 DEF RowsPerIMCU, MCU_width, MCU_height
  <2> QED BY <1>1, <1>2, <1>3, <2>1
<1>4. CASE ~Interleaved
  <2>1. i = 1
    BY <1>4, CompsTypes
  <2>2. RowsPerIMCU = image.v[Comps[1]] /\ MCU_width(Comps[i]) = 1 /\ MCU_height(Comps[i]) = 1
    BY <1>4 DEF RowsPerIMCU, MCU_width, MCU_height
  <2> QED BY <1>1, <1>2, <1>4, <2>1, <2>2
<1> QED BY <1>3, <1>4

\* The MCU rows of the iMCU row being read.
LEMMA RowsOfIMCU ==
  ASSUME InAScan, input_iMCU_row \in 0 .. total_iMCU_rows - 1
  PROVE  /\ MCU_rows_per_iMCU_row \in 1 .. RowsPerIMCU
         /\ input_iMCU_row < total_iMCU_rows - 1 => MCU_rows_per_iMCU_row = RowsPerIMCU
         /\ input_iMCU_row = total_iMCU_rows - 1 =>
              input_iMCU_row * RowsPerIMCU + MCU_rows_per_iMCU_row = MCU_rows_in_scan
<1>0. total_iMCU_rows \in Nat \ {0} /\ input_iMCU_row \in Nat
  BY Geometry DEF InAScan
<1>1. CASE Interleaved
  <2>1. RowsPerIMCU = 1 /\ MCU_rows_per_iMCU_row = 1 /\ MCU_rows_in_scan = total_iMCU_rows
    BY <1>1, ScanGeometry DEF MCU_rows_per_iMCU_row
  <2> QED BY <1>0, <2>1
<1>2. CASE ~Interleaved
  <2> DEFINE c == Comps[1]
  <2>1. c \in Component
    BY CompsTypes
  <2>2. /\ RowsPerIMCU = image.v[c] /\ MCU_rows_in_scan = height_in_blocks(c)
        /\ MCU_rows_per_iMCU_row = IF input_iMCU_row < total_iMCU_rows - 1 THEN image.v[c]
                                   ELSE LastOf(height_in_blocks(c), image.v[c])
    BY <1>2, ScanGeometry DEF MCU_rows_per_iMCU_row, last_row_height
  <2>3. /\ LastOf(height_in_blocks(c), image.v[c])
             = height_in_blocks(c) - (total_iMCU_rows - 1) * image.v[c]
        /\ LastOf(height_in_blocks(c), image.v[c]) \in 1 .. image.v[c]
        /\ height_in_blocks(c) \in Nat /\ image.v[c] \in 1 .. 4
    BY <2>1, Geometry, ImageTypes DEF InAScan
  <2> HIDE DEF c
  <2>4. (total_iMCU_rows - 1) * image.v[c] \in Int
    BY <1>0, <2>3
  <2>5. CASE input_iMCU_row < total_iMCU_rows - 1
    BY <2>2, <2>3, <2>5, <1>0
  <2>6. CASE input_iMCU_row = total_iMCU_rows - 1
    <3>0. ~(input_iMCU_row < total_iMCU_rows - 1)
      BY <2>6, <1>0
    <3>3. MCU_rows_per_iMCU_row = LastOf(height_in_blocks(c), image.v[c])
      BY <3>0, <2>2, Zenon
    <3>1. /\ MCU_rows_per_iMCU_row = height_in_blocks(c) - (total_iMCU_rows - 1) * image.v[c]
          /\ MCU_rows_per_iMCU_row \in 1 .. RowsPerIMCU
      BY <3>3, <2>2, <2>3, Zenon
    <3>2. input_iMCU_row * RowsPerIMCU = (total_iMCU_rows - 1) * image.v[c]
      BY <2>2, <2>6
    <3> QED BY <3>1, <3>2, <2>2, <2>3, <2>4, <2>6, <1>0
  <2> QED BY <2>5, <2>6, <1>0
<1> QED BY <1>1, <1>2

-------------------------------------------------------------------------------
(* Blocks within an MCU                                                    *)

\* f has the sums of the first numbers of add, of which there are n.
SumsOf(f, add, n) == f = [i \in 1 .. n + 1 |-> IF i = 1 THEN 0 ELSE f[i - 1] + add[i - 1]]

LEMMA SumsExist ==
  ASSUME NEW n \in Nat, NEW add \in [1 .. n -> Nat]
  PROVE  \E f : SumsOf(f, add, n)
<1> DEFINE e == n + 1
           F == [i \in 1 .. e |-> [x \in Nat |-> IF i = 1 THEN x ELSE x + add[i - 1]]]
<1>1. e \in Int /\ 1 \in Int /\ 1 <= e /\ 0 \in Nat
  OBVIOUS
<1>2. F \in [1 .. e -> [Nat -> Nat]]
  OBVIOUS
<1>3. \A i \in 2 .. e : \A x \in Nat : F[i][x] = x + add[i - 1]
  OBVIOUS
<1> HIDE DEF F, e
<1>4. PICK f : Recursion(f, Nat, 0, 1, e, F)
  BY <1>1, <1>2, RecursionExists
<1>5. /\ f \in [1 .. e -> Nat]
      /\ \A k \in 1 .. e : f[k] = IF k = 1 THEN 0 ELSE F[k][f[k - 1]]
  BY <1>4 DEF Recursion
<1>6. \A k \in 1 .. e : f[k] = IF k = 1 THEN 0 ELSE f[k - 1] + add[k - 1]
  <2> SUFFICES ASSUME NEW k \in 1 .. e
               PROVE  f[k] = IF k = 1 THEN 0 ELSE f[k - 1] + add[k - 1]
    OBVIOUS
  <2>1. CASE k # 1
    <3>1. k \in 2 .. e /\ k - 1 \in 1 .. e
      BY <1>1, <2>1
    <3>2. f[k - 1] \in Nat
      BY <1>5, <3>1
    <3> QED BY <1>3, <1>5, <2>1, <3>1, <3>2
  <2> QED BY <2>1, <1>5
<1>7. f = [k \in 1 .. e |-> IF k = 1 THEN 0 ELSE f[k - 1] + add[k - 1]]
  BY <1>5, <1>6
<1>8. SumsOf(f, add, n)
  BY <1>7 DEF SumsOf, e
<1> QED BY <1>8

LEMMA SumsGrow ==
  ASSUME NEW n \in Nat, NEW add \in [1 .. n -> Nat], NEW f, SumsOf(f, add, n)
  PROVE  /\ f \in [1 .. n + 1 -> Nat]
         /\ f[1] = 0
         /\ \A i \in 1 .. n : f[i + 1] = f[i] + add[i]
<1>1. f = [i \in 1 .. n + 1 |-> IF i = 1 THEN 0 ELSE f[i - 1] + add[i - 1]]
  BY DEF SumsOf
<1>2. DOMAIN f = 1 .. n + 1 /\ f[1] = 0
      /\ \A i \in 1 .. n + 1 : i # 1 => f[i] = f[i - 1] + add[i - 1]
  BY <1>1
<1> DEFINE P == {i \in 1 .. n + 1 : f[i] \in Nat}
<1>3. \A i \in 1 .. n + 1 : i \in P
  <2>1. 1 \in P /\ 1 \in Int /\ n + 1 \in Int
    BY <1>2
  <2>2. ASSUME NEW i \in 1 .. n + 1, i # 1, i - 1 \in P  PROVE i \in P
    <3>1. f[i - 1] \in Nat /\ add[i - 1] \in Nat
      BY <2>2
    <3>2. f[i] \in Nat
      BY <1>2, <2>2, <3>1
    <3> QED BY <3>2
  <2> HIDE DEF P
  <2> QED BY <2>1, <2>2, IntervalInduction
<1>4. f \in [1 .. n + 1 -> Nat]
  BY <1>1, <1>2, <1>3
<1>5. ASSUME NEW i \in 1 .. n  PROVE f[i + 1] = f[i] + add[i]
  <2>1. i + 1 \in 1 .. n + 1 /\ i + 1 # 1 /\ (i + 1) - 1 = i
    OBVIOUS
  <2> QED BY <2>1, <1>2
<1> QED BY <1>2, <1>4, <1>5

LEMMA SumsUnique ==
  ASSUME NEW n \in Nat, NEW add \in [1 .. n -> Nat],
         NEW f, SumsOf(f, add, n), NEW g, SumsOf(g, add, n)
  PROVE  f = g
<1>1. /\ f \in [1 .. n + 1 -> Nat] /\ f[1] = 0
      /\ \A i \in 1 .. n : f[i + 1] = f[i] + add[i]
  BY SumsGrow
<1>2. /\ g \in [1 .. n + 1 -> Nat] /\ g[1] = 0
      /\ \A i \in 1 .. n : g[i + 1] = g[i] + add[i]
  BY SumsGrow
<1> DEFINE P == {i \in 1 .. n + 1 : f[i] = g[i]}
<1>3. \A i \in 1 .. n + 1 : i \in P
  <2>1. 1 \in P /\ 1 \in Int /\ n + 1 \in Int
    BY <1>1, <1>2
  <2>2. ASSUME NEW i \in 1 .. n + 1, i # 1, i - 1 \in P  PROVE i \in P
    <3>1. i - 1 \in 1 .. n /\ (i - 1) + 1 = i /\ f[i - 1] = g[i - 1]
      BY <2>2
    <3>2. f[i] = g[i]
      BY <3>1, <1>1, <1>2
    <3> QED BY <3>2
  <2> HIDE DEF P
  <2> QED BY <2>1, <2>2, IntervalInduction
<1>4. \A i \in 1 .. n + 1 : f[i] = g[i]
  BY <1>3
<1> QED BY <1>1, <1>2, <1>4

\* The sizes of the components of the scan in an MCU of an interleaved one.
Sizes == [i \in 1 .. Len(Comps) |-> image.h[Comps[i]] * image.v[Comps[i]]]

LEMMA SizesType ==
  ASSUME InAScan
  PROVE  Sizes \in [1 .. Len(Comps) -> Nat \ {0}]
<1> SUFFICES ASSUME NEW i \in 1 .. Len(Comps)
             PROVE  image.h[Comps[i]] * image.v[Comps[i]] \in Nat \ {0}
  BY DEF Sizes
<1>1. Comps[i] \in Component
  BY CompsTypes
<1>2. image.h[Comps[i]] \in 1 .. 4 /\ image.v[Comps[i]] \in 1 .. 4
  BY <1>1, ImageTypes DEF InAScan
<1>3. image.h[Comps[i]] \in Nat \ {0} /\ image.v[Comps[i]] \in Nat \ {0}
  BY <1>2
<1> QED BY <1>3, PositiveProduct

LEMMA BlocksUpToIs ==
  ASSUME InAScan
  PROVE  SumsOf(BlocksUpTo(Comps), Sizes, Len(Comps))
<1> DEFINE Solves(f) ==
             f = [i \in 1 .. Len(Comps) + 1 |->
                    IF i = 1 THEN 0
                    ELSE f[i - 1] + image.h[Comps[i - 1]] * image.v[Comps[i - 1]]]
<1>1. Len(Comps) \in Nat
  BY CompsTypes
<1>2. \A f : SumsOf(f, Sizes, Len(Comps)) <=> Solves(f)
  <2>1. \A i \in 1 .. Len(Comps) + 1 : i # 1 =>
           Sizes[i - 1] = image.h[Comps[i - 1]] * image.v[Comps[i - 1]]
    BY <1>1 DEF Sizes
  <2> QED BY <1>1, <2>1 DEF SumsOf
<1>3. BlocksUpTo(Comps) = CHOOSE f : Solves(f)
  BY DEF BlocksUpTo
<1>4. \E f : SumsOf(f, Sizes, Len(Comps))
  <2>1. Sizes \in [1 .. Len(Comps) -> Nat]
    BY SizesType
  <2> QED BY <1>1, <2>1, SumsExist
<1> HIDE DEF Solves
<1>5. Solves(BlocksUpTo(Comps))
  BY <1>2, <1>3, <1>4
<1> QED BY <1>2, <1>5

\* The sizes in an MCU of the scan being read.
MCUSizes == [i \in 1 .. Len(Comps) |-> MCU_width(Comps[i]) * MCU_height(Comps[i])]

LEMMA BlocksBeforeIs ==
  ASSUME InAScan
  PROVE  /\ MCUSizes \in [1 .. Len(Comps) -> Nat \ {0}]
         /\ SumsOf(BlocksBefore, MCUSizes, Len(Comps))
<1> DEFINE Solves(f) ==
             f = [i \in 1 .. Len(Comps) + 1 |->
                    IF i = 1 THEN 0
                    ELSE f[i - 1] + MCU_width(Comps[i - 1]) * MCU_height(Comps[i - 1])]
<1>1. Len(Comps) \in Nat /\ DOMAIN Comps = 1 .. Len(Comps)
  BY CompsTypes
<1>2. MCUSizes \in [1 .. Len(Comps) -> Nat \ {0}]
  <2> SUFFICES ASSUME NEW i \in 1 .. Len(Comps)
               PROVE  MCU_width(Comps[i]) * MCU_height(Comps[i]) \in Nat \ {0}
    BY DEF MCUSizes
  <2>1. MCU_width(Comps[i]) \in Nat \ {0} /\ MCU_height(Comps[i]) \in Nat \ {0}
    BY <1>1, MCUGeometry
  <2> QED BY <2>1, PositiveProduct
<1>3. \A f : SumsOf(f, MCUSizes, Len(Comps)) <=> Solves(f)
  <2>1. \A i \in 1 .. Len(Comps) + 1 : i # 1 =>
           MCUSizes[i - 1] = MCU_width(Comps[i - 1]) * MCU_height(Comps[i - 1])
    BY <1>1 DEF MCUSizes
  <2> QED BY <1>1, <2>1 DEF SumsOf
<1>4. BlocksBefore = CHOOSE f : Solves(f)
  BY DEF BlocksBefore
<1>5. \E f : SumsOf(f, MCUSizes, Len(Comps))
  <2>1. MCUSizes \in [1 .. Len(Comps) -> Nat]
    BY <1>2
  <2> QED BY <1>1, <2>1, SumsExist
<1> HIDE DEF Solves
<1>6. Solves(BlocksBefore)
  BY <1>3, <1>4, <1>5
<1> QED BY <1>2, <1>3, <1>6

\* In an interleaved scan they are the standard's, in another an MCU is a block.
LEMMA BlocksOfMCU ==
  ASSUME InAScan
  PROVE  /\ BlocksBefore \in [1 .. Len(Comps) + 1 -> Nat]
         /\ blocks_in_MCU \in Nat \ {0}
         /\ ~Interleaved => BlocksBefore[1] = 0 /\ blocks_in_MCU = 1
         /\ Interleaved => BlocksBefore = BlocksUpTo(Comps)
<1> DEFINE n == Len(Comps)
<1>1. n \in Nat \ {0} /\ DOMAIN Comps = 1 .. n
  BY CompsTypes
<1>2. MCUSizes \in [1 .. n -> Nat \ {0}] /\ SumsOf(BlocksBefore, MCUSizes, n)
  BY BlocksBeforeIs
<1>3. Sizes \in [1 .. n -> Nat \ {0}] /\ SumsOf(BlocksUpTo(Comps), Sizes, n)
  BY SizesType, BlocksUpToIs
<1>4. blocks_in_MCU = BlocksBefore[n + 1]
  BY DEF blocks_in_MCU
<1>5. ~Interleaved => n = 1 /\ MCUSizes[1] = 1
  <2> SUFFICES ASSUME ~Interleaved  PROVE n = 1 /\ MCUSizes[1] = 1
    OBVIOUS
  <2>1. n = 1
    BY CompsTypes
  <2>2. MCU_width(Comps[1]) = 1 /\ MCU_height(Comps[1]) = 1
    BY <1>1, <2>1, MCUGeometry
  <2> QED BY <2>1, <2>2 DEF MCUSizes
<1>6. Interleaved => MCUSizes = Sizes
  BY <1>1, MCUGeometry DEF MCUSizes, Sizes
<1> HIDE DEF n
<1>7. /\ BlocksBefore \in [1 .. n + 1 -> Nat] /\ BlocksBefore[1] = 0
      /\ \A i \in 1 .. n : BlocksBefore[i + 1] = BlocksBefore[i] + MCUSizes[i]
  <2>1. n \in Nat /\ MCUSizes \in [1 .. n -> Nat]
    BY <1>1, <1>2
  <2> QED BY <2>1, <1>2, SumsGrow
<1>8. BlocksBefore[n + 1] \in Nat \ {0}
  <2>1. BlocksBefore[n] \in Nat /\ MCUSizes[n] \in Nat \ {0}
    BY <1>1, <1>2, <1>7
  <2> QED BY <2>1, <1>1, <1>7
<1>9. ~Interleaved => blocks_in_MCU = 1
  BY <1>4, <1>5, <1>7
<1>10. ASSUME Interleaved  PROVE BlocksBefore = BlocksUpTo(Comps)
  <2>1. n \in Nat /\ Sizes \in [1 .. n -> Nat]
    BY <1>1, <1>3
  <2>2. SumsOf(BlocksBefore, Sizes, n)
    BY <1>2, <1>6, <1>10
  <2> QED BY <2>1, <2>2, <1>3, SumsUnique
<1> QED BY <1>4, <1>7, <1>8, <1>9, <1>10 DEF n

-------------------------------------------------------------------------------
(* What depends on the image and the scan does not change with the rest    *)

LEMMA ImageKept ==
  ASSUME image' = image
  PROVE  /\ Component' = Component /\ total_iMCU_rows' = total_iMCU_rows
         /\ across' = across
         /\ (has_multiple_scans <=> has_multiple_scans') /\ (FullBuffer <=> FullBuffer')
         /\ \A c : /\ height_in_blocks(c)' = height_in_blocks(c)
                   /\ width_in_blocks(c)' = width_in_blocks(c)
                   /\ ArrayRows(c)' = ArrayRows(c) /\ ArrayCols(c)' = ArrayCols(c)
         /\ \A k : Scan(k)' = Scan(k)
<1>1. max_v_samp_factor' = max_v_samp_factor /\ max_h_samp_factor' = max_h_samp_factor
  BY DEF max_v_samp_factor, max_h_samp_factor
<1>2. \A c : height_in_blocks(c)' = height_in_blocks(c) /\ width_in_blocks(c)' = width_in_blocks(c)
  BY <1>1 DEF height_in_blocks, width_in_blocks
<1>3. \A c : ArrayRows(c)' = ArrayRows(c) /\ ArrayCols(c)' = ArrayCols(c)
  BY <1>2 DEF ArrayRows, ArrayCols
<1>4. \A k : Scan(k)' = Scan(k)
  BY DEF Scan
<1>5. total_iMCU_rows' = total_iMCU_rows /\ across' = across
  BY <1>1 DEF total_iMCU_rows, across
<1>6. Component' = Component
  BY DEF Component
<1>7. has_multiple_scans <=> has_multiple_scans'
  BY <1>4 DEF has_multiple_scans
<1>8. FullBuffer <=> FullBuffer'
  BY <1>7 DEF FullBuffer
<1> QED BY <1>2, <1>3, <1>4, <1>5, <1>6, <1>7, <1>8

LEMMA ScanKept ==
  ASSUME InAScan, image' = image, input_scan_number' = input_scan_number
  PROVE  /\ Comps' = Comps /\ (Interleaved <=> Interleaved')
         /\ MCUs_per_row' = MCUs_per_row /\ MCU_rows_in_scan' = MCU_rows_in_scan
         /\ RowsPerIMCU' = RowsPerIMCU
         /\ \A c : MCU_width(c)' = MCU_width(c) /\ MCU_height(c)' = MCU_height(c)
         /\ BlocksBefore' = BlocksBefore /\ blocks_in_MCU' = blocks_in_MCU
<1>1. Comps' = Comps
  BY ImageKept DEF Comps, Scan
<1>2. Interleaved <=> Interleaved'
  BY <1>1 DEF Interleaved
<1>3. MCUs_per_row' = MCUs_per_row /\ MCU_rows_in_scan' = MCU_rows_in_scan
  <2>1. MCUs_per_row = IF Interleaved THEN across ELSE width_in_blocks(Comps[1])
    BY DEF MCUs_per_row, across
  <2>2. (MCUs_per_row = IF Interleaved THEN across ELSE width_in_blocks(Comps[1]))'
    BY DEF MCUs_per_row, across
  <2>3. MCU_rows_in_scan = IF Interleaved THEN total_iMCU_rows ELSE height_in_blocks(Comps[1])
    BY DEF MCU_rows_in_scan, total_iMCU_rows
  <2>4. (MCU_rows_in_scan = IF Interleaved THEN total_iMCU_rows ELSE height_in_blocks(Comps[1]))'
    BY DEF MCU_rows_in_scan, total_iMCU_rows
  <2> QED BY <2>1, <2>2, <2>3, <2>4, <1>1, <1>2, ImageKept
<1>4. RowsPerIMCU' = RowsPerIMCU
  BY <1>1, <1>2 DEF RowsPerIMCU
<1>5. \A c : MCU_width(c)' = MCU_width(c) /\ MCU_height(c)' = MCU_height(c)
  BY <1>2 DEF MCU_width, MCU_height
<1>6. InAScan'
  BY DEF InAScan
<1>7. BlocksBefore' = BlocksBefore
  <2>1. /\ Len(Comps) \in Nat
        /\ MCUSizes \in [1 .. Len(Comps) -> Nat] /\ SumsOf(BlocksBefore, MCUSizes, Len(Comps))
    BY BlocksBeforeIs, CompsTypes
  <2>3. (InAScan => /\ MCUSizes \in [1 .. Len(Comps) -> Nat \ {0}]
                    /\ SumsOf(BlocksBefore, MCUSizes, Len(Comps)))'
    BY BlocksBeforeIs, PTL
  <2>4. MCUSizes' = MCUSizes
    BY <1>1, <1>5 DEF MCUSizes
  <2>5. SumsOf(BlocksBefore', MCUSizes, Len(Comps))
    BY <2>3, <2>4, <1>1, <1>6
  <2> QED BY <2>1, <2>5, SumsUnique
<1>8. blocks_in_MCU' = blocks_in_MCU
  BY <1>1, <1>7 DEF blocks_in_MCU
<1> QED BY <1>1, <1>2, <1>3, <1>4, <1>5, <1>7, <1>8

-------------------------------------------------------------------------------
(* Reading on                                                              *)

\* The MCUs of the scan before this iMCU row.
FirstMCU == input_iMCU_row * RowsPerIMCU * MCUs_per_row

LEMMA InAScanIs ==
  ASSUME Counters, input_scan_number > 0
  PROVE  InAScan
<1>1. image.scans \in Seq(ScanHeader)
  BY CoefAssumption DEF CoefAssumption, Counters
<1> QED BY <1>1 DEF Counters, InAScan

\* In a scan: where the counters stand.
LEMMA ReachedIs ==
  ASSUME Counters, InputPlace, consume_input = "data"
  PROVE  /\ InAScan /\ input_iMCU_row \in 0 .. total_iMCU_rows - 1
         /\ FirstMCU \in Nat
         /\ Resume \in Nat /\ MCUsInRow \in Nat /\ Resume < MCUsInRow
         /\ Reached = FirstMCU + Resume
<1>1. InAScan
  BY InAScanIs DEF Counters, InputPlace
<1>2. /\ input_iMCU_row \in 0 .. total_iMCU_rows - 1
      /\ MCU_vert_offset \in Nat /\ MCU_ctr \in Nat
      /\ MCU_vert_offset < MCU_rows_per_iMCU_row /\ MCU_ctr < MCUs_per_row
  BY <1>1, Geometry DEF Counters, InputPlace, InAScan
<1>3. MCU_rows_per_iMCU_row \in Nat \ {0} /\ MCUs_per_row \in Nat \ {0}
      /\ RowsPerIMCU \in Nat \ {0} /\ input_iMCU_row \in Nat
  BY <1>1, <1>2, RowsOfIMCU, ScanGeometry
<1> DEFINE y == MCU_vert_offset
           x == MCU_ctr
           H == MCU_rows_per_iMCU_row
           W == MCUs_per_row
           base == input_iMCU_row * RowsPerIMCU
<1>4. base \in Nat /\ y \in Nat /\ x \in Nat /\ H \in Nat \ {0} /\ W \in Nat \ {0} /\ y < H /\ x < W
  BY <1>2, <1>3
<1>5. Resume = y * W + x /\ MCUsInRow = H * W /\ FirstMCU = base * W
      /\ Reached = (base + y) * W + x
  BY DEF Resume, MCUsInRow, FirstMCU, Reached
<1> HIDE DEF y, x, H, W, base
<1>6. y * W \in Nat /\ H * W \in Nat /\ base * W \in Nat
  BY <1>4
<1>7. (y + 1) * W <= H * W
  BY <1>4, ProductOrder
<1>8. (y + 1) * W = y * W + W /\ (base + y) * W = base * W + y * W
  BY <1>4, SumTimes
<1>9. Resume \in Nat /\ MCUsInRow \in Nat /\ Resume < MCUsInRow
  BY <1>4, <1>5, <1>6, <1>7, <1>8
<1>10. Reached = FirstMCU + Resume /\ FirstMCU \in Nat
  BY <1>4, <1>5, <1>6, <1>8
<1> QED BY <1>1, <1>2, <1>9, <1>10

\* A call decodes MCUs and leaves the counters at the next one to decode.
LEMMA DecodeStep ==
  ASSUME Counters, InputPlace, error = "none", consume_input = "data", image' = image,
         NEW stop \in Resume .. MCUsInRow, DecodeUntil(stop)
  PROVE  /\ input_scan_number' = input_scan_number
         /\ MCU_vert_offset' \in Nat /\ MCU_ctr' \in Nat /\ decoded' \in Nat
         /\ stop \in Nat
         /\ stop < MCUsInRow => consume_input' = "data" /\ input_iMCU_row' = input_iMCU_row
         /\ stop = MCUsInRow =>
              /\ input_iMCU_row' = input_iMCU_row + 1
              /\ MCU_vert_offset' = 0 /\ MCU_ctr' = 0
         /\ input_iMCU_row' \in 0 .. total_iMCU_rows
         /\ IF input_iMCU_row' < total_iMCU_rows THEN consume_input' = "data"
            ELSE consume_input' = "markers"
         /\ consume_input' = "data" =>
              MCU_vert_offset' < MCU_rows_per_iMCU_row' /\ MCU_ctr' < MCUs_per_row
         /\ Reached' = FirstMCU + stop
         /\ Reached' \in Nat
         /\ decoded' = Reached' * blocks_in_MCU
<1>1. /\ InAScan /\ input_iMCU_row \in 0 .. total_iMCU_rows - 1
      /\ FirstMCU \in Nat
      /\ Resume \in Nat /\ MCUsInRow \in Nat /\ Resume < MCUsInRow
      /\ Reached = FirstMCU + Resume
  BY ReachedIs
<1>2. /\ decoded' = decoded + (stop - Resume) * blocks_in_MCU
      /\ input_scan_number' = input_scan_number
      /\ stop < MCUsInRow => SavePlace(stop) /\ UNCHANGED <<input_iMCU_row, consume_input>>
      /\ ~(stop < MCUsInRow) => NextRow
  BY DEF DecodeUntil
<1>3. /\ Comps' = Comps /\ (Interleaved <=> Interleaved')
      /\ MCUs_per_row' = MCUs_per_row /\ MCU_rows_in_scan' = MCU_rows_in_scan
      /\ RowsPerIMCU' = RowsPerIMCU
      /\ total_iMCU_rows' = total_iMCU_rows
  BY <1>1, <1>2, ScanKept, ImageKept
<1>4. /\ MCUs_per_row \in Nat \ {0} /\ RowsPerIMCU \in Nat \ {0} /\ total_iMCU_rows \in Nat \ {0}
      /\ blocks_in_MCU \in Nat \ {0} /\ input_iMCU_row \in Nat
      /\ MCU_rows_per_iMCU_row \in Nat \ {0}
      /\ input_iMCU_row < total_iMCU_rows - 1 => MCU_rows_per_iMCU_row = RowsPerIMCU
      /\ input_iMCU_row = total_iMCU_rows - 1 =>
           input_iMCU_row * RowsPerIMCU + MCU_rows_per_iMCU_row = MCU_rows_in_scan
  <2>1. MCUs_per_row \in Nat \ {0} /\ RowsPerIMCU \in 1 .. 4
    BY <1>1, ScanGeometry
  <2>2. total_iMCU_rows \in Nat \ {0} /\ input_iMCU_row \in Nat
    BY <1>1, Geometry DEF InAScan
  <2>3. blocks_in_MCU \in Nat \ {0}
    BY <1>1, BlocksOfMCU
  <2>4. /\ MCU_rows_per_iMCU_row \in 1 .. RowsPerIMCU
        /\ input_iMCU_row < total_iMCU_rows - 1 => MCU_rows_per_iMCU_row = RowsPerIMCU
        /\ input_iMCU_row = total_iMCU_rows - 1 =>
             input_iMCU_row * RowsPerIMCU + MCU_rows_per_iMCU_row = MCU_rows_in_scan
    BY <1>1, RowsOfIMCU
  <2>5. MCU_rows_per_iMCU_row \in Nat \ {0} /\ RowsPerIMCU \in Nat \ {0}
    BY <2>1, <2>4
  <2> QED BY <2>1, <2>2, <2>3, <2>4, <2>5
<1>5. stop \in Nat /\ Resume <= stop /\ stop <= MCUsInRow
  BY <1>1
<1> DEFINE W == MCUs_per_row
           H == MCU_rows_per_iMCU_row
           base == input_iMCU_row * RowsPerIMCU
<1>6. W \in Nat \ {0} /\ H \in Nat \ {0} /\ base \in Nat
  BY <1>4
<1>7. MCUsInRow = H * W /\ FirstMCU = base * W
  BY DEF MCUsInRow, FirstMCU
<1>8. Reached' = IF consume_input' = "data"
                 THEN (input_iMCU_row' * RowsPerIMCU + MCU_vert_offset') * W + MCU_ctr'
                 ELSE W * MCU_rows_in_scan
  BY <1>3 DEF Reached
<1>9. /\ decoded' \in Nat
      /\ Reached' = FirstMCU + stop => decoded' = Reached' * blocks_in_MCU
  <2>1. decoded = Reached * blocks_in_MCU
    BY <1>1, error = "none" DEF InputPlace, InAScan, Counters
  <2>2. Reached + (stop - Resume) = FirstMCU + stop /\ Reached \in Nat /\ stop - Resume \in Nat
    BY <1>1, <1>5
  <2>3. (Reached + (stop - Resume)) * blocks_in_MCU
          = Reached * blocks_in_MCU + (stop - Resume) * blocks_in_MCU
    BY <2>2, <1>4, SumTimes
  <2>4. (stop - Resume) * blocks_in_MCU \in Nat
    BY <2>2, <1>4
  <2> QED BY <1>2, <2>1, <2>2, <2>3, <2>4, <1>1 DEF Counters
<1>10. CASE stop < MCUsInRow
  <2>1. /\ MCU_vert_offset' = stop \div W /\ MCU_ctr' = stop % W
        /\ input_iMCU_row' = input_iMCU_row /\ consume_input' = "data"
    BY <1>2, <1>10 DEF SavePlace
  <2>2. MCU_rows_per_iMCU_row' = H
    BY <2>1, <1>3, ImageKept DEF MCU_rows_per_iMCU_row, last_row_height
  <2> HIDE DEF W, H, base
  <2>3. /\ stop \div W \in Int /\ (stop \div W) * W <= stop /\ stop < (stop \div W) * W + W
        /\ stop % W = stop - (stop \div W) * W
    BY <1>5, <1>6, DivIs, RemainderIs, stop \in Int
  <2> DEFINE q == stop \div W
  <2>4. q \in Int /\ q * W <= stop /\ stop < q * W + W /\ stop % W = stop - q * W /\ q * W \in Int
    BY <2>3, <1>6
  <2> HIDE DEF q
  <2>5. q \in Nat /\ q < H
    <3>1. (q + 1) * W = q * W + W /\ 0 * W = 0
      BY <2>4, <1>6
    <3>2. 0 * W < (q + 1) * W /\ q * W < H * W
      BY <3>1, <2>4, <1>5, <1>7, <1>10, <1>6, <1>1
    <3>3. 0 < q + 1 /\ q < H
      BY <3>2, <2>4, <1>6, ProductOrder, 0 \in Int
    <3> QED BY <3>3, <2>4
  <2>6. stop % W \in Nat /\ stop % W < W
    BY <2>4, <1>5, <1>6
  <2>7. MCU_vert_offset' = q /\ MCU_ctr' = stop - q * W
    BY <2>1, <2>4 DEF q
  <2>8. Reached' = FirstMCU + stop
    <3>1. Reached' = (base + q) * W + (stop - q * W)
      BY <1>8, <2>1, <2>7 DEF base
    <3>2. (base + q) * W = base * W + q * W
      BY <1>6, <2>4, SumTimes
    <3> QED BY <3>1, <3>2, <1>7, <1>6, <2>4, <1>5, <1>1
  <2>9. FirstMCU + stop \in Nat
    BY <1>1, <1>5
  <2> QED BY <1>1, <1>2, <1>3, <1>4, <1>5, <1>9, <1>10, <2>1, <2>2, <2>4, <2>5, <2>6, <2>7, <2>8, <2>9
          DEF W, H
<1>11. CASE stop = MCUsInRow
  <2>0. ~(stop < MCUsInRow)
    BY <1>11, <1>1
  <2>1. /\ input_iMCU_row' = input_iMCU_row + 1 /\ MCU_vert_offset' = 0 /\ MCU_ctr' = 0
        /\ consume_input' = IF input_iMCU_row + 1 < total_iMCU_rows THEN "data" ELSE "markers"
    BY <1>2, <2>0 DEF NextRow
  <2>2. consume_input' = "data" => 0 < MCU_rows_per_iMCU_row'
    <3> SUFFICES ASSUME consume_input' = "data"  PROVE 0 < MCU_rows_per_iMCU_row'
      OBVIOUS
    <3>1. InAScan' /\ input_iMCU_row' \in 0 .. total_iMCU_rows' - 1 /\ RowsPerIMCU' \in Nat
      BY <1>1, <1>2, <1>3, <1>4, <2>1 DEF InAScan
    <3>2. (InAScan /\ input_iMCU_row \in 0 .. total_iMCU_rows - 1 =>
             /\ MCU_rows_per_iMCU_row \in 1 .. RowsPerIMCU
             /\ input_iMCU_row < total_iMCU_rows - 1 => MCU_rows_per_iMCU_row = RowsPerIMCU
             /\ input_iMCU_row = total_iMCU_rows - 1 =>
                  input_iMCU_row * RowsPerIMCU + MCU_rows_per_iMCU_row = MCU_rows_in_scan)'
      BY RowsOfIMCU, PTL
    <3>3. (MCU_rows_per_iMCU_row \in 1 .. RowsPerIMCU)'
      BY <3>1, <3>2
    <3> QED BY <3>1, <3>3
  <2> HIDE DEF W, H, base
  <2>3. base * W + H * W = (base + H) * W /\ base * W \in Nat /\ H * W \in Nat
    BY <1>6, SumTimes
  <2>4. Reached' = (base + H) * W
    <3>1. CASE input_iMCU_row + 1 < total_iMCU_rows
      <4>1. H = RowsPerIMCU
        BY <1>4, <3>1 DEF H
      <4>2. (input_iMCU_row + 1) * RowsPerIMCU = base + H
        BY <4>1, <1>4 DEF base
      <4> QED BY <4>2, <1>8, <2>1, <3>1, <1>6
    <3>2. CASE input_iMCU_row = total_iMCU_rows - 1
      <4>1. MCU_rows_in_scan = base + H
        BY <1>4, <3>2 DEF base, H
      <4>2. W * (base + H) = (base + H) * W
        BY <1>6
      <4>3. Reached' = W * MCU_rows_in_scan
        BY <1>8, <2>1, <3>2, <1>4
      <4> QED BY <4>1, <4>2, <4>3
    <3> QED BY <3>1, <3>2, <1>1, <1>4
  <2>5. Reached' = FirstMCU + stop /\ Reached' \in Nat
    BY <2>3, <2>4, <1>7, <1>11
  <2> QED BY <1>1, <1>2, <1>3, <1>4, <1>5, <1>9, <1>11, <2>0, <2>1, <2>2, <2>5 DEF W, H
<1> QED BY <1>10, <1>11, <1>1, <1>5

-------------------------------------------------------------------------------
(* The counters                                                            *)

\* The strip of an iMCU row lies in the array and in the window.
LEMMA StripFits ==
  ASSUME image \in Images, NEW c \in Component, NEW r \in 0 .. total_iMCU_rows - 1
  PROVE  AccessOK(c, r * image.v[c], image.v[c])
<1>1. /\ image.v[c] \in 1 .. 4 /\ total_iMCU_rows \in Nat \ {0}
      /\ ArrayRows(c) = total_iMCU_rows * image.v[c]
  BY Geometry, ImageTypes
<1> DEFINE f == image.v[c]
           t == total_iMCU_rows
<1>2. f \in Nat \ {0} /\ t \in Nat /\ r \in Nat /\ r + 1 <= t
  BY <1>1
<1>3. f <= MaxAccess(c)
  BY <1>1 DEF MaxAccess
<1> HIDE DEF f, t
<1>4. (r + 1) * f <= t * f /\ (r + 1) * f = r * f + f
  BY <1>2, ProductOrder
<1> QED BY <1>1, <1>3, <1>4 DEF AccessOK, f, t

\* What smoothing accesses does as well.
LEMMA SmoothStripFits ==
  ASSUME image \in Images, image.progressive_mode,
         output_iMCU_row \in 0 .. total_iMCU_rows - 1, NEW c \in Component
  PROVE  AccessOK(c, IF output_iMCU_row > 0 THEN (output_iMCU_row - 1) * image.v[c] ELSE 0,
                  (IF output_iMCU_row < total_iMCU_rows - 1 THEN 2 * image.v[c] ELSE BlockRows(c))
                    + (IF output_iMCU_row > 0 THEN image.v[c] ELSE 0))
<1> DEFINE f == image.v[c]
           t == total_iMCU_rows
           o == output_iMCU_row
<1>1. /\ f \in 1 .. 4 /\ t \in Nat \ {0} /\ o \in 0 .. t - 1
      /\ ArrayRows(c) = t * f
      /\ LastOf(height_in_blocks(c), f) \in 1 .. f
  BY Geometry, ImageTypes
<1>2. MaxAccess(c) = 3 * f
  BY DEF MaxAccess
<1>3. o = t - 1 => BlockRows(c) = LastOf(height_in_blocks(c), f)
  BY <1>1 DEF BlockRows
<1> DEFINE b == BlockRows(c)
<1>4. o = t - 1 => b \in 1 .. f
  BY <1>1, <1>3
<1> SUFFICES AccessOK(c, IF o > 0 THEN (o - 1) * f ELSE 0,
                      (IF o < t - 1 THEN 2 * f ELSE b) + (IF o > 0 THEN f ELSE 0))
  OBVIOUS
<1> HIDE DEF f, t, o, b
<1>5. (o - 1) * f = o * f - f /\ (o + 1) * f = o * f + f /\ (o + 2) * f = o * f + 2 * f
      /\ o * f \in Int /\ t * f \in Int
  BY <1>1
<1>6. (o + 1) * f <= t * f
  BY <1>1, ProductOrder
<1>7. o < t - 1 => (o + 2) * f <= t * f
  BY <1>1, ProductOrder
<1>8. o = 0 => o * f = 0
  BY <1>1
<1>9. CASE o = 0
  BY <1>1, <1>2, <1>4, <1>5, <1>6, <1>7, <1>8, <1>9 DEF AccessOK
<1>10. CASE o > 0 /\ o < t - 1
  BY <1>1, <1>2, <1>5, <1>7, <1>10 DEF AccessOK
<1>11. CASE o > 0 /\ o = t - 1
  <2>1. (o - 1) * f + (b + f) <= t * f /\ b + f <= 3 * f
    BY <1>1, <1>4, <1>5, <1>6, <1>11
  <2> QED BY <1>1, <1>2, <1>11, <2>1 DEF AccessOK
<1> QED BY <1>1, <1>9, <1>10, <1>11

\* What the input's place says is about the input and the scan only.
LEMMA InputKept ==
  ASSUME Counters, InputPlace, error' = error,
         UNCHANGED <<image, consume_input, input_scan_number, input_iMCU_row,
                     MCU_vert_offset, MCU_ctr, decoded>>
  PROVE  /\ InputPlace'
         /\ InAScan => Reached' = Reached
<1>1. CASE InAScan
  <2>1. /\ Comps' = Comps /\ (Interleaved <=> Interleaved') /\ RowsPerIMCU' = RowsPerIMCU
        /\ MCUs_per_row' = MCUs_per_row /\ MCU_rows_in_scan' = MCU_rows_in_scan
        /\ blocks_in_MCU' = blocks_in_MCU
    BY <1>1, ScanKept
  <2>2. total_iMCU_rows' = total_iMCU_rows /\ (has_multiple_scans <=> has_multiple_scans')
    BY ImageKept
  <2>3. MCU_rows_per_iMCU_row' = MCU_rows_per_iMCU_row
    BY <2>1, ImageKept DEF MCU_rows_per_iMCU_row, last_row_height
  <2>4. Reached' = Reached
    BY <2>1 DEF Reached
  <2> QED BY <2>1, <2>2, <2>3, <2>4 DEF InputPlace
<1>2. CASE ~InAScan
  <2>1. input_scan_number = 0
    BY <1>2, InAScanIs DEF Counters
  <2>2. consume_input = "markers"
    BY <2>1 DEF InputPlace
  <2> QED BY <1>2, <2>1, <2>2 DEF InputPlace
<1> QED BY <1>1, <1>2

LEMMA InitPlace == Init => Place
<1> SUFFICES ASSUME Init  PROVE Place
  OBVIOUS
<1>1. image \in Images /\ total_iMCU_rows \in Nat
  BY Geometry DEF Init
<1>2. Len(image.scans) \in Nat
  BY <1>1, CoefAssumption DEF CoefAssumption
<1>0. /\ error = "none" /\ consume_input = "markers" /\ input_scan_number = 0
      /\ input_iMCU_row = 0 /\ MCU_vert_offset = 0 /\ MCU_ctr = 0 /\ decoded = 0
      /\ output_scan_number = 0 /\ output_iMCU_row = 0 /\ decompress_data = "none"
      /\ emitted = FALSE
  BY DEF Init
<1>3. Counters
  <2>1. MaxTarget \in Nat
    BY BoundsAssumption DEF BoundsAssumption
  <2>2. \A m \in Nat : 0 \in 0 .. m
    OBVIOUS
  <2>3. 0 \in 0 .. MaxTarget /\ 0 \in 0 .. Len(image.scans) /\ 0 \in 0 .. total_iMCU_rows
    BY <1>1, <1>2, <2>1, <2>2
  <2>4. 0 \in Nat /\ FALSE \in BOOLEAN
    OBVIOUS
  <2> QED BY <1>0, <1>1, <2>3, <2>4, Zenon DEF Counters
<1>4. InputPlace
  BY <1>0 DEF InputPlace
<1>5. OutputPlace
  BY <1>0 DEF OutputPlace
<1> QED BY <1>3, <1>4, <1>5 DEF Place

LEMMA ConsumeDataPlace ==
  ASSUME Place, ConsumeData
  PROVE  Place' /\ error' = "none"
<1>1. /\ error = "none" /\ consume_input = "data" /\ FullBuffer
      /\ image' = image /\ emitted' = FALSE
      /\ UNCHANGED <<output_scan_number, output_iMCU_row, decompress_data>>
  BY DEF ConsumeData
<1>2. InAScan /\ input_iMCU_row \in 0 .. total_iMCU_rows - 1
  BY <1>1, ReachedIs DEF Place
<1>3. ~ \E c \in {Comps[i] : i \in DOMAIN Comps} :
          ~AccessOK(c, input_iMCU_row * image.v[c], image.v[c])
  BY <1>2, CompsTypes, StripFits DEF InAScan
<1>4. PICK stop \in Resume .. MCUsInRow : DecodeUntil(stop) /\ error' = error
  BY <1>3 DEF ConsumeData
<1>5. /\ input_scan_number' = input_scan_number
      /\ MCU_vert_offset' \in Nat /\ MCU_ctr' \in Nat /\ decoded' \in Nat
      /\ input_iMCU_row' \in 0 .. total_iMCU_rows
      /\ consume_input' \in {"data", "markers"}
      /\ consume_input' = "data" =>
           /\ input_iMCU_row' < total_iMCU_rows
           /\ MCU_vert_offset' < MCU_rows_per_iMCU_row' /\ MCU_ctr' < MCUs_per_row
      /\ decoded' = Reached' * blocks_in_MCU
  BY <1>1, <1>4, DecodeStep DEF Place
<1>6. /\ total_iMCU_rows' = total_iMCU_rows /\ (has_multiple_scans <=> has_multiple_scans')
      /\ (FullBuffer <=> FullBuffer')
      /\ MCUs_per_row' = MCUs_per_row /\ blocks_in_MCU' = blocks_in_MCU
  BY <1>1, <1>2, <1>5, ImageKept, ScanKept
<1>7. Counters'
  BY <1>1, <1>4, <1>5, <1>6 DEF Place, Counters
<1>8. InputPlace'
  BY <1>1, <1>2, <1>4, <1>5, <1>6 DEF Place, InputPlace
<1>9. OutputPlace'
  BY <1>1, <1>5, <1>6 DEF Place, OutputPlace
<1> QED BY <1>1, <1>4, <1>7, <1>8, <1>9 DEF Place

LEMMA DefineTablePlace ==
  ASSUME Place, DefineTable
  PROVE  Place'
<1>1. UNCHANGED <<image, error, consume_input, input_scan_number, input_iMCU_row,
                  MCU_vert_offset, MCU_ctr, decoded, output_scan_number, output_iMCU_row,
                  decompress_data, emitted>>
  BY DEF DefineTable, inputVars, outputVars
<1>2. total_iMCU_rows' = total_iMCU_rows /\ (FullBuffer <=> FullBuffer')
  BY <1>1, ImageKept
<1>3. Counters'
  BY <1>1, <1>2 DEF Place, Counters
<1>4. InputPlace'
  BY <1>1, InputKept DEF Place
<1>5. OutputPlace'
  BY <1>1, <1>2 DEF Place, OutputPlace
<1> QED BY <1>3, <1>4, <1>5 DEF Place

LEMMA StartInputPassPlace ==
  ASSUME Place, StartInputPass
  PROVE  /\ Place'
         /\ input_scan_number' = input_scan_number + 1
         /\ input_scan_number' \in DOMAIN image.scans
         /\ error' = "none" => Reached' = 0
<1>1. /\ error = "none" /\ consume_input = "markers" /\ image' = image
      /\ input_scan_number < Len(image.scans)
      /\ input_scan_number' = input_scan_number + 1
      /\ error' \in {"none", "NO_QUANT_TABLE", "EOI_EXPECTED"}
      /\ input_scan_number + 1 > 1 /\ ~has_multiple_scans => error' # "none"
      /\ UNCHANGED <<output_scan_number, output_iMCU_row, decompress_data, emitted>>
      /\ IF error' = "none"
           THEN /\ consume_input' = "data"
                /\ input_iMCU_row' = 0 /\ MCU_vert_offset' = 0 /\ MCU_ctr' = 0
                /\ decoded' = 0
           ELSE UNCHANGED <<consume_input, input_iMCU_row, MCU_vert_offset, MCU_ctr, decoded>>
  BY DEF StartInputPass, UnexpectedScan, outputVars
<1>2. /\ total_iMCU_rows' = total_iMCU_rows /\ (has_multiple_scans <=> has_multiple_scans')
      /\ (FullBuffer <=> FullBuffer') /\ total_iMCU_rows \in Nat \ {0}
      /\ image.scans \in Seq(ScanHeader) /\ input_scan_number \in Nat
  BY <1>1, ImageKept, Geometry, CoefAssumption DEF CoefAssumption, Place, Counters
<1>3. input_scan_number' \in DOMAIN image.scans
  BY <1>1, <1>2
<1>4. Counters'
  BY <1>1, <1>2 DEF Place, Counters
<1>5. InputPlace' /\ (error' = "none" => Reached' = 0)
  <2>1. CASE error' = "none"
    <3>1. InAScan'
      BY <1>1, <1>3 DEF InAScan, Place, Counters
    <3>2. (InAScan => /\ MCUs_per_row \in Nat \ {0} /\ MCU_rows_in_scan \in Nat \ {0}
                      /\ RowsPerIMCU \in 1 .. 4
                      /\ (total_iMCU_rows - 1) * RowsPerIMCU < MCU_rows_in_scan
                      /\ MCU_rows_in_scan <= total_iMCU_rows * RowsPerIMCU
                      /\ ~Interleaved =>
                           /\ RowsPerIMCU = image.v[Comps[1]]
                           /\ MCUs_per_row = width_in_blocks(Comps[1])
                           /\ MCU_rows_in_scan = height_in_blocks(Comps[1])
                      /\ Interleaved =>
                           /\ RowsPerIMCU = 1
                           /\ MCUs_per_row = across /\ MCU_rows_in_scan = total_iMCU_rows)'
      BY ScanGeometry, PTL
    <3>3. (InAScan /\ input_iMCU_row \in 0 .. total_iMCU_rows - 1 =>
             /\ MCU_rows_per_iMCU_row \in 1 .. RowsPerIMCU
             /\ input_iMCU_row < total_iMCU_rows - 1 => MCU_rows_per_iMCU_row = RowsPerIMCU
             /\ input_iMCU_row = total_iMCU_rows - 1 =>
                  input_iMCU_row * RowsPerIMCU + MCU_rows_per_iMCU_row = MCU_rows_in_scan)'
      BY RowsOfIMCU, PTL
    <3>4. (InAScan => /\ BlocksBefore \in [1 .. Len(Comps) + 1 -> Nat]
                      /\ blocks_in_MCU \in Nat \ {0}
                      /\ ~Interleaved => BlocksBefore[1] = 0 /\ blocks_in_MCU = 1
                      /\ Interleaved => BlocksBefore = BlocksUpTo(Comps))'
      BY BlocksOfMCU, PTL
    <3>5. MCUs_per_row' \in Nat \ {0} /\ RowsPerIMCU' \in 1 .. 4 /\ blocks_in_MCU' \in Nat \ {0}
      BY <3>1, <3>2, <3>4
    <3>6. MCU_rows_per_iMCU_row' \in 1 .. RowsPerIMCU'
      <4>1. input_iMCU_row' \in 0 .. total_iMCU_rows' - 1
        BY <1>1, <1>2, <2>1
      <4> QED BY <4>1, <3>1, <3>3
    <3>7. Reached' = 0
      <4>1. Reached' = (0 * RowsPerIMCU' + 0) * MCUs_per_row' + 0
        BY <1>1, <2>1 DEF Reached
      <4>2. \A r \in Int, w \in Int : (0 * r + 0) * w + 0 = 0
        OBVIOUS
      <4>3. RowsPerIMCU' \in Int /\ MCUs_per_row' \in Int
        BY <3>5
      <4> QED BY <4>1, <4>2, <4>3, Zenon
    <3>8. decoded' = Reached' * blocks_in_MCU'
      <4>1. \A n \in Int : 0 * n = 0
        OBVIOUS
      <4>3. blocks_in_MCU' \in Int
        BY <3>5
      <4>2. 0 * blocks_in_MCU' = 0
        BY <4>1, <4>3, Zenon
      <4> QED BY <1>1, <2>1, <3>7, <4>2
    <3>9. 0 < MCU_rows_per_iMCU_row' /\ 0 < MCUs_per_row'
      BY <3>5, <3>6
    <3> QED BY <1>1, <1>2, <2>1, <3>7, <3>8, <3>9 DEF InputPlace
  <2>2. CASE error' # "none"
    BY <1>1, <1>2, <2>2 DEF InputPlace
  <2> QED BY <2>1, <2>2
<1>6. OutputPlace'
  <2>1. decompress_data = "onepass" => error' # "none"
    BY <1>1, <1>2 DEF Place, OutputPlace, FullBuffer
  <2>2. CASE error' = "none"
    BY <1>1, <1>2, <2>1, <2>2 DEF Place, OutputPlace, Counters
  <2>3. CASE error' # "none"
    BY <1>1, <1>2, <2>3 DEF Place, OutputPlace, Counters
  <2> QED BY <2>2, <2>3
<1> QED BY <1>1, <1>3, <1>4, <1>5, <1>6 DEF Place

LEMMA ReachEOIPlace ==
  ASSUME Place, ReachEOI
  PROVE  Place'
<1>1. /\ error = "none" /\ error' = error /\ consume_input = "markers"
      /\ input_scan_number = Len(image.scans) /\ consume_input' = "EOI"
      /\ output_scan_number' = IF output_scan_number > input_scan_number
                               THEN input_scan_number ELSE output_scan_number
      /\ UNCHANGED <<image, input_scan_number, input_iMCU_row, MCU_vert_offset, MCU_ctr,
                     decoded, output_iMCU_row, decompress_data, emitted>>
  BY DEF ReachEOI
<1>2. total_iMCU_rows' = total_iMCU_rows /\ (FullBuffer <=> FullBuffer')
      /\ (has_multiple_scans <=> has_multiple_scans')
  BY <1>1, ImageKept
<1>3. input_scan_number \in Nat \ {0}
  <2>1. image.scans \in Seq(ScanHeader) /\ image.scans # <<>>
    BY CoefAssumption DEF CoefAssumption, Place, Counters
  <2> QED BY <1>1, <2>1
<1>4. Counters'
  <2>1. output_scan_number' \in 0 .. MaxTarget
    <3>1. output_scan_number \in 0 .. MaxTarget /\ MaxTarget \in Nat
      BY BoundsAssumption DEF BoundsAssumption, Place, Counters
    <3> QED BY <1>1, <1>3, <3>1
  <2>2. input_scan_number' \in 0 .. Len(image'.scans)
    BY <1>1, <1>3
  <2> HIDE <1>1
  <2>3. /\ error' = error /\ consume_input' = "EOI"
        /\ UNCHANGED <<image, input_iMCU_row, MCU_vert_offset, MCU_ctr,
                       decoded, output_iMCU_row, decompress_data, emitted>>
    BY <1>1
  <2> QED BY <1>2, <2>1, <2>2, <2>3 DEF Place, Counters
<1>5. InputPlace'
  <2>1. InAScan
    BY <1>3, InAScanIs DEF Place
  <2>2. MCUs_per_row' = MCUs_per_row /\ MCU_rows_in_scan' = MCU_rows_in_scan
        /\ blocks_in_MCU' = blocks_in_MCU
    BY <1>1, <2>1, ScanKept
  <2>3. Reached' = Reached
    BY <1>1, <2>2 DEF Reached
  <2> QED BY <1>1, <1>2, <1>3, <2>2, <2>3 DEF Place, InputPlace
<1>6. OutputPlace'
  BY <1>1, <1>2, <1>3 DEF Place, OutputPlace, Counters
<1> QED BY <1>4, <1>5, <1>6 DEF Place

LEMMA StartOutputPassPlace ==
  ASSUME Place, NEW target \in 1 .. MaxTarget, NEW method, NEW smooth,
         StartOutputPass(target, method, smooth)
  PROVE  Place'
<1>1. /\ error = "none" /\ MayStart(target)
      /\ output_scan_number' = target /\ output_iMCU_row' = 0 /\ emitted' = FALSE
      /\ FullBuffer => decompress_data' \in {"data", "smooth"}
      /\ ~FullBuffer => decompress_data' = "onepass"
      /\ decompress_data' = "smooth" => SmoothingOK
      /\ UNCHANGED <<image, error, consume_input, input_scan_number, input_iMCU_row,
                     MCU_vert_offset, MCU_ctr, decoded>>
  BY DEF StartOutputPass, inputVars
<1>2. /\ total_iMCU_rows' = total_iMCU_rows /\ (FullBuffer <=> FullBuffer')
      /\ total_iMCU_rows \in Nat
      /\ FullBuffer \in BOOLEAN /\ image.buffered_image \in BOOLEAN
      /\ image.buffered_image => FullBuffer
  <2>1. image \in Images
    BY DEF Place, Counters
  <2>2. image.buffered_image \in BOOLEAN /\ total_iMCU_rows \in Nat
    BY <2>1, ImageTypes, Geometry
  <2>3. FullBuffer <=> has_multiple_scans \/ image.buffered_image
    BY DEF FullBuffer
  <2>4. FullBuffer \in BOOLEAN
    BY DEF FullBuffer
  <2> QED BY <1>1, <2>2, <2>3, <2>4, ImageKept
<1>3. /\ input_scan_number > 0 /\ decompress_data = "none"
      /\ ~FullBuffer => consume_input = "data"
      /\ consume_input = "EOI" => target <= input_scan_number
  <2>1. input_scan_number > 0 /\ decompress_data = "none"
    BY <1>1 DEF MayStart
  <2>2. CASE image.buffered_image
    <3>1. target \in 1 .. (IF consume_input = "EOI" THEN input_scan_number ELSE MaxTarget)
      BY <1>1, <1>2, <2>2 DEF MayStart
    <3>2. consume_input = "EOI" => target \in 1 .. input_scan_number
      BY <3>1
    <3> QED BY <1>2, <2>1, <2>2, <3>2 DEF Place, Counters
  <2>3. CASE FullBuffer /\ ~image.buffered_image
    <3>1. target = input_scan_number
      BY <1>1, <1>2, <2>3 DEF MayStart
    <3> QED BY <1>2, <2>1, <2>3, <3>1 DEF Place, Counters
  <2>4. CASE ~FullBuffer
    <3>1. consume_input = "data" /\ target = input_scan_number
      BY <1>1, <1>2, <2>4 DEF MayStart
    <3> QED BY <1>2, <2>1, <2>4, <3>1 DEF Place, Counters
  <2> QED BY <2>2, <2>3, <2>4
<1>4. Counters'
  <2>1. target \in 0 .. MaxTarget /\ 0 \in 0 .. total_iMCU_rows
    BY <1>2, BoundsAssumption DEF BoundsAssumption
  <2>2. decompress_data' \in {"none", "onepass", "data", "smooth"}
    BY <1>1, <1>2
  <2> QED BY <1>1, <1>2, <2>1, <2>2 DEF Place, Counters
<1>5. InputPlace'
  BY <1>1, InputKept DEF Place
<1>6. OutputPlace'
  <2>1. decompress_data' = "smooth" => image'.progressive_mode
    BY <1>1 DEF SmoothingOK
  <2>2. output_scan_number' > 0
    BY <1>1, BoundsAssumption DEF BoundsAssumption
  <2>3. ~FullBuffer => input_iMCU_row = 0
    BY <1>3 DEF Place, OutputPlace
  <2> QED BY <1>1, <1>2, <1>3, <2>1, <2>2, <2>3 DEF OutputPlace
<1> QED BY <1>4, <1>5, <1>6 DEF Place

LEMMA FinishOutputPassPlace ==
  ASSUME Place, FinishOutputPass
  PROVE  Place'
<1>1. /\ error = "none" /\ decompress_data # "none"
      /\ ~image.buffered_image => output_iMCU_row = total_iMCU_rows
      /\ decompress_data' = "none" /\ emitted' = FALSE
      /\ UNCHANGED <<image, error, consume_input, input_scan_number, input_iMCU_row,
                     MCU_vert_offset, MCU_ctr, decoded, output_scan_number, output_iMCU_row>>
  BY DEF FinishOutputPass, inputVars
<1>2. total_iMCU_rows' = total_iMCU_rows /\ (FullBuffer <=> FullBuffer')
      /\ total_iMCU_rows \in Nat
  BY <1>1, ImageKept, Geometry DEF Place, Counters
<1>3. Counters'
  BY <1>1, <1>2 DEF Place, Counters
<1>4. InputPlace'
  BY <1>1, InputKept DEF Place
<1>5. OutputPlace'
  <2>1. ~FullBuffer => input_iMCU_row = total_iMCU_rows
    BY <1>1 DEF Place, OutputPlace, Counters, FullBuffer
  <2>2. ~FullBuffer => consume_input # "data"
    BY <1>2, <2>1 DEF Place, InputPlace
  <2> QED BY <1>1, <1>2, <2>2 DEF Place, OutputPlace
<1> QED BY <1>3, <1>4, <1>5 DEF Place

LEMMA DecompressOnepassPlace ==
  ASSUME Place, DecompressOnepass
  PROVE  Place'
<1>1. PICK stop \in Resume .. MCUsInRow :
        /\ DecodeUntil(stop)
        /\ emitted' = (stop = MCUsInRow)
        /\ output_iMCU_row' = IF stop = MCUsInRow THEN output_iMCU_row + 1 ELSE output_iMCU_row
  BY DEF DecompressOnepass
<1>2. /\ error = "none" /\ decompress_data = "onepass" /\ consume_input = "data"
      /\ UNCHANGED <<image, error, output_scan_number, decompress_data>>
  BY DEF DecompressOnepass
<1>3. /\ InAScan /\ input_iMCU_row \in 0 .. total_iMCU_rows - 1
      /\ MCUsInRow \in Nat
  BY <1>2, ReachedIs DEF Place
<1>4. /\ input_scan_number' = input_scan_number
      /\ MCU_vert_offset' \in Nat /\ MCU_ctr' \in Nat /\ decoded' \in Nat
      /\ stop \in Nat
      /\ stop < MCUsInRow => consume_input' = "data" /\ input_iMCU_row' = input_iMCU_row
      /\ stop = MCUsInRow => input_iMCU_row' = input_iMCU_row + 1
      /\ input_iMCU_row' \in 0 .. total_iMCU_rows
      /\ IF input_iMCU_row' < total_iMCU_rows THEN consume_input' = "data"
         ELSE consume_input' = "markers"
      /\ consume_input' = "data" =>
           MCU_vert_offset' < MCU_rows_per_iMCU_row' /\ MCU_ctr' < MCUs_per_row
      /\ decoded' = Reached' * blocks_in_MCU
  BY <1>1, <1>2, DecodeStep DEF Place
<1>5. stop \in Nat /\ (stop < MCUsInRow \/ stop = MCUsInRow)
  BY <1>1, <1>3, <1>4
<1>6. /\ total_iMCU_rows' = total_iMCU_rows /\ (has_multiple_scans <=> has_multiple_scans')
      /\ (FullBuffer <=> FullBuffer') /\ total_iMCU_rows \in Nat
      /\ MCUs_per_row' = MCUs_per_row /\ blocks_in_MCU' = blocks_in_MCU
  BY <1>2, <1>3, <1>4, ImageKept, ScanKept, Geometry DEF InAScan
<1>7. /\ ~FullBuffer /\ input_scan_number > 0 /\ output_iMCU_row = input_iMCU_row
      /\ output_scan_number > 0
  BY <1>2 DEF Place, OutputPlace
<1>8. emitted' \in BOOLEAN /\ (emitted' <=> stop = MCUsInRow)
      /\ output_iMCU_row' = input_iMCU_row'
  BY <1>1, <1>4, <1>5, <1>7
<1>9. consume_input' \in {"data", "markers"}
      /\ (consume_input' = "data" => input_iMCU_row' < total_iMCU_rows)
  BY <1>4
<1>10. Counters'
  BY <1>2, <1>4, <1>6, <1>8, <1>9 DEF Place, Counters
<1>11. InputPlace'
  BY <1>2, <1>4, <1>6, <1>7, <1>9 DEF Place, InputPlace
<1>12. OutputPlace'
  <2>1. emitted' => output_iMCU_row' > 0
    BY <1>1, <1>3, <1>7, <1>8
  <2>2. ~emitted' => consume_input' = "data"
    BY <1>4, <1>5, <1>8
  <2> QED BY <1>2, <1>4, <1>6, <1>7, <1>8, <1>9, <2>1, <2>2 DEF OutputPlace
<1> QED BY <1>10, <1>11, <1>12 DEF Place

\* What emitting an iMCU row from the arrays does to the counters.
LEMMA EmitPlace ==
  ASSUME Place, error = "none", decompress_data \in {"data", "smooth"},
         output_iMCU_row < total_iMCU_rows,
         output_scan_number <= input_scan_number,
         error' = "none", emitted' = TRUE, output_iMCU_row' = output_iMCU_row + 1,
         UNCHANGED <<image, consume_input, input_scan_number, input_iMCU_row,
                     MCU_vert_offset, MCU_ctr, decoded, output_scan_number, decompress_data>>
  PROVE  Place'
<1>1. total_iMCU_rows' = total_iMCU_rows /\ (FullBuffer <=> FullBuffer')
      /\ total_iMCU_rows \in Nat
  BY ImageKept, Geometry DEF Place, Counters
<1>2. Counters'
  BY <1>1 DEF Place, Counters
<1>3. InputPlace'
  BY InputKept DEF Place
<1>4. OutputPlace'
  BY <1>1 DEF Place, OutputPlace, Counters
<1> QED BY <1>2, <1>3, <1>4 DEF Place

LEMMA DecompressDataPlace ==
  ASSUME Place, DecompressData
  PROVE  /\ Place' /\ error' = "none" /\ emitted' = TRUE
         /\ output_iMCU_row \in 0 .. total_iMCU_rows - 1
         /\ output_iMCU_row' = output_iMCU_row + 1
         /\ output_buf' =
              [c \in Component |->
                 IF c \notin image.needed THEN <<>>
                 ELSE [p \in (0 .. BlockRows(c) - 1) \X (0 .. width_in_blocks(c) - 1) |->
                         coef_arrays[c][output_iMCU_row * image.v[c] + p[1]][p[2]]]]
<1>1. /\ error = "none" /\ decompress_data = "data" /\ output_iMCU_row < total_iMCU_rows
      /\ input_scan_number > output_scan_number \/ input_scan_number = output_scan_number
      /\ UNCHANGED <<image, consume_input, input_scan_number, input_iMCU_row, MCU_vert_offset,
                     MCU_ctr, decoded, output_scan_number, decompress_data>>
  BY DEF DecompressData, inputVars
<1>2. image \in Images /\ output_iMCU_row \in 0 .. total_iMCU_rows - 1
      /\ image.needed \subseteq Component
  BY <1>1, Geometry, ImageTypes DEF Place, Counters
<1>3. \A c \in image.needed : AccessOK(c, output_iMCU_row * image.v[c], image.v[c])
  BY <1>2, StripFits
<1>4. /\ error' = error /\ emitted' = TRUE /\ output_iMCU_row' = output_iMCU_row + 1
      /\ output_buf' =
           [c \in Component |->
              IF c \notin image.needed THEN <<>>
              ELSE [p \in (0 .. BlockRows(c) - 1) \X (0 .. width_in_blocks(c) - 1) |->
                      coef_arrays[c][output_iMCU_row * image.v[c] + p[1]][p[2]]]]
  BY <1>3 DEF DecompressData, OutputRefused, EmitFrom
<1>5. output_scan_number <= input_scan_number
  BY <1>1 DEF Place, Counters
<1>6. Place'
  BY <1>1, <1>4, <1>5, EmitPlace
<1> QED BY <1>1, <1>2, <1>4, <1>6

\* What decompress_smooth_data emits for a block.
Smoothed(c, row, col) ==
  LET start == IF output_iMCU_row > 0 THEN (output_iMCU_row - 1) * image.v[c] ELSE 0
      current == IF output_iMCU_row > 0 THEN start + image.v[c] ELSE start
      at(r, x) == coef_arrays[c][current + r][x]
  IN [block |-> at(row, col),
      around |-> [i \in 1 .. 9 |->
        LET r == <<PrevBlockRow(c, row), row, NextBlockRow(c, row)>>
        IN at(r[(i - 1) \div 3 + 1], Columns(c)[col][1 + ((i - 1) % 3)])],
      estimated |-> ACBits(c) # 0,
      bits |-> ACBits(c)]

LEMMA DecompressSmoothDataPlace ==
  ASSUME Place, DecompressSmoothData
  PROVE  /\ Place' /\ error' = "none" /\ emitted' = TRUE
         /\ output_iMCU_row \in 0 .. total_iMCU_rows - 1
         /\ output_iMCU_row' = output_iMCU_row + 1
         /\ output_buf' =
              [c \in Component |->
                 IF c \notin image.needed THEN <<>>
                 ELSE [p \in (0 .. BlockRows(c) - 1) \X (0 .. width_in_blocks(c) - 1) |->
                         Smoothed(c, p[1], p[2])]]
<1>1. /\ error = "none" /\ decompress_data = "smooth" /\ output_iMCU_row < total_iMCU_rows
      /\ \/ input_scan_number > output_scan_number
         \/ input_scan_number = output_scan_number
         \/ consume_input = "EOI"
      /\ UNCHANGED <<image, consume_input, input_scan_number, input_iMCU_row, MCU_vert_offset,
                     MCU_ctr, decoded, output_scan_number, decompress_data>>
  BY DEF DecompressSmoothData, inputVars
<1>2. image \in Images /\ output_iMCU_row \in 0 .. total_iMCU_rows - 1
      /\ image.needed \subseteq Component /\ image.progressive_mode
  BY <1>1, Geometry, ImageTypes DEF Place, Counters, OutputPlace
<1>3. \A c \in image.needed :
        AccessOK(c, IF output_iMCU_row > 0 THEN (output_iMCU_row - 1) * image.v[c] ELSE 0,
                 (IF output_iMCU_row < total_iMCU_rows - 1 THEN 2 * image.v[c] ELSE BlockRows(c))
                   + (IF output_iMCU_row > 0 THEN image.v[c] ELSE 0))
  BY <1>2, SmoothStripFits
<1>4. /\ error' = error /\ emitted' = TRUE /\ output_iMCU_row' = output_iMCU_row + 1
      /\ output_buf' =
           [c \in Component |->
              IF c \notin image.needed THEN <<>>
              ELSE [p \in (0 .. BlockRows(c) - 1) \X (0 .. width_in_blocks(c) - 1) |->
                      Smoothed(c, p[1], p[2])]]
  BY <1>3 DEF DecompressSmoothData, OutputRefused, EmitFrom, Smoothed
<1>5. output_scan_number <= input_scan_number
  BY <1>1 DEF Place, Counters, OutputPlace
<1>6. Place'
  BY <1>1, <1>4, <1>5, EmitPlace
<1> QED BY <1>1, <1>2, <1>4, <1>6

LEMMA NextPlace == Place /\ [Next]_vars => Place'
<1> SUFFICES ASSUME Place, [Next]_vars  PROVE Place'
  OBVIOUS
<1>1. CASE ConsumeData
  BY <1>1, ConsumeDataPlace
<1>2. CASE DefineTable
  BY <1>2, DefineTablePlace
<1>3. CASE StartInputPass
  BY <1>3, StartInputPassPlace
<1>4. CASE ReachEOI
  BY <1>4, ReachEOIPlace
<1>5. ASSUME NEW target \in 1 .. MaxTarget, NEW method \in Methods, NEW smooth \in BOOLEAN,
             StartOutputPass(target, method, smooth)
      PROVE  Place'
  BY <1>5, StartOutputPassPlace
<1>6. CASE FinishOutputPass
  BY <1>6, FinishOutputPassPlace
<1>7. CASE DecompressOnepass
  BY <1>7, DecompressOnepassPlace
<1>8. CASE DecompressData
  BY <1>8, DecompressDataPlace
<1>9. CASE DecompressSmoothData
  BY <1>9, DecompressSmoothDataPlace
<1>10. CASE UNCHANGED vars
  <2>1. UNCHANGED <<image, error, consume_input, input_scan_number, input_iMCU_row,
                    MCU_vert_offset, MCU_ctr, decoded, output_scan_number, output_iMCU_row,
                    decompress_data, emitted>>
    BY <1>10 DEF vars, inputVars, outputVars
  <2>2. total_iMCU_rows' = total_iMCU_rows /\ (FullBuffer <=> FullBuffer')
    BY <2>1, ImageKept
  <2>3. Counters'
    BY <2>1, <2>2 DEF Place, Counters
  <2>4. InputPlace'
    BY <2>1, InputKept DEF Place
  <2>5. OutputPlace'
    BY <2>1, <2>2 DEF Place, OutputPlace
  <2> QED BY <2>3, <2>4, <2>5 DEF Place
<1> QED BY <1>1, <1>2, <1>3, <1>4, <1>5, <1>6, <1>7, <1>8, <1>9, <1>10 DEF Next

LEMMA PlaceHolds == Spec => []Place
BY InitPlace, NextPlace, PTL DEF Spec

-------------------------------------------------------------------------------
(* The quantization tables                                                 *)

\* A component's first scan, as the image alone has it.
FirstOf(im, c) ==
  CHOOSE k \in DOMAIN im.scans :
    /\ \E i \in DOMAIN im.scans[k].comps : im.scans[k].comps[i] = c
    /\ \A j \in 1 .. k - 1 : ~ \E i \in DOMAIN im.scans[j].comps : im.scans[j].comps[i] = c

LEMMA ScansKept ==
  ASSUME image' = image
  PROVE  \A c : /\ FirstScan(c)' = FirstScan(c)
                /\ \A k : (InScan(c, k)' <=> InScan(c, k)) /\ (Scanned(c, k)' <=> Scanned(c, k))
<1>1. ASSUME NEW c  PROVE FirstScan(c)' = FirstScan(c)
  <2>1. FirstScan(c) = FirstOf(image, c)
    BY DEF FirstScan, InScan, Scan, FirstOf
  <2>2. FirstScan(c)' = FirstOf(image', c)
    BY DEF FirstScan, InScan, Scan, FirstOf
  <2> QED BY <2>1, <2>2
<1>2. ASSUME NEW c, NEW k  PROVE InScan(c, k)' <=> InScan(c, k)
  BY DEF InScan, Scan
<1>3. ASSUME NEW c, NEW k  PROVE Scanned(c, k)' <=> Scanned(c, k)
  BY <1>2 DEF Scanned
<1> QED BY <1>1, <1>2, <1>3

LEMMA FirstScanIs ==
  ASSUME image \in Images, NEW c, NEW k \in Nat, Scanned(c, k)
  PROVE  /\ FirstScan(c) \in DOMAIN image.scans /\ FirstScan(c) \in Nat \ {0}
         /\ FirstScan(c) <= k /\ InScan(c, FirstScan(c))
         /\ \A j \in DOMAIN image.scans : j < FirstScan(c) => ~InScan(c, j)
<1>1. image.scans \in Seq(ScanHeader)
  BY CoefAssumption DEF CoefAssumption
<1>2. DOMAIN image.scans = 1 .. Len(image.scans) /\ Len(image.scans) \in Nat
  BY <1>1
<1> DEFINE T == {j \in DOMAIN image.scans : InScan(c, j)}
<1>3. T \in SUBSET Nat /\ T # {} /\ \E j \in T : j <= k
  BY <1>2 DEF Scanned
<1>4. PICK m \in T : \A j \in T : m <= j
  <2> HIDE DEF T
  <2> QED BY <1>3, LeastNat
<1>5. m \in DOMAIN image.scans /\ InScan(c, m) /\ \A j \in 1 .. m - 1 : ~InScan(c, j)
  BY <1>2, <1>3, <1>4
<1>6. /\ FirstScan(c) \in DOMAIN image.scans /\ InScan(c, FirstScan(c))
      /\ \A j \in 1 .. FirstScan(c) - 1 : ~InScan(c, j)
  BY <1>5, Zenon DEF FirstScan
<1>7. PICK j \in DOMAIN image.scans : j <= k /\ InScan(c, j)
  BY DEF Scanned
<1>8. FirstScan(c) <= j
  BY <1>2, <1>6, <1>7
<1> QED BY <1>2, <1>6, <1>7, <1>8

\* Another scan: a component was scanned before, or in this scan, or not yet.
LEMMA ScannedNext ==
  ASSUME image \in Images, NEW c, NEW k \in Nat, k + 1 \in DOMAIN image.scans
  PROVE  /\ Scanned(c, k + 1) <=> Scanned(c, k) \/ InScan(c, k + 1)
         /\ InScan(c, k + 1) /\ ~Scanned(c, k) => FirstScan(c) = k + 1
<1>1. DOMAIN image.scans \subseteq Nat
  BY CoefAssumption DEF CoefAssumption
<1>2. Scanned(c, k + 1) <=> Scanned(c, k) \/ InScan(c, k + 1)
  BY <1>1 DEF Scanned
<1>3. ASSUME InScan(c, k + 1), ~Scanned(c, k)  PROVE FirstScan(c) = k + 1
  <2>1. Scanned(c, k + 1) /\ k + 1 \in Nat
    BY <1>2, <1>3
  <2>2. FirstScan(c) \in DOMAIN image.scans /\ FirstScan(c) <= k + 1 /\ InScan(c, FirstScan(c))
    BY <2>1, FirstScanIs
  <2>3. ~(FirstScan(c) <= k)
    BY <2>2, <1>3 DEF Scanned
  <2> QED BY <2>2, <2>3, <1>1
<1> QED BY <1>2, <1>3

\* A component that was scanned has a saved table, which more scans do not change.
LEMMA SavedKept ==
  ASSUME image \in Images, image' = image, NEW c, NEW k \in 0 .. Len(tables_at_scan),
         Scanned(c, k), tables_at_scan \in Seq([Slots -> 0 .. MaxTables]),
         NEW t, tables_at_scan' = Append(tables_at_scan, t)
  PROVE  Saved(c)' = Saved(c)
<1>1. FirstScan(c) \in 1 .. Len(tables_at_scan)
  BY FirstScanIs
<1>2. Append(tables_at_scan, t)[FirstScan(c)] = tables_at_scan[FirstScan(c)]
  BY <1>1
<1> QED BY <1>2, ScansKept DEF Saved

Tables == TablesSaved /\ TablesBuilt

LEMMA InitTables == Init => Tables
<1> SUFFICES ASSUME Init  PROVE Tables
  OBVIOUS
<1>1. /\ quant_tbl_ptrs = [slot \in Slots |-> 0] /\ tables_defined = 0
      /\ quant_table = [c \in Component |-> 0]
      /\ cur_method = [c \in Component |-> "none"]
      /\ dct_table = [c \in Component |-> ZeroTable]
      /\ dct_method \in Methods /\ scan_at_start = 0 /\ tables_at_scan = <<>>
      /\ input_scan_number = 0 /\ decompress_data = "none" /\ image \in Images
  BY DEF Init, Slots
<1>2. MaxTables \in Nat
  BY BoundsAssumption DEF BoundsAssumption
<1>3. \A c : ~Scanned(c, 0)
  BY <1>1, CoefAssumption DEF CoefAssumption, Scanned
<1>4. Len(tables_at_scan) = 0
  BY <1>1
<1>5. TablesSaved
  BY <1>1, <1>2, <1>3, <1>4 DEF TablesSaved
<1>6. TablesBuilt
  BY <1>1, <1>4 DEF TablesBuilt, TableRight
<1> QED BY <1>5, <1>6 DEF Tables

\* Other actions change neither the tables nor what they are for.
LEMMA TablesKept ==
  ASSUME Tables, error' = error,
         UNCHANGED <<image, input_scan_number, tables_at_scan, quant_table, tableVars,
                     idctVars, scan_at_start>>,
         decompress_data' # "none" => decompress_data # "none"
  PROVE  Tables'
<1>1. /\ Component' = Component /\ Slots' = Slots
      /\ \A c : FirstScan(c)' = FirstScan(c) /\ \A k : Scanned(c, k)' <=> Scanned(c, k)
  BY ImageKept, ScansKept DEF Slots
<1>2. \A c : Saved(c)' = Saved(c)
  BY <1>1 DEF Saved
<1>3. TablesSaved'
  BY <1>1, <1>2 DEF Tables, TablesSaved, tableVars
<1>4. TableRight'
  BY <1>1 DEF Tables, TablesBuilt, TableRight, idctVars
<1>5. TablesBuilt'
  BY <1>1, <1>4 DEF Tables, TablesBuilt, idctVars
<1> QED BY <1>3, <1>5 DEF Tables

LEMMA DefineTableTables ==
  ASSUME Tables, DefineTable
  PROVE  Tables'
<1>1. /\ error' = error /\ tables_defined < MaxTables /\ tables_defined' = tables_defined + 1
      /\ UNCHANGED <<image, input_scan_number, tables_at_scan, quant_table, cur_method,
                     dct_table, dct_method, scan_at_start, decompress_data>>
  BY DEF DefineTable, inputVars, idctVars, outputVars
<1>2. PICK slot \in DOMAIN quant_tbl_ptrs :
        quant_tbl_ptrs' = [quant_tbl_ptrs EXCEPT ![slot] = tables_defined + 1]
  BY DEF DefineTable
<1>3. /\ Component' = Component /\ Slots' = Slots
      /\ \A c : FirstScan(c)' = FirstScan(c) /\ \A k : Scanned(c, k)' <=> Scanned(c, k)
  BY <1>1, ImageKept, ScansKept DEF Slots
<1>4. \A c : Saved(c)' = Saved(c)
  BY <1>1, <1>3 DEF Saved
<1>5. tables_defined' \in 0 .. MaxTables /\ tables_defined + 1 \in 0 .. MaxTables
  BY <1>1, BoundsAssumption DEF BoundsAssumption, Tables, TablesSaved
<1>6. quant_tbl_ptrs' \in [Slots -> 0 .. MaxTables]
  BY <1>2, <1>5 DEF Tables, TablesSaved
<1>7. TablesSaved'
  BY <1>1, <1>3, <1>4, <1>5, <1>6 DEF Tables, TablesSaved
<1>8. TableRight'
  BY <1>1, <1>3 DEF Tables, TablesBuilt, TableRight
<1>9. TablesBuilt'
  BY <1>1, <1>3, <1>8 DEF Tables, TablesBuilt
<1> QED BY <1>7, <1>9 DEF Tables

LEMMA StartInputPassTables ==
  ASSUME Place, Tables, StartInputPass
  PROVE  Tables'
<1> DEFINE k == input_scan_number + 1
<1>1. /\ error = "none" /\ input_scan_number' = k
      /\ k \in DOMAIN image.scans /\ k \in Nat \ {0}
      /\ UNCHANGED <<image, tables_defined, quant_tbl_ptrs, cur_method, dct_table, dct_method,
                     scan_at_start, decompress_data>>
  <2>1. input_scan_number' \in DOMAIN image.scans /\ input_scan_number \in Nat
    BY StartInputPassPlace DEF Place, Counters
  <2> QED BY <2>1 DEF StartInputPass, UnexpectedScan, tableVars, idctVars, outputVars
<1>2. \/ error' = "EOI_EXPECTED" /\ UNCHANGED <<tables_at_scan, quant_table>>
      \/ /\ tables_at_scan' = Append(tables_at_scan, quant_tbl_ptrs)
         /\ quant_table' = [c \in Component |-> SavedTable(c, k)]
         /\ error' = IF \E i \in DOMAIN Scan(k).comps : quant_table'[Scan(k).comps[i]] = 0
                     THEN "NO_QUANT_TABLE" ELSE "none"
  BY DEF StartInputPass, UnexpectedScan
<1>3. /\ Component' = Component /\ Slots' = Slots
      /\ \A c : FirstScan(c)' = FirstScan(c) /\ \A j : Scanned(c, j)' <=> Scanned(c, j)
  BY <1>1, ImageKept, ScansKept DEF Slots
<1>4. CASE error' = "EOI_EXPECTED" /\ UNCHANGED <<tables_at_scan, quant_table>>
  <2>1. \A c : Saved(c)' = Saved(c)
    BY <1>1, <1>3, <1>4 DEF Saved
  <2>2. Len(tables_at_scan) <= k
    BY <1>1, <1>4 DEF Place, Counters, Tables, TablesSaved
  <2>3. TablesSaved'
    BY <1>1, <1>3, <1>4, <2>1, <2>2 DEF Tables, TablesSaved
  <2>4. TableRight'
    BY <1>1, <1>3, <1>4 DEF Tables, TablesBuilt, TableRight
  <2>5. TablesBuilt'
    BY <1>1, <1>3, <1>4, <2>4 DEF Tables, TablesBuilt
  <2> QED BY <2>3, <2>5 DEF Tables
<1>5. CASE /\ tables_at_scan' = Append(tables_at_scan, quant_tbl_ptrs)
           /\ quant_table' = [c \in Component |-> SavedTable(c, k)]
           /\ error' = IF \E i \in DOMAIN Scan(k).comps : quant_table'[Scan(k).comps[i]] = 0
                       THEN "NO_QUANT_TABLE" ELSE "none"
  <2>1. /\ tables_at_scan \in Seq([Slots -> 0 .. MaxTables])
        /\ quant_tbl_ptrs \in [Slots -> 0 .. MaxTables]
        /\ Len(tables_at_scan) = input_scan_number /\ input_scan_number \in Nat
        /\ image \in Images
    BY <1>1 DEF Place, Counters, Tables, TablesSaved
  <2>2. /\ tables_at_scan' \in Seq([Slots -> 0 .. MaxTables]) /\ Len(tables_at_scan') = k
        /\ tables_at_scan'[k] = quant_tbl_ptrs
    BY <1>5, <2>1
  <2>3. \A c : \A j \in 0 .. input_scan_number : Scanned(c, j) => Saved(c)' = Saved(c)
    BY <1>1, <1>5, <2>1, SavedKept
  <2>4. ASSUME NEW c \in Component
        PROVE  /\ quant_table'[c] = IF Scanned(c, k) THEN Saved(c)' ELSE 0
               /\ Scanned(c, k) /\ error' # "NO_QUANT_TABLE" => quant_table'[c] # 0
               /\ quant_table[c] # 0 => quant_table'[c] = quant_table[c]
               /\ quant_table'[c] \in 0 .. MaxTables
    <3>1. /\ quant_table[c] = IF Scanned(c, input_scan_number) THEN Saved(c) ELSE 0
          /\ Scanned(c, input_scan_number) => quant_table[c] # 0
          /\ quant_table[c] \in 0 .. MaxTables
      BY <1>1, <2>1 DEF Tables, TablesSaved
    <3>2. /\ Scanned(c, k) <=> Scanned(c, input_scan_number) \/ InScan(c, k)
          /\ InScan(c, k) /\ ~Scanned(c, input_scan_number) => FirstScan(c) = k
      BY <1>1, <2>1, ScannedNext
    <3>3. quant_table'[c] = IF quant_table[c] # 0 \/ ~InScan(c, k) THEN quant_table[c]
                            ELSE quant_tbl_ptrs[image.quant_tbl_no[c]]
      BY <1>5 DEF SavedTable, InScan
    <3>4. image.quant_tbl_no[c] \in Slots
      BY DEF Slots
    <3>5. CASE Scanned(c, input_scan_number)
      <4>1. Saved(c)' = Saved(c)
        BY <2>1, <2>3, <3>5
      <4> QED BY <3>1, <3>2, <3>3, <3>5, <4>1
    <3>6. CASE ~Scanned(c, input_scan_number) /\ InScan(c, k)
      <4>1. Saved(c)' = quant_tbl_ptrs[image.quant_tbl_no[c]]
        BY <1>1, <1>3, <2>2, <3>2, <3>6 DEF Saved
      <4>2. quant_table'[c] = quant_tbl_ptrs[image.quant_tbl_no[c]]
        BY <3>1, <3>3, <3>6
      <4>3. error' # "NO_QUANT_TABLE" => quant_table'[c] # 0
        BY <1>5, <3>6 DEF InScan
      <4> QED BY <2>1, <3>1, <3>2, <3>4, <3>6, <4>1, <4>2, <4>3
    <3>7. CASE ~Scanned(c, input_scan_number) /\ ~InScan(c, k)
      BY <3>1, <3>2, <3>3, <3>7
    <3> QED BY <3>5, <3>6, <3>7
  <2>5. quant_table' \in [Component -> 0 .. MaxTables]
    BY <1>5, <2>4
  <2>6. TablesSaved'
    BY <1>1, <1>3, <2>2, <2>4, <2>5 DEF Tables, TablesSaved
  <2>7. scan_at_start \in 0 .. input_scan_number /\ scan_at_start' \in 0 .. Len(tables_at_scan')
    BY <1>1, <2>1, <2>2 DEF Tables, TablesBuilt
  <2>8. TableRight'
    <3> SUFFICES ASSUME decompress_data # "none", NEW c \in image.needed
                 PROVE  dct_table[c] = IF Scanned(c, scan_at_start)
                                       THEN [method |-> dct_method, table |-> Saved(c)'] ELSE ZeroTable
      BY <1>1, <1>3 DEF TableRight, Saved, ZeroTable
    <3>1. dct_table[c] = IF Scanned(c, scan_at_start)
                         THEN [method |-> dct_method, table |-> Saved(c)] ELSE ZeroTable
      BY DEF Tables, TablesBuilt, TableRight, Saved
    <3>2. Scanned(c, scan_at_start) => Saved(c)' = Saved(c)
      BY <2>3, <2>7
    <3> QED BY <3>1, <3>2
  <2>9. TablesBuilt'
    BY <1>1, <1>3, <2>4, <2>7, <2>8 DEF Tables, TablesBuilt, ZeroTable
  <2> QED BY <2>6, <2>9 DEF Tables
<1> QED BY <1>2, <1>4, <1>5

LEMMA StartOutputPassTables ==
  ASSUME Place, Tables, NEW target, NEW method \in Methods, NEW smooth,
         StartOutputPass(target, method, smooth)
  PROVE  Tables'
<1>1. /\ error = "none" /\ error' = error /\ dct_method' = method /\ BuildTables(method)
      /\ scan_at_start' = input_scan_number
      /\ UNCHANGED <<image, input_scan_number, tables_at_scan, quant_table, tables_defined,
                     quant_tbl_ptrs>>
  BY DEF StartOutputPass, inputVars, tableVars
<1> DEFINE build == {c \in image.needed : cur_method[c] # method /\ quant_table[c] # 0}
<1>2. /\ cur_method' = [c \in Component |-> IF c \in build THEN method ELSE cur_method[c]]
      /\ dct_table' = [c \in Component |->
                         IF c \in build THEN [method |-> method, table |-> quant_table[c]]
                         ELSE dct_table[c]]
  BY <1>1 DEF BuildTables
<1>3. /\ Component' = Component /\ Slots' = Slots /\ image.needed \subseteq Component
      /\ \A c : FirstScan(c)' = FirstScan(c) /\ \A j : Scanned(c, j)' <=> Scanned(c, j)
  BY <1>1, ImageKept, ScansKept, ImageTypes DEF Slots, Place, Counters
<1>4. \A c : Saved(c)' = Saved(c)
  BY <1>1, <1>3 DEF Saved
<1>5. TablesSaved'
  BY <1>1, <1>3, <1>4 DEF Tables, TablesSaved
<1>6. method # "none"
  BY BoundsAssumption DEF BoundsAssumption
<1>7. ASSUME NEW c \in Component
      PROVE  IF cur_method'[c] = "none" THEN dct_table'[c] = ZeroTable
             ELSE /\ quant_table[c] # 0
                  /\ dct_table'[c] = [method |-> cur_method'[c], table |-> quant_table[c]]
  <2>1. IF cur_method[c] = "none" THEN dct_table[c] = ZeroTable
        ELSE /\ quant_table[c] # 0
             /\ dct_table[c] = [method |-> cur_method[c], table |-> quant_table[c]]
    BY DEF Tables, TablesBuilt
  <2>2. c \in build => quant_table[c] # 0
    OBVIOUS
  <2> HIDE DEF build
  <2> QED BY <1>2, <1>6, <2>1, <2>2
<1>8. cur_method' \in [Component -> Methods \cup {"none"}]
  <2> HIDE DEF build
  <2> QED BY <1>2 DEF Tables, TablesBuilt
<1>9. scan_at_start' \in 0 .. Len(tables_at_scan') /\ Len(tables_at_scan) = input_scan_number
  BY <1>1 DEF Tables, TablesSaved, Place, Counters
<1>10. TableRight'
  <2> SUFFICES ASSUME NEW c \in image.needed
               PROVE  dct_table'[c] = IF Scanned(c, input_scan_number)
                                      THEN [method |-> method, table |-> Saved(c)] ELSE ZeroTable
    BY <1>1, <1>3, <1>4 DEF TableRight, Saved, ZeroTable
  <2>1. c \in Component
    BY <1>3
  <2>2. /\ quant_table[c] = IF Scanned(c, input_scan_number) THEN Saved(c) ELSE 0
        /\ Scanned(c, input_scan_number) => quant_table[c] # 0
    BY <1>1, <1>9, <2>1 DEF Tables, TablesSaved
  <2>3. IF cur_method[c] = "none" THEN dct_table[c] = ZeroTable
        ELSE /\ quant_table[c] # 0
             /\ dct_table[c] = [method |-> cur_method[c], table |-> quant_table[c]]
    BY <2>1 DEF Tables, TablesBuilt
  <2>4. c \in build <=> cur_method[c] # method /\ quant_table[c] # 0
    OBVIOUS
  <2> HIDE DEF build
  <2>5. CASE Scanned(c, input_scan_number)
    BY <1>2, <1>6, <2>1, <2>2, <2>3, <2>4, <2>5
  <2>6. CASE ~Scanned(c, input_scan_number)
    BY <1>2, <2>1, <2>2, <2>3, <2>4, <2>6
  <2> QED BY <2>5, <2>6
<1>11. TablesBuilt'
  BY <1>1, <1>2, <1>3, <1>7, <1>8, <1>9, <1>10 DEF TablesBuilt, ZeroTable
<1> QED BY <1>5, <1>11 DEF Tables

LEMMA NextTables == Place /\ Place' /\ Tables /\ [Next]_vars => Tables'
<1> SUFFICES ASSUME Place, Place', Tables, [Next]_vars  PROVE Tables'
  OBVIOUS
<1>1. CASE ConsumeData
  <2>1. error' = error /\ consume_input = "data"
    BY <1>1, ConsumeDataPlace DEF ConsumeData
  <2>2. UNCHANGED <<input_scan_number, quant_table, tables_at_scan>>
    BY <1>1, <2>1 DEF ConsumeData, DecodeUntil, inputVars
  <2> QED BY <1>1, <2>1, <2>2, TablesKept DEF ConsumeData
<1>2. CASE DefineTable
  BY <1>2, DefineTableTables
<1>3. CASE StartInputPass
  BY <1>3, StartInputPassTables
<1>4. CASE ReachEOI
  BY <1>4, TablesKept DEF ReachEOI
<1>5. ASSUME NEW target \in 1 .. MaxTarget, NEW method \in Methods, NEW smooth \in BOOLEAN,
             StartOutputPass(target, method, smooth)
      PROVE  Tables'
  BY <1>5, StartOutputPassTables
<1>6. CASE FinishOutputPass
  BY <1>6, TablesKept DEF FinishOutputPass, inputVars
<1>7. CASE DecompressOnepass
  <2>1. UNCHANGED <<input_scan_number, quant_table, tables_at_scan>>
    BY <1>7 DEF DecompressOnepass, DecodeUntil
  <2> QED BY <1>7, <2>1, TablesKept DEF DecompressOnepass
<1>8. CASE DecompressData
  <2>1. error' = error
    BY <1>8, DecompressDataPlace DEF DecompressData
  <2> QED BY <1>8, <2>1, TablesKept DEF DecompressData, inputVars
<1>9. CASE DecompressSmoothData
  <2>1. error' = error
    BY <1>9, DecompressSmoothDataPlace DEF DecompressSmoothData
  <2> QED BY <1>9, <2>1, TablesKept DEF DecompressSmoothData, inputVars
<1>10. CASE UNCHANGED vars
  BY <1>10, TablesKept DEF vars, inputVars, outputVars
<1> QED BY <1>1, <1>2, <1>3, <1>4, <1>5, <1>6, <1>7, <1>8, <1>9, <1>10 DEF Next

LEMMA TablesHold == Spec => []Tables
<1>1. Place /\ Tables /\ [Next]_vars => (Place /\ Tables)'
  BY NextPlace, NextTables
<1> QED BY <1>1, InitPlace, InitTables, PTL DEF Spec

-------------------------------------------------------------------------------
(* What is within bounds, and the tables                                   *)

\* The counters stay within the scan and the image, and every strip of blocks
\* that reading, emitting or smoothing accesses lies in its array and its window
\* (access_virt_barray never refuses what consume_data, decompress_data and
\* decompress_smooth_data ask for).
THEOREM WithinBoundsTheorem == Spec => []WithinBounds
<1>1. Place /\ Tables => WithinBounds
  <2> SUFFICES ASSUME Place, Tables  PROVE TypeOK /\ NoBadAccess
    BY DEF WithinBounds
  <2>1. NoBadAccess
    BY DEF NoBadAccess, Place, Counters
  <2>2. consume_input = "data" =>
          /\ MCU_vert_offset \in 0 .. MCU_rows_per_iMCU_row - 1
          /\ MCU_ctr \in 0 .. MCUs_per_row - 1
    <3> SUFFICES ASSUME consume_input = "data"
                 PROVE  /\ MCU_vert_offset \in 0 .. MCU_rows_per_iMCU_row - 1
                        /\ MCU_ctr \in 0 .. MCUs_per_row - 1
      OBVIOUS
    <3>1. InAScan /\ input_iMCU_row \in 0 .. total_iMCU_rows - 1
      BY ReachedIs DEF Place
    <3>2. MCU_rows_per_iMCU_row \in 1 .. RowsPerIMCU /\ RowsPerIMCU \in 1 .. 4
          /\ MCUs_per_row \in Nat
      BY <3>1, RowsOfIMCU, ScanGeometry
    <3>3. /\ MCU_vert_offset \in Nat /\ MCU_ctr \in Nat
          /\ MCU_vert_offset < MCU_rows_per_iMCU_row /\ MCU_ctr < MCUs_per_row
      BY DEF Place, Counters, InputPlace
    <3> QED BY <3>2, <3>3
  <2>3. \A c \in Component : /\ quant_table[c] \in 0 .. MaxTables
                             /\ cur_method[c] \in Methods \cup {"none"}
    BY DEF Tables, TablesSaved, TablesBuilt
  <2>4. \A c \in Component : dct_table[c].table \in 0 .. MaxTables
    <3> SUFFICES ASSUME NEW c \in Component  PROVE dct_table[c].table \in 0 .. MaxTables
      OBVIOUS
    <3>1. dct_table[c].table = 0 \/ dct_table[c].table = quant_table[c]
      BY DEF Tables, TablesBuilt, ZeroTable
    <3> QED BY <2>3, <3>1, BoundsAssumption DEF BoundsAssumption
  <2>5. TypeOK
    BY <2>2, <2>3, <2>4 DEF TypeOK, Place, Counters
  <2> QED BY <2>1, <2>5
<1> QED BY <1>1, PlaceHolds, TablesHold, PTL

\* An output pass dequantizes each component with the table its slot held when
\* the component's first scan began, made for the method of this pass, and with
\* zeroes if it has not been scanned: whenever tables are redefined, scans begin
\* and passes start (latch_quant_tables of jdinput.c, start_pass of jddctmgr.c).
THEOREM TableRightTheorem == Spec => []TableRight
<1>1. Tables => TableRight
  BY DEF Tables, TablesBuilt
<1> QED BY <1>1, TablesHold, PTL

-------------------------------------------------------------------------------
(* Where blocks are in their scan                                          *)

\* The standard's numbering depends on the image alone.
UpToOf(im, comps) ==
  LET before[i \in 1 .. Len(comps) + 1] ==
        IF i = 1 THEN 0 ELSE before[i - 1] + im.h[comps[i - 1]] * im.v[comps[i - 1]]
  IN before

LEMMA StreamOrderKept ==
  ASSUME image' = image
  PROVE  \A k, c, row, col : /\ StreamOrder(k, c, row, col)' = StreamOrder(k, c, row, col)
                             /\ Real(c, row, col)' <=> Real(c, row, col)
<1>1. /\ across' = across /\ \A k : Scan(k)' = Scan(k)
      /\ \A c : /\ width_in_blocks(c)' = width_in_blocks(c)
                /\ height_in_blocks(c)' = height_in_blocks(c)
  BY ImageKept
<1> SUFFICES ASSUME NEW k, NEW c, NEW row, NEW col
             PROVE  /\ StreamOrder(k, c, row, col)' = StreamOrder(k, c, row, col)
                    /\ Real(c, row, col)' <=> Real(c, row, col)
  OBVIOUS
<1>2. Real(c, row, col)' <=> Real(c, row, col)
  BY <1>1 DEF Real
<1> DEFINE i == CHOOSE j \in DOMAIN Scan(k).comps : Scan(k).comps[j] = c
           n == Len(Scan(k).comps)
<1>3. StreamOrder(k, c, row, col) =
        IF n = 1 THEN row * width_in_blocks(c) + col
        ELSE ((row \div image.v[c]) * across + col \div image.h[c]) * BlocksUpTo(Scan(k).comps)[n + 1]
             + BlocksUpTo(Scan(k).comps)[i] + (row % image.v[c]) * image.h[c] + (col % image.h[c])
  BY DEF StreamOrder, across
<1>4. (StreamOrder(k, c, row, col) =
         IF n = 1 THEN row * width_in_blocks(c) + col
         ELSE ((row \div image.v[c]) * across + col \div image.h[c]) * BlocksUpTo(Scan(k).comps)[n + 1]
              + BlocksUpTo(Scan(k).comps)[i] + (row % image.v[c]) * image.h[c] + (col % image.h[c]))'
  BY DEF StreamOrder, across
<1>5. n' = n
  BY <1>1
<1>6. i' = i
  BY <1>1
<1>7. BlocksUpTo(Scan(k).comps)' = BlocksUpTo(Scan(k).comps)
  <2>1. BlocksUpTo(Scan(k).comps) = UpToOf(image, Scan(k).comps)
    BY DEF BlocksUpTo, UpToOf
  <2>2. BlocksUpTo(Scan(k).comps)' = UpToOf(image', Scan(k)'.comps)
    BY DEF BlocksUpTo, UpToOf
  <2> QED BY <2>1, <2>2, <1>1
<1> HIDE DEF n, i
<1>8. StreamOrder(k, c, row, col)' = StreamOrder(k, c, row, col)
  BY <1>1, <1>3, <1>4, <1>5, <1>6, <1>7
<1> QED BY <1>2, <1>8

\* Its index in its component's list of the scan.
LEMMA IndexIs ==
  ASSUME InAScan, NEW i \in DOMAIN Comps
  PROVE  (CHOOSE j \in DOMAIN Comps : Comps[j] = Comps[i]) = i
<1>1. \A j \in DOMAIN Comps : Comps[j] = Comps[i] => j = i
  BY CompsTypes
<1>2. \E j \in DOMAIN Comps : Comps[j] = Comps[i]
  OBVIOUS
<1> QED BY <1>1, <1>2

\* The standard's number of a block is that of its MCU, and its place in that.
LEMMA StreamOrderIs ==
  ASSUME InAScan, NEW i \in DOMAIN Comps, NEW row \in Nat, NEW col \in Nat
  PROVE  StreamOrder(input_scan_number, Comps[i], row, col) =
           MCUNumber(Comps[i], row, col) * blocks_in_MCU
             + BlocksBefore[i] + (row % MCU_height(Comps[i])) * MCU_width(Comps[i])
             + (col % MCU_width(Comps[i]))
<1> DEFINE c == Comps[i]
           order == StreamOrder(input_scan_number, c, row, col)
<1>1. Scan(input_scan_number).comps = Comps
  BY DEF Comps
<1>2. order = IF Len(Comps) = 1 THEN row * width_in_blocks(c) + col
              ELSE ((row \div image.v[c]) * across + col \div image.h[c]) * BlocksUpTo(Comps)[Len(Comps) + 1]
                   + BlocksUpTo(Comps)[CHOOSE j \in DOMAIN Comps : Comps[j] = c]
                   + (row % image.v[c]) * image.h[c] + (col % image.h[c])
  BY <1>1 DEF StreamOrder, across
<1>3. (CHOOSE j \in DOMAIN Comps : Comps[j] = c) = i
  BY IndexIs
<1>4. Interleaved <=> Len(Comps) # 1
  BY CompsTypes
<1>5. CASE Interleaved
  <2>1. MCU_width(c) = image.h[c] /\ MCU_height(c) = image.v[c] /\ MCUs_per_row = across
    BY <1>5, MCUGeometry, ScanGeometry
  <2>2. BlocksBefore = BlocksUpTo(Comps)
    BY <1>5, BlocksOfMCU
  <2> HIDE DEF c
  <2>3. order = ((row \div image.v[c]) * across + col \div image.h[c]) * BlocksUpTo(Comps)[Len(Comps) + 1]
                + BlocksUpTo(Comps)[i] + (row % image.v[c]) * image.h[c] + (col % image.h[c])
    BY <1>2, <1>3, <1>4, <1>5 DEF order
  <2>4. blocks_in_MCU = BlocksUpTo(Comps)[Len(Comps) + 1]
    BY <2>2 DEF blocks_in_MCU
  <2>5. MCUNumber(c, row, col) = (row \div image.v[c]) * across + col \div image.h[c]
    BY <2>1 DEF MCUNumber
  <2>6. order = MCUNumber(c, row, col) * blocks_in_MCU
                + BlocksBefore[i] + (row % MCU_height(c)) * MCU_width(c) + (col % MCU_width(c))
    <3> HIDE DEF order
    <3> QED BY <2>1, <2>2, <2>3, <2>4, <2>5, Zenon
  <2> QED BY <2>6 DEF c, order
<1>6. CASE ~Interleaved
  <2>1. /\ i = 1 /\ MCU_width(c) = 1 /\ MCU_height(c) = 1 /\ MCUs_per_row = width_in_blocks(c)
        /\ BlocksBefore[i] = 0 /\ blocks_in_MCU = 1
    BY <1>6, MCUGeometry, ScanGeometry, BlocksOfMCU
  <2>2. width_in_blocks(c) \in Nat
    BY Geometry, MCUGeometry DEF InAScan
  <2>3. order = row * width_in_blocks(c) + col
    BY <1>2, <1>4, <1>6
  <2> HIDE DEF c, order
  <2>4. row \div 1 = row /\ col \div 1 = col /\ row % 1 = 0 /\ col % 1 = 0
    OBVIOUS
  <2>5. MCUNumber(c, row, col) = row * width_in_blocks(c) + col
    BY <2>1, <2>4 DEF MCUNumber
  <2> DEFINE m == MCUNumber(c, row, col)
  <2>6. m \in Nat
    BY <2>2, <2>5
  <2> HIDE DEF m
  <2>7. order = m * 1 + 0 + 0 * 1 + 0
    BY <2>3, <2>5, <2>6 DEF m
  <2>8. order = m * blocks_in_MCU + BlocksBefore[i] + (row % MCU_height(c)) * MCU_width(c)
                + (col % MCU_width(c))
    BY <2>1, <2>4, <2>7, Zenon
  <2> QED BY <2>8 DEF c, order, m
<1> QED BY <1>5, <1>6

\* The MCU that BlockOf computes for a row of the array from an iMCU row on, and
\* its block there.
LEMMA BlockOfIs ==
  ASSUME InAScan, input_iMCU_row \in Nat, NEW i \in DOMAIN Comps, NEW row \in Nat, NEW col \in Nat
  PROVE  LET c == Comps[i]
             b == BlockOf(i, row - input_iMCU_row * image.v[c], col)
         IN /\ b.y \in Int /\ b.x \in Nat
            /\ b.x = col \div MCU_width(c)
            /\ MCUNumber(c, row, col) \in Nat
            /\ MCUNumber(c, row, col) = FirstMCU + (b.y * MCUs_per_row + b.x)
            /\ b.y >= 0 <=> row >= input_iMCU_row * image.v[c]
            /\ b.blkn \in Nat
            /\ StreamOrder(input_scan_number, c, row, col)
                 = MCUNumber(c, row, col) * blocks_in_MCU + b.blkn
<1> DEFINE c == Comps[i]
           mh == MCU_height(c)
           mw == MCU_width(c)
           R == RowsPerIMCU
           W == MCUs_per_row
           r == input_iMCU_row
           u == row - r * image.v[c]
           b == BlockOf(i, u, col)
<1>1. mh \in 1 .. 4 /\ mw \in 1 .. 4 /\ R * mh = image.v[c] /\ image.v[c] \in 1 .. 4
  BY MCUGeometry, ImageTypes DEF InAScan
<1>2. R \in 1 .. 4 /\ W \in Nat \ {0} /\ r \in Nat
  BY ScanGeometry
<1>3. b = [y |-> u \div mh, x |-> col \div mw,
           blkn |-> BlocksBefore[i] + (u % mh) * mw + (col % mw)]
  BY DEF BlockOf
<1>4. /\ MCUNumber(c, row, col) = (row \div mh) * W + col \div mw
      /\ FirstMCU = r * R * W
  BY DEF MCUNumber, FirstMCU
<1>5. StreamOrder(input_scan_number, c, row, col) =
        MCUNumber(c, row, col) * blocks_in_MCU + BlocksBefore[i] + (row % mh) * mw + (col % mw)
  BY StreamOrderIs
<1>6. BlocksBefore[i] \in Nat /\ blocks_in_MCU \in Nat
  BY BlocksOfMCU, CompsTypes
<1>7. u \in Int /\ mh \in Nat \ {0} /\ mw \in Nat \ {0} /\ r * R \in Nat
  BY <1>1, <1>2
<1>8. row = (r * R) * mh + u
  BY <1>1, <1>2
<1> HIDE DEF b, mh, mw, R, W, r, u, c
<1> DEFINE q == u \div mh
           x == col \div mw
           t == row \div mh
<1>9. q \in Int /\ q * mh <= u /\ u < q * mh + mh /\ u % mh = u - q * mh
  BY <1>7, DivIs, RemainderIs
<1>10. x \in Int /\ x * mw <= col /\ col < x * mw + mw /\ col % mw = col - x * mw
  BY <1>7, DivIs, RemainderIs
<1>11. t = r * R + q
  <2> DEFINE p == r * R
  <2>1. p \in Int /\ row = p * mh + u
    BY <1>7, <1>8
  <2> HIDE DEF p
  <2>2. (p * mh + u) \div mh = p + u \div mh
    BY <2>1, <1>7, DivShift
  <2>3. t = p + q
    BY <2>1, <2>2
  <2> QED BY <2>3 DEF p
<1>12. row % mh = row - t * mh
  BY <1>7, RemainderIs
<1> HIDE DEF q, x, t
<1>13. t \in Int /\ row % mh = u % mh
  <2>1. (r * R + q) * mh = (r * R) * mh + q * mh
    BY <1>7, <1>9, SumTimes
  <2>2. (r * R) * mh \in Int /\ q * mh \in Int
    BY <1>7, <1>9
  <2> QED BY <1>7, <1>8, <1>9, <1>11, <1>12, <2>1, <2>2
<1>14. x \in Nat
  <2>1. (x + 1) * mw = x * mw + mw /\ x * mw \in Int /\ 0 * mw = 0
    BY <1>7, <1>10
  <2>2. 0 * mw < (x + 1) * mw
    BY <1>7, <1>10, <2>1
  <2> QED BY <1>7, <1>10, <2>2, ProductOrder, 0 \in Int, x + 1 \in Int
<1>15. q >= 0 <=> u >= 0
  <2>1. (q + 1) * mh = q * mh + mh /\ 0 * mh = 0 /\ q * mh \in Int
    BY <1>7, <1>9
  <2>2. q >= 0 => q * mh >= 0
    BY <1>7, <1>9
  <2>3. u >= 0 => 0 * mh < (q + 1) * mh
    BY <1>7, <1>9, <2>1
  <2>4. 0 * mh < (q + 1) * mh => 0 < q + 1
    BY <1>7, <1>9, ProductOrder, 0 \in Int, q + 1 \in Int
  <2>5. q * mh >= 0 => u >= 0
    BY <1>7, <1>9, <2>1
  <2> QED BY <1>9, <2>2, <2>3, <2>4, <2>5
<1>16. t \in Nat
  <2>1. (t + 1) * mh = t * mh + mh /\ t * mh \in Int /\ 0 * mh = 0
    BY <1>7, <1>13
  <2>2. t * mh <= row /\ row < t * mh + mh
    BY <1>7, DivIs DEF t
  <2>3. 0 * mh < (t + 1) * mh
    BY <1>7, <2>1, <2>2
  <2> QED BY <1>7, <1>13, <2>3, ProductOrder, 0 \in Int, t + 1 \in Int
<1>17. MCUNumber(c, row, col) = t * W + x
  BY <1>4 DEF t, x
<1>18. t * W = r * R * W + q * W
  BY <1>7, <1>9, <1>11, <1>2, SumTimes
<1>19. /\ t * W \in Nat /\ q * W \in Int /\ r * R * W \in Nat
  BY <1>2, <1>7, <1>9, <1>16
<1>20. MCUNumber(c, row, col) \in Nat
       /\ MCUNumber(c, row, col) = FirstMCU + (q * W + x)
  BY <1>4, <1>14, <1>17, <1>18, <1>19
<1>21. /\ b.y = q /\ b.x = x
       /\ b.blkn = BlocksBefore[i] + (u % mh) * mw + (col % mw)
  BY <1>3 DEF q, x
<1>22. u % mh \in Nat /\ col % mw \in Nat /\ (u % mh) * mw \in Nat
  <2>1. u % mh \in Nat /\ col % mw \in Nat
    BY <1>7, <1>9, <1>10
  <2> QED BY <2>1, <1>7
<1>23. b.blkn \in Nat
  BY <1>6, <1>21, <1>22
<1>24. StreamOrder(input_scan_number, c, row, col)
         = MCUNumber(c, row, col) * blocks_in_MCU + b.blkn
  <2>1. MCUNumber(c, row, col) * blocks_in_MCU \in Nat
    BY <1>6, <1>20
  <2> QED BY <1>5, <1>6, <1>13, <1>21, <1>22, <2>1
<1>25. u >= 0 <=> row >= r * image.v[c]
  <2>1. r * image.v[c] \in Int
    BY <1>1, <1>2
  <2> QED BY <2>1 DEF u
<1>26. /\ b.y \in Int /\ b.x \in Nat /\ b.x = col \div mw
       /\ MCUNumber(c, row, col) = FirstMCU + (b.y * W + b.x)
       /\ b.y >= 0 <=> row >= r * image.v[c]
  BY <1>9, <1>14, <1>15, <1>20, <1>21, <1>25 DEF x
<1> QED BY <1>20, <1>23, <1>24, <1>26 DEF b, u, r, W, c, mw

\* A real block is in an MCU of the scan.
LEMMA RealInScan ==
  ASSUME InAScan, NEW i \in DOMAIN Comps, NEW row \in Nat, NEW col \in Nat,
         Real(Comps[i], row, col)
  PROVE  /\ col \div MCU_width(Comps[i]) < MCUs_per_row
         /\ MCUNumber(Comps[i], row, col) < MCUs_per_row * MCU_rows_in_scan
<1> DEFINE c == Comps[i]
           mh == MCU_height(c)
           mw == MCU_width(c)
           W == MCUs_per_row
           n == MCU_rows_in_scan
<1>1. /\ c \in Component /\ mh \in Nat \ {0} /\ mw \in Nat \ {0}
      /\ W \in Nat \ {0} /\ n \in Nat \ {0}
  BY MCUGeometry, ScanGeometry
<1>2. row < n * mh /\ col < W * mw
  <2>1. row < height_in_blocks(c) /\ col < width_in_blocks(c)
    BY DEF Real
  <2>2. /\ height_in_blocks(c) \in Nat /\ width_in_blocks(c) \in Nat
        /\ height_in_blocks(c) <= total_iMCU_rows * image.v[c]
        /\ width_in_blocks(c) <= across * image.h[c]
        /\ total_iMCU_rows * image.v[c] \in Nat /\ across * image.h[c] \in Nat
    <3>1. /\ height_in_blocks(c) \in Nat /\ width_in_blocks(c) \in Nat
          /\ height_in_blocks(c) <= total_iMCU_rows * image.v[c]
          /\ width_in_blocks(c) <= across * image.h[c]
          /\ total_iMCU_rows \in Nat /\ across \in Nat
      BY <1>1, Geometry DEF InAScan
    <3>2. image.v[c] \in 1 .. 4 /\ image.h[c] \in 1 .. 4
      BY <1>1, ImageTypes DEF InAScan
    <3>3. image.v[c] \in Nat /\ image.h[c] \in Nat
      BY <3>2
    <3> HIDE DEF c
    <3> QED BY <3>1, <3>3
  <2>3. CASE Interleaved
    <3>1. mw = image.h[c] /\ mh = image.v[c] /\ W = across /\ n = total_iMCU_rows
      BY <2>3, MCUGeometry, ScanGeometry
    <3> HIDE DEF c, mh, mw, W, n
    <3> QED BY <2>1, <2>2, <3>1
  <2>4. CASE ~Interleaved
    <3>1. i = 1 /\ mw = 1 /\ mh = 1
      BY <2>4, MCUGeometry
    <3>2. W = width_in_blocks(c) /\ n = height_in_blocks(c)
      BY <2>4, <3>1, ScanGeometry
    <3> HIDE DEF c, mh, mw, W, n
    <3> QED BY <1>1, <2>1, <3>1, <3>2
  <2> QED BY <2>3, <2>4
<1>3. MCUNumber(c, row, col) = (row \div mh) * W + col \div mw
  BY DEF MCUNumber
<1> HIDE DEF c, mh, mw, W, n
<1> DEFINE t == row \div mh
           x == col \div mw
<1>4. t \in Nat /\ x \in Nat /\ t < n /\ x < W
  BY <1>1, <1>2, DivBelow
<1> HIDE DEF t, x
<1>5. (t + 1) * W <= n * W /\ (t + 1) * W = t * W + W /\ t * W \in Int /\ n * W = W * n
      /\ W * n \in Int
  BY <1>1, <1>4, ProductOrder
<1>6. t * W + x < W * n
  BY <1>1, <1>4, <1>5
<1> QED BY <1>3, <1>4, <1>6 DEF t, x, c, mw, W, n

\* An MCU of the iMCU row being read is one of the scan.
LEMMA RowInScan ==
  ASSUME InAScan, input_iMCU_row \in 0 .. total_iMCU_rows - 1
  PROVE  FirstMCU + MCUsInRow <= MCUs_per_row * MCU_rows_in_scan
<1> DEFINE W == MCUs_per_row
           R == RowsPerIMCU
           H == MCU_rows_per_iMCU_row
           n == MCU_rows_in_scan
           r == input_iMCU_row
           t == total_iMCU_rows
<1>1. /\ W \in Nat \ {0} /\ R \in 1 .. 4 /\ n \in Nat /\ t \in Nat \ {0}
      /\ r \in 0 .. t - 1 /\ (t - 1) * R < n
  BY ScanGeometry, Geometry DEF InAScan
<1>2. /\ H \in 1 .. R
      /\ r < t - 1 => H = R
      /\ r = t - 1 => r * R + H = n
  BY RowsOfIMCU
<1>3. FirstMCU = r * R * W /\ MCUsInRow = H * W
  BY DEF FirstMCU, MCUsInRow
<1> HIDE DEF W, R, H, n, r, t
<1>4. r * R + H <= n
  <2>1. CASE r < t - 1
    <3>1. (r + 1) * R = r * R + R /\ r * R \in Int /\ (t - 1) * R \in Int
      BY <1>1
    <3>2. (r + 1) * R <= (t - 1) * R
      BY <1>1, <2>1, ProductOrder, R \in Nat \ {0}, r + 1 \in Int, t - 1 \in Int
    <3> QED BY <1>1, <1>2, <2>1, <3>1, <3>2
  <2>2. CASE r = t - 1
    BY <1>1, <1>2, <2>2
  <2> QED BY <1>1, <2>1, <2>2
<1> DEFINE s == r * R
<1>5. s \in Int /\ H \in Int
  BY <1>1, <1>2
<1>6. s + H <= n
  BY <1>4
<1> HIDE DEF s
<1>7. (s + H) * W <= n * W /\ (s + H) * W = s * W + H * W /\ n * W = W * n
  BY <1>1, <1>5, <1>6, ProductOrder, s + H \in Int
<1> QED BY <1>3, <1>7 DEF s, W, n

-------------------------------------------------------------------------------
(* The blocks in the arrays                                                *)

\* A function of rows and columns, and a table of blocks.
Tabulated(f, rows, cols) == f = [row \in rows |-> [col \in cols |-> f[row][col]]]

LEMMA TableOf ==
  ASSUME NEW f, NEW rows, NEW cols, NEW S
  PROVE  f \in [rows -> [cols -> S]] <=>
           Tabulated(f, rows, cols) /\ \A row \in rows, col \in cols : f[row][col] \in S
<1>1. ASSUME f \in [rows -> [cols -> S]]
      PROVE  Tabulated(f, rows, cols) /\ \A row \in rows, col \in cols : f[row][col] \in S
  <2>1. \A row \in rows : f[row] \in [cols -> S]
    BY <1>1
  <2>2. \A row \in rows : f[row] = [col \in cols |-> f[row][col]]
    BY <2>1
  <2>3. f = [row \in rows |-> f[row]]
    BY <1>1
  <2>4. f = [row \in rows |-> [col \in cols |-> f[row][col]]]
    BY <2>2, <2>3
  <2> QED BY <2>1, <2>4 DEF Tabulated
<1>2. ASSUME Tabulated(f, rows, cols), \A row \in rows, col \in cols : f[row][col] \in S
      PROVE  f \in [rows -> [cols -> S]]
  <2> DEFINE g == [row \in rows |-> [col \in cols |-> f[row][col]]]
  <2>1. g \in [rows -> [cols -> S]]
    BY <1>2
  <2>2. f = g
    BY <1>2 DEF Tabulated
  <2> HIDE DEF g
  <2> QED BY <2>1, <2>2
<1> QED BY <1>1, <1>2

\* A call writes the blocks of the MCUs that it decodes, in their places.
Writes(c, row, col) ==
  /\ InScan(c, input_scan_number)
  /\ col \div MCU_width(c) < MCUs_per_row
  /\ Reached <= MCUNumber(c, row, col)

\* A block of the scan: when a call gets to it, and what it gets.
LEMMA CallOfBlock ==
  ASSUME Place, error = "none", consume_input = "data",
         NEW i \in DOMAIN Comps, NEW row \in Nat, NEW col \in Nat
  PROVE  LET c == Comps[i]
             b == BlockOf(i, row - input_iMCU_row * image.v[c], col)
             m == MCUNumber(c, row, col)
         IN /\ m \in Nat /\ b.x = col \div MCU_width(c)
            /\ \A stop \in Nat : InCall(stop, b.y, b.x) <=> Reached <= m /\ m < FirstMCU + stop
            /\ b.x < MCUs_per_row /\ Reached <= m => row >= input_iMCU_row * image.v[c]
            /\ Delivered(b.y, b.x, b.blkn) =
                 [scan |-> input_scan_number,
                  num |-> StreamOrder(input_scan_number, c, row, col)]
<1> DEFINE c == Comps[i]
           first == input_iMCU_row * image.v[c]
           b == BlockOf(i, row - first, col)
           m == MCUNumber(c, row, col)
<1>1. /\ InAScan /\ input_iMCU_row \in 0 .. total_iMCU_rows - 1
      /\ FirstMCU \in Nat /\ Resume \in Nat
      /\ Reached = FirstMCU + Resume
      /\ decoded = Reached * blocks_in_MCU
  BY ReachedIs DEF Place, InputPlace, Counters
<1>2. /\ b.y \in Int /\ b.x \in Nat /\ b.x = col \div MCU_width(c)
      /\ m \in Nat /\ m = FirstMCU + (b.y * MCUs_per_row + b.x)
      /\ b.y >= 0 <=> row >= first
      /\ b.blkn \in Nat
      /\ StreamOrder(input_scan_number, c, row, col) = m * blocks_in_MCU + b.blkn
  <2>1. input_iMCU_row \in Nat
    BY <1>1
  <2> QED BY <1>1, <1>1, <2>1, BlockOfIs DEF first
<1> HIDE DEF b, m
<1> DEFINE W == MCUs_per_row
           p == b.y * W + b.x
<1>4. W \in Nat \ {0} /\ blocks_in_MCU \in Nat /\ p \in Int
  <2>1. W \in Nat \ {0} /\ blocks_in_MCU \in Nat
    BY <1>1, ScanGeometry, BlocksOfMCU
  <2> QED BY <1>2, <2>1
<1>5. ASSUME NEW stop \in Nat
      PROVE  InCall(stop, b.y, b.x) <=> Reached <= m /\ m < FirstMCU + stop
  <2>1. InCall(stop, b.y, b.x) <=> Resume <= p /\ p < stop
    BY DEF InCall
  <2>2. m = FirstMCU + p
    BY <1>2 DEF p
  <2> HIDE DEF p
  <2> QED BY <1>1, <1>4, <2>1, <2>2
<1>6. Resume <= p <=> Reached <= m
  <2>1. m = FirstMCU + p
    BY <1>2 DEF p
  <2> HIDE DEF p
  <2> QED BY <1>1, <1>4, <2>1
<1>7. b.x < W /\ Resume <= p => row >= first
  <2> DEFINE y == b.y
             x == b.x
  <2>1. y \in Int /\ x \in Nat /\ (y >= 0 <=> row >= first) /\ p = y * W + x
    BY <1>2
  <2>2. Resume \in Nat
    BY <1>1
  <2>3. x = b.x
    OBVIOUS
  <2> HIDE DEF y, x, W, p
  <2>4. SUFFICES ASSUME x < W, Resume <= p, y < 0  PROVE FALSE
    BY <2>1, <2>3
  <2>5. y + 1 \in Int /\ y + 1 <= 0 /\ (y + 1) * W = y * W + W /\ y * W \in Int /\ W \in Nat
    BY <2>1, <2>4, <1>4
  <2>6. 0 * W = 0
    <3>1. \A e \in Int : 0 * e = 0
      OBVIOUS
    <3>2. W \in Int
      BY <1>4
    <3> QED BY <3>1, <3>2, Zenon
  <2>7. (y + 1) * W <= 0 * W
    BY <2>5, ProductOrder, 0 \in Int
  <2> QED BY <2>1, <2>2, <2>4, <2>5, <2>6, <2>7
<1>8. Delivered(b.y, b.x, b.blkn) =
        [scan |-> input_scan_number, num |-> StreamOrder(input_scan_number, c, row, col)]
  <2>1. Delivered(b.y, b.x, b.blkn) =
          [scan |-> input_scan_number,
           num |-> decoded + (p - Resume) * blocks_in_MCU + b.blkn]
    <3> DEFINE y == b.y
               x == b.x
               k == b.blkn
    <3>1. Delivered(y, x, k) =
            [scan |-> input_scan_number,
             num |-> decoded + (y * W + x - Resume) * blocks_in_MCU + k]
      <4> HIDE DEF y, x, k
      <4> QED BY Zenon DEF Delivered, W
    <3>2. y * W + x = p /\ y \in Int /\ x \in Int
      BY <1>2
    <3>3. y * W + (x - Resume) = p - Resume
      <4> HIDE DEF y, x, W, p
      <4>1. y * W \in Int /\ Resume \in Int
        BY <3>2, <1>4, <1>1
      <4> QED BY <4>1, <3>2
    <3>4. Delivered(y, x, k) =
            [scan |-> input_scan_number,
             num |-> decoded + (p - Resume) * blocks_in_MCU + k]
      <4> HIDE DEF y, x, k, p, W
      <4> QED BY <3>1, <3>3, Zenon
    <3> QED BY <3>4
  <2> HIDE DEF p
  <2>2. m = Reached + (p - Resume) /\ Reached \in Int /\ p - Resume \in Int
    <3>1. m = FirstMCU + p
      BY <1>2 DEF p
    <3> HIDE DEF W
    <3> QED BY <3>1, <1>1, <1>4
  <2>3. m * blocks_in_MCU = Reached * blocks_in_MCU + (p - Resume) * blocks_in_MCU
    BY <1>4, <2>2, SumTimes
  <2>4. decoded + (p - Resume) * blocks_in_MCU + b.blkn = m * blocks_in_MCU + b.blkn
    BY <1>1, <2>3
  <2> QED BY <1>2, <2>1, <2>4
<1> QED BY <1>2, <1>5, <1>6, <1>7, <1>8 DEF b, m, c, first

LEMMA ConsumeWrites ==
  ASSUME Place, ConsumeData, NEW c \in Component,
         coef_arrays[c] \in [0 .. ArrayRows(c) - 1 -> [0 .. ArrayCols(c) - 1 -> CoefBlock]]
  PROVE  /\ DOMAIN coef_arrays' = Component
         /\ Tabulated(coef_arrays'[c], 0 .. ArrayRows(c) - 1, 0 .. ArrayCols(c) - 1)
         /\ \A row \in 0 .. ArrayRows(c) - 1 : \A col \in 0 .. ArrayCols(c) - 1 :
              coef_arrays'[c][row][col] =
                IF Writes(c, row, col) /\ MCUNumber(c, row, col) < Reached'
                THEN [scan |-> input_scan_number,
                      num |-> StreamOrder(input_scan_number, c, row, col)]
                ELSE coef_arrays[c][row][col]
<1>1. /\ error = "none" /\ consume_input = "data" /\ image' = image
  BY DEF ConsumeData
<1>2. /\ InAScan /\ input_iMCU_row \in 0 .. total_iMCU_rows - 1
      /\ FirstMCU \in Nat /\ Resume \in Nat /\ MCUsInRow \in Nat
      /\ Reached = FirstMCU + Resume
      /\ decoded = Reached * blocks_in_MCU
  BY <1>1, ReachedIs DEF Place, InputPlace, Counters
<1>3. ~ \E d \in {Comps[i] : i \in DOMAIN Comps} :
          ~AccessOK(d, input_iMCU_row * image.v[d], image.v[d])
  BY <1>2, CompsTypes, StripFits DEF InAScan
<1>4. PICK stop \in Resume .. MCUsInRow :
        /\ DecodeUntil(stop)
        /\ coef_arrays' =
             [d \in Component |->
                IF \A i \in DOMAIN Comps : Comps[i] # d THEN coef_arrays[d]
                ELSE LET i == CHOOSE j \in DOMAIN Comps : Comps[j] = d
                         first == input_iMCU_row * image.v[d]
                     IN [row \in DOMAIN coef_arrays[d] |->
                           [col \in DOMAIN coef_arrays[d][row] |->
                              LET b == BlockOf(i, row - first, col)
                              IN IF row >= first /\ InCall(stop, b.y, b.x) /\ b.x < MCUs_per_row
                                   THEN Delivered(b.y, b.x, b.blkn)
                                   ELSE coef_arrays[d][row][col]]]]
  BY <1>3 DEF ConsumeData
<1>5. Reached' = FirstMCU + stop /\ stop \in Nat
  BY <1>1, <1>4, DecodeStep DEF Place
<1>6. DOMAIN coef_arrays' = Component
  BY <1>4
<1>7. CASE \A i \in DOMAIN Comps : Comps[i] # c
  <2>1. coef_arrays'[c] = coef_arrays[c]
    BY <1>4, <1>7
  <2>2. ~InScan(c, input_scan_number)
    BY <1>7 DEF InScan, Comps
  <2>3. Tabulated(coef_arrays[c], 0 .. ArrayRows(c) - 1, 0 .. ArrayCols(c) - 1)
    <3> DEFINE f == coef_arrays[c]
               rows == 0 .. ArrayRows(c) - 1
               cols == 0 .. ArrayCols(c) - 1
    <3>1. f \in [rows -> [cols -> CoefBlock]]
      OBVIOUS
    <3> HIDE DEF f, rows, cols
    <3>2. Tabulated(f, rows, cols)
      BY <3>1, TableOf
    <3> QED BY <3>2 DEF f, rows, cols
  <2> QED BY <1>6, <2>1, <2>2, <2>3 DEF Writes
<1>8. CASE \E i \in DOMAIN Comps : Comps[i] = c
  <2>1. PICK i \in DOMAIN Comps : Comps[i] = c
    BY <1>8
  <2>2. (CHOOSE j \in DOMAIN Comps : Comps[j] = c) = i
    BY <1>2, <2>1, IndexIs
  <2> DEFINE first == input_iMCU_row * image.v[c]
  <2>3. coef_arrays'[c] =
          [row \in DOMAIN coef_arrays[c] |->
             [col \in DOMAIN coef_arrays[c][row] |->
                IF /\ row >= first /\ InCall(stop, BlockOf(i, row - first, col).y, BlockOf(i, row - first, col).x)
                   /\ BlockOf(i, row - first, col).x < MCUs_per_row
                THEN Delivered(BlockOf(i, row - first, col).y, BlockOf(i, row - first, col).x,
                               BlockOf(i, row - first, col).blkn)
                ELSE coef_arrays[c][row][col]]]
    BY <1>4, <1>8, <2>2
  <2> HIDE DEF first
  <2>4. InScan(c, input_scan_number)
    BY <2>1 DEF InScan, Comps
  <2> DEFINE arr == coef_arrays[c]
             new == coef_arrays'[c]
             rows == 0 .. ArrayRows(c) - 1
             cols == 0 .. ArrayCols(c) - 1
             New(row, col) ==
               IF /\ row >= first /\ InCall(stop, BlockOf(i, row - first, col).y, BlockOf(i, row - first, col).x)
                  /\ BlockOf(i, row - first, col).x < MCUs_per_row
               THEN Delivered(BlockOf(i, row - first, col).y, BlockOf(i, row - first, col).x,
                              BlockOf(i, row - first, col).blkn)
               ELSE arr[row][col]
  <2>5. new = [row \in rows |-> [col \in cols |-> New(row, col)]]
    <3>1. arr \in [rows -> [cols -> CoefBlock]]
      OBVIOUS
    <3>2. new = [row \in DOMAIN arr |-> [col \in DOMAIN arr[row] |-> New(row, col)]]
      BY <2>3
    <3> HIDE DEF arr, new, New, rows, cols
    <3>3. DOMAIN arr = rows /\ \A row \in rows : DOMAIN arr[row] = cols
      BY <3>1
    <3> QED BY <3>2, <3>3
  <2>6. /\ Tabulated(new, rows, cols)
        /\ \A row \in rows, col \in cols : new[row][col] = New(row, col)
    <3> HIDE DEF arr, new, New, rows, cols
    <3>1. \A row \in rows : new[row] = [col \in cols |-> New(row, col)]
      BY <2>5
    <3>2. \A row \in rows, col \in cols : new[row][col] = New(row, col)
      BY <3>1
    <3>3. \A row \in rows : new[row] = [col \in cols |-> new[row][col]]
      BY <3>1, <3>2
    <3>4. new = [row \in rows |-> [col \in cols |-> new[row][col]]]
      BY <2>5, <3>1, <3>3
    <3> QED BY <3>2, <3>4 DEF Tabulated
  <2>7. ASSUME NEW row \in 0 .. ArrayRows(c) - 1, NEW col \in 0 .. ArrayCols(c) - 1
        PROVE  coef_arrays'[c][row][col] =
                 IF Writes(c, row, col) /\ MCUNumber(c, row, col) < Reached'
                 THEN [scan |-> input_scan_number,
                       num |-> StreamOrder(input_scan_number, c, row, col)]
                 ELSE coef_arrays[c][row][col]
    <3> DEFINE b == BlockOf(i, row - first, col)
               m == MCUNumber(c, row, col)
    <3>1. row \in Nat /\ col \in Nat
      <4>1. 0 .. ArrayRows(c) - 1 \subseteq Nat /\ 0 .. ArrayCols(c) - 1 \subseteq Nat
        BY <1>2, PlacesAreNat DEF InAScan
      <4> QED BY <4>1
    <3>2. /\ m \in Nat /\ b.x = col \div MCU_width(c)
          /\ InCall(stop, b.y, b.x) <=> Reached <= m /\ m < FirstMCU + stop
          /\ b.x < MCUs_per_row /\ Reached <= m => row >= first
          /\ Delivered(b.y, b.x, b.blkn) =
               [scan |-> input_scan_number,
                num |-> StreamOrder(input_scan_number, c, row, col)]
      BY <1>1, <1>5, <2>1, <3>1, CallOfBlock DEF first
    <3>3. coef_arrays'[c][row][col] =
            IF row >= first /\ InCall(stop, b.y, b.x) /\ b.x < MCUs_per_row
            THEN Delivered(b.y, b.x, b.blkn) ELSE coef_arrays[c][row][col]
      BY <2>6
    <3> HIDE DEF b, m
    <3>4. row >= first /\ InCall(stop, b.y, b.x) /\ b.x < MCUs_per_row
            <=> Writes(c, row, col) /\ MCUNumber(c, row, col) < Reached'
      BY <1>5, <2>4, <3>2 DEF Writes, m
    <3> QED BY <3>2, <3>3, <3>4
  <2> QED BY <1>6, <2>6, <2>7
<1> QED BY <1>7, <1>8

LEMMA NumbersAreNat ==
  Counters /\ input_scan_number > 0 =>
    \A c \in Component, row \in Nat, col \in Nat :
      InScan(c, input_scan_number) =>
        /\ MCUNumber(c, row, col) \in Nat
        /\ StreamOrder(input_scan_number, c, row, col) \in Nat
<1> SUFFICES ASSUME Counters, input_scan_number > 0,
                    NEW c \in Component, NEW row \in Nat, NEW col \in Nat,
                    InScan(c, input_scan_number)
             PROVE  /\ MCUNumber(c, row, col) \in Nat
                    /\ StreamOrder(input_scan_number, c, row, col) \in Nat
  OBVIOUS
<1>1. InAScan /\ input_iMCU_row \in Nat
  <2>1. image \in Images /\ input_iMCU_row \in 0 .. total_iMCU_rows
    BY DEF Counters
  <2> QED BY <2>1, InAScanIs
<1>2. PICK i \in DOMAIN Comps : Comps[i] = c
  BY DEF InScan, Comps
<1> DEFINE b == BlockOf(i, row - input_iMCU_row * image.v[c], col)
           m == MCUNumber(c, row, col)
           s == StreamOrder(input_scan_number, c, row, col)
<1>3. m \in Nat /\ b.blkn \in Nat /\ s = m * blocks_in_MCU + b.blkn
  BY <1>1, <1>2, BlockOfIs
<1>4. blocks_in_MCU \in Nat
  BY <1>1, BlocksOfMCU
<1> HIDE DEF b, m, s
<1>5. m * blocks_in_MCU \in Nat
  BY <1>3, <1>4
<1>6. s \in Nat
  BY <1>3, <1>5
<1> QED BY <1>3, <1>6 DEF m, s

LEMMA InitStored == Init => Stored
<1> SUFFICES ASSUME Init  PROVE Stored
  OBVIOUS
<1>1. /\ input_scan_number = 0 /\ image \in Images
      /\ coef_arrays = [c \in Component |-> [row \in 0 .. ArrayRows(c) - 1 |->
                          [col \in 0 .. ArrayCols(c) - 1 |-> NoBlock]]]
  BY DEF Init
<1>2. NoBlock \in CoefBlock /\ NoBlock.scan = 0
  BY DEF NoBlock, CoefBlock
<1>3. Shape
  <2> HIDE DEF NoBlock
  <2> QED BY <1>1, <1>2 DEF Shape
<1>4. ASSUME NEW c \in Component, NEW row \in 0 .. ArrayRows(c) - 1, NEW col \in 0 .. ArrayCols(c) - 1
      PROVE  StoredBlock(c, row, col)
  <2>1. coef_arrays[c][row][col] = NoBlock
    BY <1>1
  <2> QED BY <1>1, <1>2, <2>1 DEF StoredBlock, InPlace
<1> QED BY <1>3, <1>4 DEF Stored

LEMMA ShapeKept ==
  ASSUME Shape, image' = image, coef_arrays' = coef_arrays
  PROVE  Shape'
<1>1. /\ Component' = Component
      /\ \A c : ArrayRows(c)' = ArrayRows(c) /\ ArrayCols(c)' = ArrayCols(c)
  BY ImageKept
<1> QED BY <1>1 DEF Shape

LEMMA InPlaceKept ==
  ASSUME image' = image, NEW c, NEW row, NEW col,
         coef_arrays'[c][row][col] = coef_arrays[c][row][col], InPlace(c, row, col)
  PROVE  InPlace(c, row, col)'
<1>1. /\ \A k : (InScan(c, k)' <=> InScan(c, k)) /\ Scan(k)' = Scan(k)
      /\ \A k : StreamOrder(k, c, row, col)' = StreamOrder(k, c, row, col)
      /\ Real(c, row, col)' <=> Real(c, row, col)
  BY ScansKept, ImageKept, StreamOrderKept
<1> QED BY <1>1 DEF InPlace

\* A step that neither writes a block nor reads on.
LEMMA StoredKept ==
  ASSUME Place, Stored, UNCHANGED <<image, coef_arrays, input_scan_number>>,
         error' = "none" => error = "none",
         FullBuffer /\ input_scan_number > 0 => Reached' = Reached
  PROVE  Stored'
<1>1. /\ Component' = Component
      /\ \A c : ArrayRows(c)' = ArrayRows(c) /\ ArrayCols(c)' = ArrayCols(c)
      /\ (FullBuffer <=> FullBuffer')
  BY ImageKept
<1>2. Shape'
  BY ShapeKept DEF Stored
<1>3. ASSUME NEW c \in Component, NEW row \in 0 .. ArrayRows(c) - 1, NEW col \in 0 .. ArrayCols(c) - 1
      PROVE  StoredBlock(c, row, col)'
  <2>1. StoredBlock(c, row, col)
    BY DEF Stored
  <2>2. InPlace(c, row, col)'
    BY <2>1, InPlaceKept DEF StoredBlock
  <2>3. /\ \A k : (InScan(c, k)' <=> InScan(c, k))
        /\ Real(c, row, col)' <=> Real(c, row, col)
    BY ScansKept, StreamOrderKept
  <2>4. input_scan_number > 0 => MCUNumber(c, row, col)' = MCUNumber(c, row, col)
    <3> SUFFICES ASSUME input_scan_number > 0
                 PROVE  MCUNumber(c, row, col)' = MCUNumber(c, row, col)
      OBVIOUS
    <3>1. InAScan
      BY InAScanIs DEF Place
    <3> QED BY <3>1, ScanKept DEF MCUNumber
  <2>5. FullBuffer' /\ Real(c, row, col)' =>
          \A k \in 1 .. input_scan_number' - 1 :
            InScan(c, k)' => coef_arrays'[c][row][col].scan >= k
    BY <1>1, <2>1, <2>3 DEF StoredBlock
  <2>6. ASSUME FullBuffer', Real(c, row, col)', error' = "none", input_scan_number' > 0,
               InScan(c, input_scan_number)', MCUNumber(c, row, col)' < Reached'
        PROVE  coef_arrays'[c][row][col].scan = input_scan_number'
    <3>1. InScan(c, input_scan_number)
      BY <2>6, ImageKept DEF InScan
    <3>2. /\ FullBuffer /\ Real(c, row, col) /\ error = "none" /\ input_scan_number > 0
          /\ MCUNumber(c, row, col) < Reached
      BY <2>6, <1>1, <2>3, <2>4
    <3> QED BY <2>1, <3>1, <3>2 DEF StoredBlock
  <2>7. coef_arrays'[c][row][col].scan <= input_scan_number'
    BY <2>1 DEF StoredBlock
  <2> QED BY <2>2, <2>5, <2>6, <2>7 DEF StoredBlock
<1> QED BY <1>1, <1>2, <1>3 DEF Stored

\* A noninterleaved scan has real blocks only.
LEMMA AloneReal ==
  ASSUME InAScan, NEW i \in DOMAIN Comps, Len(Comps) = 1, NEW row \in Nat, NEW col \in Nat,
         col \div MCU_width(Comps[i]) < MCUs_per_row,
         MCUNumber(Comps[i], row, col) < MCUs_per_row * MCU_rows_in_scan
  PROVE  Real(Comps[i], row, col)
<1> DEFINE c == Comps[i]
           W == MCUs_per_row
           n == MCU_rows_in_scan
<1>1. ~Interleaved
  BY CompsTypes
<1>2. /\ i = 1 /\ MCU_width(c) = 1 /\ MCU_height(c) = 1
      /\ W = width_in_blocks(c) /\ n = height_in_blocks(c)
      /\ W \in Nat \ {0} /\ n \in Nat \ {0}
  BY <1>1, MCUGeometry, ScanGeometry
<1>3. row \div 1 = row /\ col \div 1 = col
  OBVIOUS
<1>4. MCUNumber(c, row, col) = row * W + col /\ col < W
  BY <1>2, <1>3 DEF MCUNumber
<1>5. row * W + col < W * n
  BY <1>4
<1> HIDE DEF c, W, n
<1>6. row < n
  <2>1. n <= row => n * W <= row * W
    BY <1>2, ProductOrder
  <2>2. n * W = W * n /\ n * W \in Int /\ row * W \in Int
    BY <1>2
  <2> QED BY <1>2, <1>5, <2>1, <2>2
<1>7. Real(c, row, col)
  BY <1>2, <1>4, <1>6 DEF Real
<1> QED BY <1>7 DEF c

LEMMA ConsumeStored ==
  ASSUME Place, Stored, ConsumeData
  PROVE  Stored'
<1>1. error = "none" /\ consume_input = "data" /\ image' = image
  BY DEF ConsumeData
<1>2. /\ InAScan /\ input_iMCU_row \in 0 .. total_iMCU_rows - 1
      /\ Reached = FirstMCU + Resume /\ FirstMCU \in Nat
  BY <1>1, ReachedIs DEF Place
<1>3. PICK stop \in Resume .. MCUsInRow : DecodeUntil(stop)
  <2>1. ~ \E d \in {Comps[i] : i \in DOMAIN Comps} :
            ~AccessOK(d, input_iMCU_row * image.v[d], image.v[d])
    BY <1>2, CompsTypes, StripFits DEF InAScan
  <2> QED BY <2>1 DEF ConsumeData
<1>4. /\ input_scan_number' = input_scan_number /\ Reached' = FirstMCU + stop
      /\ input_scan_number \in Nat \ {0}
  <2>1. input_scan_number \in Nat \ {0}
    BY <1>2, ScanTypes DEF InAScan
  <2> QED BY <1>1, <1>3, <2>1, DecodeStep DEF Place
<1>5. Reached' <= MCUs_per_row * MCU_rows_in_scan
  <2>1. stop <= MCUsInRow /\ stop \in Int /\ MCUsInRow \in Int
    BY <1>1, <1>3, ReachedIs DEF Place
  <2>2. /\ FirstMCU + MCUsInRow <= MCUs_per_row * MCU_rows_in_scan
        /\ MCUs_per_row \in Nat \ {0} /\ MCU_rows_in_scan \in Nat \ {0}
    BY <1>2, RowInScan, ScanGeometry
  <2> DEFINE n == MCUs_per_row * MCU_rows_in_scan
  <2>3. n \in Int
    BY <2>2
  <2> HIDE DEF n
  <2>4. FirstMCU + stop <= n
    BY <1>2, <2>1, <2>2, <2>3 DEF n
  <2> QED BY <1>4, <2>4 DEF n
<1>6. /\ Component' = Component
      /\ \A c : ArrayRows(c)' = ArrayRows(c) /\ ArrayCols(c)' = ArrayCols(c)
      /\ (FullBuffer <=> FullBuffer')
  BY <1>1, ImageKept
<1>7. ASSUME NEW c \in Component
      PROVE  /\ DOMAIN coef_arrays' = Component
             /\ Tabulated(coef_arrays'[c], 0 .. ArrayRows(c) - 1, 0 .. ArrayCols(c) - 1)
             /\ \A row \in 0 .. ArrayRows(c) - 1 : \A col \in 0 .. ArrayCols(c) - 1 :
                  coef_arrays'[c][row][col] =
                    IF Writes(c, row, col) /\ MCUNumber(c, row, col) < Reached'
                    THEN [scan |-> input_scan_number,
                          num |-> StreamOrder(input_scan_number, c, row, col)]
                    ELSE coef_arrays[c][row][col]
  <2>1. coef_arrays[c] \in [0 .. ArrayRows(c) - 1 -> [0 .. ArrayCols(c) - 1 -> CoefBlock]]
    BY DEF Stored, Shape
  <2> QED BY <2>1, ConsumeWrites
<1>8. ASSUME NEW c \in Component, NEW row \in 0 .. ArrayRows(c) - 1, NEW col \in 0 .. ArrayCols(c) - 1
      PROVE  coef_arrays'[c][row][col] \in CoefBlock /\ StoredBlock(c, row, col)'
  <2> DEFINE old == coef_arrays[c][row][col]
             new == coef_arrays'[c][row][col]
             n == input_scan_number
             m == MCUNumber(c, row, col)
             order == StreamOrder(n, c, row, col)
             written == Writes(c, row, col) /\ m < Reached'
  <2>1. new = IF written THEN [scan |-> n, num |-> order] ELSE old
    BY <1>7
  <2>2. row \in Nat /\ col \in Nat
    BY <1>2, PlacesAreNat DEF InAScan
  <2>3. InScan(c, n) => m \in Nat /\ order \in Nat
    BY <1>4, <2>2, NumbersAreNat DEF Place
  <2>4. old \in CoefBlock
    <3>1. coef_arrays[c] \in [0 .. ArrayRows(c) - 1 -> [0 .. ArrayCols(c) - 1 -> CoefBlock]]
      BY DEF Stored, Shape
    <3> DEFINE f == coef_arrays[c]
               rows == 0 .. ArrayRows(c) - 1
               cols == 0 .. ArrayCols(c) - 1
    <3>2. f \in [rows -> [cols -> CoefBlock]] /\ row \in rows /\ col \in cols
      BY <3>1
    <3> HIDE DEF f, rows, cols
    <3>3. f[row][col] \in CoefBlock
      BY <3>2
    <3> QED BY <3>3 DEF f
  <2>5. /\ InPlace(c, row, col) /\ old.scan <= n
        /\ FullBuffer /\ Real(c, row, col) =>
             /\ \A k \in 1 .. n - 1 : InScan(c, k) => old.scan >= k
             /\ InScan(c, n) /\ m < Reached => old.scan = n
    BY <1>1, <1>4 DEF Stored, StoredBlock
  <2>6. /\ \A k : (InScan(c, k)' <=> InScan(c, k)) /\ Scan(k)' = Scan(k)
        /\ StreamOrder(n, c, row, col)' = StreamOrder(n, c, row, col)
        /\ \A k : StreamOrder(k, c, row, col)' = StreamOrder(k, c, row, col)
        /\ Real(c, row, col)' <=> Real(c, row, col)
        /\ MCUNumber(c, row, col)' = m
    <3>1. MCUNumber(c, row, col)' = m
      BY <1>1, <1>2, <1>4, ScanKept DEF MCUNumber
    <3> QED BY <1>1, <3>1, ScansKept, ImageKept, StreamOrderKept, <1>4
  <2>7. CASE written
    <3>1. /\ InScan(c, n) /\ col \div MCU_width(c) < MCUs_per_row /\ m < Reached'
          /\ new = [scan |-> n, num |-> order]
      BY <2>1, <2>7 DEF Writes
    <3>2. PICK i \in DOMAIN Comps : Comps[i] = c
      BY <3>1 DEF InScan, Comps
    <3>3. Len(Comps) = 1 => Real(c, row, col)
      <4>1. m < MCUs_per_row * MCU_rows_in_scan
        <5> DEFINE all == MCUs_per_row * MCU_rows_in_scan
        <5>1. m \in Int /\ Reached' \in Int /\ all \in Int
          <6>1. MCUs_per_row \in Nat \ {0} /\ MCU_rows_in_scan \in Nat \ {0}
            BY <1>2, ScanGeometry
          <6> QED BY <2>3, <3>1, <1>2, <1>3, <1>4, <6>1, ReachedIs, <1>1 DEF Place
        <5>2. m < Reached' /\ Reached' <= all
          BY <3>1, <1>5
        <5> HIDE DEF all, m
        <5> QED BY <5>1, <5>2 DEF all
      <4> QED BY <1>2, <2>2, <3>1, <3>2, <4>1, AloneReal
    <3>4. new.scan = n /\ new.num = order /\ new \in CoefBlock
      BY <2>3, <3>1, <1>4 DEF CoefBlock
    <3>5. InPlace(c, row, col)'
      BY <2>6, <3>1, <3>3, <3>4, <1>4 DEF InPlace, Comps
    <3>6. n <= n /\ \A k \in 1 .. n - 1 : n >= k
      BY <1>4
    <3> QED BY <3>4, <3>5, <3>6, <1>4 DEF StoredBlock
  <2>8. CASE ~written
    <3>1. new = old
      BY <2>1, <2>8
    <3>2. InPlace(c, row, col)'
      BY <1>1, <2>5, <3>1, InPlaceKept
    <3>3. FullBuffer /\ Real(c, row, col) /\ InScan(c, n) /\ m < Reached' => old.scan = n
      <4> SUFFICES ASSUME FullBuffer, Real(c, row, col), InScan(c, n), m < Reached'
                   PROVE  old.scan = n
        OBVIOUS
      <4>1. PICK i \in DOMAIN Comps : Comps[i] = c
        BY DEF InScan, Comps
      <4>2. col \div MCU_width(c) < MCUs_per_row
        BY <1>2, <2>2, <4>1, RealInScan
      <4>3. ~(Reached <= m)
        BY <2>8, <4>2 DEF Writes
      <4>4. m \in Int /\ Reached \in Int
        BY <2>3, <1>1, <1>2, ReachedIs DEF Place
      <4> QED BY <2>5, <4>3, <4>4
    <3> QED BY <2>4, <2>5, <2>6, <3>1, <3>2, <3>3, <1>4, <1>6 DEF StoredBlock
  <2> QED BY <2>7, <2>8
<1>9. Shape'
  <2>1. ASSUME NEW c \in Component
        PROVE  coef_arrays'[c] \in [0 .. ArrayRows(c) - 1 -> [0 .. ArrayCols(c) - 1 -> CoefBlock]]
    <3> DEFINE f == coef_arrays'[c]
               rows == 0 .. ArrayRows(c) - 1
               cols == 0 .. ArrayCols(c) - 1
    <3>1. Tabulated(f, rows, cols)
      BY <1>7
    <3>2. \A row \in rows, col \in cols : f[row][col] \in CoefBlock
      BY <1>8
    <3> HIDE DEF f, rows, cols
    <3>3. f \in [rows -> [cols -> CoefBlock]]
      BY <3>1, <3>2, TableOf
    <3> QED BY <3>3 DEF f, rows, cols
  <2>2. DOMAIN coef_arrays' = Component
    <3>1. Component # {}
      BY ImageTypes, <1>2 DEF InAScan
    <3> QED BY <1>7, <3>1
  <2> QED BY <1>6, <2>1, <2>2 DEF Shape
<1> QED BY <1>6, <1>8, <1>9 DEF Stored

\* The next scan: the one before is complete, this one has no MCU yet.
LEMMA StartInputPassStored ==
  ASSUME Place, Stored, StartInputPass
  PROVE  Stored'
<1>1. /\ error = "none" /\ consume_input = "markers" /\ image' = image
      /\ coef_arrays' = coef_arrays
  BY DEF StartInputPass, UnexpectedScan
<1>2. /\ Place' /\ input_scan_number' = input_scan_number + 1
      /\ input_scan_number' \in DOMAIN image.scans
      /\ error' = "none" => Reached' = 0
  BY StartInputPassPlace
<1>3. /\ Component' = Component
      /\ \A c : ArrayRows(c)' = ArrayRows(c) /\ ArrayCols(c)' = ArrayCols(c)
      /\ (FullBuffer <=> FullBuffer')
  BY <1>1, ImageKept
<1>4. Shape'
  BY <1>1, ShapeKept DEF Stored
<1>5. image \in Images /\ input_scan_number \in Nat
  <2>1. image \in Images /\ input_scan_number \in 0 .. Len(image.scans)
    BY DEF Place, Counters
  <2> QED BY <2>1
<1>6. (Counters /\ input_scan_number > 0 =>
         \A c \in Component, row \in Nat, col \in Nat :
           InScan(c, input_scan_number) =>
             /\ MCUNumber(c, row, col) \in Nat
             /\ StreamOrder(input_scan_number, c, row, col) \in Nat)'
  BY NumbersAreNat, PTL
<1>7. ASSUME NEW c \in Component, NEW row \in 0 .. ArrayRows(c) - 1, NEW col \in 0 .. ArrayCols(c) - 1
      PROVE  StoredBlock(c, row, col)'
  <2> DEFINE scan == coef_arrays[c][row][col].scan
             n == input_scan_number
  <2>1. row \in Nat /\ col \in Nat
    BY <1>5, PlacesAreNat
  <2>2. scan \in Nat
    <3>1. coef_arrays[c] \in [0 .. ArrayRows(c) - 1 -> [0 .. ArrayCols(c) - 1 -> CoefBlock]]
      BY DEF Stored, Shape
    <3> DEFINE f == coef_arrays[c]
               rows == 0 .. ArrayRows(c) - 1
               cols == 0 .. ArrayCols(c) - 1
    <3>2. f \in [rows -> [cols -> CoefBlock]] /\ row \in rows /\ col \in cols
      BY <3>1
    <3> HIDE DEF f, rows, cols
    <3>3. f[row][col] \in CoefBlock
      BY <3>2
    <3>4. f[row][col].scan \in Nat
      BY <3>3 DEF CoefBlock
    <3> QED BY <3>4 DEF f
  <2>3. /\ InPlace(c, row, col) /\ scan <= n
        /\ FullBuffer /\ Real(c, row, col) =>
             /\ \A k \in 1 .. n - 1 : InScan(c, k) => scan >= k
             /\ n > 0 /\ InScan(c, n) /\ MCUNumber(c, row, col) < Reached => scan = n
    BY <1>1 DEF Stored, StoredBlock
  <2>4. /\ \A k : (InScan(c, k)' <=> InScan(c, k))
        /\ Real(c, row, col)' <=> Real(c, row, col)
        /\ InPlace(c, row, col)'
    BY <1>1, <2>3, ScansKept, StreamOrderKept, InPlaceKept
  <2>5. FullBuffer /\ Real(c, row, col) /\ n > 0 /\ InScan(c, n) => scan = n
    <3> SUFFICES ASSUME FullBuffer, Real(c, row, col), n > 0, InScan(c, n)
                 PROVE  MCUNumber(c, row, col) < Reached
      BY <2>3
    <3>1. InAScan
      BY InAScanIs DEF Place
    <3>2. PICK i \in DOMAIN Comps : Comps[i] = c
      BY DEF InScan, Comps
    <3>3. Reached = MCUs_per_row * MCU_rows_in_scan
      BY <1>1 DEF Reached
    <3> QED BY <2>1, <3>1, <3>2, <3>3, RealInScan
  <2>6. FullBuffer' /\ Real(c, row, col)' =>
          \A k \in 1 .. input_scan_number' - 1 : InScan(c, k)' => scan >= k
    <3> SUFFICES ASSUME FullBuffer, Real(c, row, col), NEW k \in 1 .. n, InScan(c, k)
                 PROVE  scan >= k
      BY <1>2, <1>3, <1>5, <2>4
    <3>1. CASE k = n
      <4>1. n > 0 /\ InScan(c, n)
        BY <1>5, <3>1
      <4> QED BY <2>5, <3>1, <4>1, <1>5
    <3>2. CASE k # n
      <4>1. k \in 1 .. n - 1
        BY <1>5, <3>2
      <4> QED BY <2>3, <4>1
    <3> QED BY <3>1, <3>2
  <2>7. error' = "none" /\ InScan(c, input_scan_number)' => ~(MCUNumber(c, row, col)' < Reached')
    <3> SUFFICES ASSUME error' = "none", InScan(c, input_scan_number)'
                 PROVE  ~(MCUNumber(c, row, col)' < Reached')
      OBVIOUS
    <3>2. Counters' /\ input_scan_number' > 0
      BY <1>2, <1>5 DEF Place
    <3>3. MCUNumber(c, row, col)' \in Nat
      BY <1>3, <1>6, <2>1, <3>2
    <3>4. Reached' = 0
      BY <1>2
    <3> QED BY <3>3, <3>4
  <2>8. scan <= n + 1
    BY <2>2, <2>3, <1>5
  <2>9. coef_arrays'[c][row][col].scan = scan
    BY <1>1
  <2> QED BY <1>2, <2>4, <2>6, <2>7, <2>8, <2>9 DEF StoredBlock
<1> QED BY <1>3, <1>4, <1>7 DEF Stored

LEMMA NextStored == Place /\ Stored /\ [Next]_vars => Stored'
<1> SUFFICES ASSUME Place, Stored, [Next]_vars  PROVE Stored'
  OBVIOUS
<1>1. CASE ConsumeData
  BY <1>1, ConsumeStored
<1>2. CASE StartInputPass
  BY <1>2, StartInputPassStored
<1>3. CASE DecompressOnepass
  <2>1. /\ UNCHANGED <<image, coef_arrays, error>> /\ decompress_data = "onepass"
        /\ consume_input = "data" /\ error = "none"
        /\ \E stop \in Resume .. MCUsInRow : DecodeUntil(stop)
    BY <1>3 DEF DecompressOnepass
  <2>2. ~FullBuffer
    BY <2>1 DEF Place, OutputPlace
  <2>3. input_scan_number' = input_scan_number
    BY <2>1, DecodeStep DEF Place
  <2> QED BY <2>1, <2>2, <2>3, StoredKept
<1>4. CASE ReachEOI
  <2>1. /\ UNCHANGED <<image, coef_arrays, error, input_scan_number>>
        /\ consume_input = "markers" /\ consume_input' = "EOI"
    BY <1>4 DEF ReachEOI
  <2>2. input_scan_number > 0 => Reached' = Reached
    <3> SUFFICES ASSUME input_scan_number > 0  PROVE Reached' = Reached
      OBVIOUS
    <3>1. MCUs_per_row' = MCUs_per_row /\ MCU_rows_in_scan' = MCU_rows_in_scan
      BY <2>1, InAScanIs, ScanKept DEF Place
    <3> QED BY <2>1, <3>1 DEF Reached
  <2> QED BY <2>1, <2>2, StoredKept
<1>5. CASE /\ UNCHANGED <<image, coef_arrays, input_scan_number, consume_input, input_iMCU_row,
                          MCU_vert_offset, MCU_ctr>>
           /\ error' = "none" => error = "none"
  <2>1. input_scan_number > 0 => Reached' = Reached
    <3> SUFFICES ASSUME input_scan_number > 0  PROVE Reached' = Reached
      OBVIOUS
    <3>1. /\ MCUs_per_row' = MCUs_per_row /\ MCU_rows_in_scan' = MCU_rows_in_scan
          /\ RowsPerIMCU' = RowsPerIMCU
      BY <1>5, InAScanIs, ScanKept DEF Place
    <3> QED BY <1>5, <3>1 DEF Reached
  <2> QED BY <1>5, <2>1, StoredKept
<1>6. CASE DefineTable
  BY <1>5, <1>6 DEF DefineTable, inputVars
<1>7. CASE \E target \in 1 .. MaxTarget, method \in Methods, smooth \in BOOLEAN :
             StartOutputPass(target, method, smooth)
  BY <1>5, <1>7 DEF StartOutputPass, inputVars
<1>8. CASE FinishOutputPass
  BY <1>5, <1>8 DEF FinishOutputPass, inputVars
<1>9. CASE DecompressData
  BY <1>5, <1>9 DEF DecompressData, inputVars
<1>10. CASE DecompressSmoothData
  BY <1>5, <1>10 DEF DecompressSmoothData, inputVars
<1>11. CASE UNCHANGED vars
  BY <1>5, <1>11 DEF vars, inputVars
<1> QED BY <1>1, <1>2, <1>3, <1>4, <1>6, <1>7, <1>8, <1>9, <1>10, <1>11 DEF Next

LEMMA StoredHolds == Spec => []Stored
<1>1. Place /\ Stored /\ [Next]_vars => Stored'
  BY NextStored
<1> QED BY <1>1, InitStored, PlaceHolds, PTL DEF Spec

\* However often the decoder suspended, every block that a scan delivers is in
\* its place, and after a scan every block of its components is the scan's.
THEOREM ScanStoredTheorem == Spec => []ScanStored
<1>1. Place /\ Stored => ScanStored
  <2> SUFFICES ASSUME Place, Stored  PROVE ScanStored
    OBVIOUS
  <2>1. ASSUME NEW c \in Component, NEW row \in DOMAIN coef_arrays[c],
               NEW col \in DOMAIN coef_arrays[c][row]
        PROVE  InPlace(c, row, col)
    <3> DEFINE f == coef_arrays[c]
               rows == 0 .. ArrayRows(c) - 1
               cols == 0 .. ArrayCols(c) - 1
    <3>1. f \in [rows -> [cols -> CoefBlock]]
      BY DEF Stored, Shape
    <3>2. row \in DOMAIN f /\ col \in DOMAIN f[row]
      OBVIOUS
    <3> HIDE DEF f, rows, cols
    <3>3. row \in rows /\ col \in cols
      BY <3>1, <3>2
    <3> QED BY <3>3 DEF rows, cols, Stored, StoredBlock
  <2>2. ASSUME error = "none", consume_input # "data", input_scan_number > 0
        PROVE  decoded = MCUs_per_row * MCU_rows_in_scan * blocks_in_MCU
    BY <2>2 DEF Place, InputPlace, Reached
  <2>3. ASSUME error = "none", consume_input # "data", input_scan_number > 0, FullBuffer,
               NEW i \in DOMAIN Comps, NEW row \in 0 .. height_in_blocks(Comps[i]) - 1,
               NEW col \in 0 .. width_in_blocks(Comps[i]) - 1
        PROVE  coef_arrays[Comps[i]][row][col].scan = input_scan_number
    <3> DEFINE c == Comps[i]
    <3>1. InAScan /\ c \in Component /\ image \in Images
      BY <2>3, InAScanIs, CompsTypes DEF Place, Counters
    <3>2. /\ ArrayRows(c) \in Nat /\ ArrayCols(c) \in Nat
          /\ height_in_blocks(c) <= ArrayRows(c) /\ width_in_blocks(c) <= ArrayCols(c)
          /\ height_in_blocks(c) \in Nat /\ width_in_blocks(c) \in Nat
      BY <3>1, PlacesAreNat, Geometry
    <3> DEFINE h == height_in_blocks(c)
               w == width_in_blocks(c)
               H == ArrayRows(c)
               W == ArrayCols(c)
    <3>3. /\ row \in Nat /\ col \in Nat /\ row < h /\ col < w
          /\ row \in 0 .. H - 1 /\ col \in 0 .. W - 1
      <4>1. row \in 0 .. h - 1 /\ col \in 0 .. w - 1
        OBVIOUS
      <4> HIDE DEF h, w, H, W
      <4> QED BY <3>2, <4>1 DEF h, w, H, W
    <3>4. Real(c, row, col)
      BY <3>3 DEF Real
    <3>5. Reached = MCUs_per_row * MCU_rows_in_scan
      BY <2>3 DEF Reached
    <3>6. MCUNumber(c, row, col) < Reached
      BY <3>1, <3>3, <3>4, <3>5, RealInScan
    <3>7. InScan(c, input_scan_number)
      BY DEF InScan, Comps
    <3>8. StoredBlock(c, row, col)
      BY <3>1, <3>3 DEF Stored
    <3> QED BY <2>3, <3>4, <3>6, <3>7, <3>8 DEF StoredBlock
  <2>4. ASSUME error = "none", consume_input # "data", input_scan_number > 0, FullBuffer,
               NEW c \in {Comps[i] : i \in DOMAIN Comps},
               NEW row \in 0 .. height_in_blocks(c) - 1,
               NEW col \in 0 .. width_in_blocks(c) - 1
        PROVE  coef_arrays[c][row][col].scan = input_scan_number
    <3>1. PICK i \in DOMAIN Comps : c = Comps[i]
      OBVIOUS
    <3> QED BY <2>3, <2>4, <3>1
  <2> QED BY <2>1, <2>2, <2>4 DEF ScanStored
<1> QED BY <1>1, PlaceHolds, StoredHolds, PTL

-------------------------------------------------------------------------------
(* What is emitted                                                         *)

\* The only scan of a file that is not buffered has all components.
LEMMA AllInScan ==
  ASSUME image \in Images, ~has_multiple_scans, NEW c \in Component
  PROVE  InScan(c, 1)
<1> DEFINE comps == Scan(1).comps
           n == Len(comps)
           m == Len(image.h)
<1>1. 1 \in DOMAIN image.scans
  <2>1. image.scans \in Seq(ScanHeader) \ {<<>>}
    BY CoefAssumption DEF CoefAssumption
  <2> QED BY <2>1
<1>2. /\ n \in Nat \ {0} /\ DOMAIN comps = 1 .. n
      /\ \A i \in DOMAIN comps :
           /\ comps[i] \in Component
           /\ \A j \in DOMAIN comps : comps[j] = comps[i] => j = i
  BY <1>1, ScanTypes
<1>3. Component = 1 .. m /\ m \in Nat
  BY ImageTypes
<1>4. ~(n < m)
  BY DEF has_multiple_scans
<1> HIDE DEF comps, n, m
<1>5. SUFFICES ASSUME \A i \in 1 .. n : comps[i] # c  PROVE FALSE
  BY <1>2 DEF InScan, comps
<1> DEFINE others == Component \ {c}
           f == [i \in 1 .. n |-> comps[i]]
<1>6. /\ IsFiniteSet(1 .. n) /\ Cardinality(1 .. n) = n
      /\ IsFiniteSet(others) /\ Cardinality(others) = m - 1
  <2>1. 1 \in Int /\ n \in Int /\ m \in Int
    BY <1>2, <1>3
  <2>2. /\ IsFiniteSet(1 .. n) /\ Cardinality(1 .. n) = IF 1 > n THEN 0 ELSE n - 1 + 1
        /\ IsFiniteSet(1 .. m) /\ Cardinality(1 .. m) = IF 1 > m THEN 0 ELSE m - 1 + 1
    BY <2>1, FS_Interval
  <2>3. Cardinality(1 .. n) = n /\ Cardinality(1 .. m) = m
    BY <1>2, <1>3, <2>2
  <2>4. IsFiniteSet(others) /\ Cardinality(others) = Cardinality(1 .. m) - 1
    BY <1>3, <2>2, FS_RemoveElement
  <2> QED BY <2>2, <2>3, <2>4
<1>7. f \in [1 .. n -> others]
  BY <1>2, <1>5
<1>8. Cardinality(others) < Cardinality(1 .. n)
  BY <1>2, <1>3, <1>4, <1>6
<1>9. \E x, y \in 1 .. n : x # y /\ f[x] = f[y]
  <2> HIDE DEF f, others
  <2> QED BY <1>6, <1>7, <1>8, FS_PigeonHole
<1> QED BY <1>2, <1>9

\* Horizontally, the useful blocks of the MCUs are the real ones.
LEMMA UsefulColumns ==
  ASSUME InAScan, NEW i \in DOMAIN Comps, NEW col \in Nat, col < ArrayCols(Comps[i])
  PROVE  LET c == Comps[i]
             x == col \div MCU_width(c)
         IN x < MCUs_per_row /\ col % MCU_width(c) < UsefulWidth(c, x)
              <=> col < width_in_blocks(c)
<1> DEFINE c == Comps[i]
           mw == MCU_width(c)
           W == MCUs_per_row
           w == width_in_blocks(c)
           x == col \div mw
           r == col % mw
<1>1. /\ c \in Component /\ mw \in Nat \ {0} /\ W \in Nat \ {0} /\ w \in Nat
  <2>1. c \in Component /\ mw \in 1 .. 4 /\ W \in Nat \ {0}
    BY MCUGeometry, ScanGeometry
  <2>2. w \in Nat
    BY <2>1, Geometry DEF InAScan
  <2>3. mw \in Nat \ {0}
    BY <2>1
  <2> QED BY <2>1, <2>2, <2>3
<1>2. UsefulWidth(c, x) = IF x < W - 1 THEN mw ELSE last_col_width(c)
  BY DEF UsefulWidth
<1>3. CASE Interleaved
  <2>1. /\ mw = image.h[c] /\ W = across
        /\ (across - 1) * image.h[c] < width_in_blocks(c)
        /\ ArrayCols(c) = across * image.h[c]
        /\ last_col_width(c) = width_in_blocks(c) - (across - 1) * image.h[c]
    BY <1>1, <1>3, MCUGeometry, ScanGeometry, Geometry DEF InAScan, last_col_width
  <2>2. (W - 1) * mw < w /\ col < W * mw /\ last_col_width(c) = w - (W - 1) * mw
    BY <2>1
  <2> HIDE DEF c, mw, W, w
  <2>3. x \in Nat /\ x < W
    BY <1>1, <2>2, DivBelow
  <2>4. x * mw <= col /\ col < x * mw + mw /\ r = col - x * mw
    BY <1>1, DivIs, RemainderIs
  <2> HIDE DEF x, r
  <2>5. x * mw \in Int /\ (W - 1) * mw \in Int /\ (x + 1) * mw = x * mw + mw /\ (x + 1) * mw \in Int
    BY <1>1, <2>3
  <2>6. CASE x < W - 1
    <3>1. (x + 1) * mw <= (W - 1) * mw
      BY <1>1, <2>3, <2>6, ProductOrder, x + 1 \in Int, W - 1 \in Int
    <3>2. col < w /\ r < mw
      BY <1>1, <2>2, <2>4, <2>5, <3>1
    <3> QED BY <1>2, <2>3, <2>6, <3>2 DEF x, r, w, W, mw, c
  <2>7. CASE ~(x < W - 1)
    <3>1. x = W - 1
      BY <1>1, <2>3, <2>7
    <3>2. r = col - (W - 1) * mw
      BY <2>4, <3>1
    <3>3. r < last_col_width(c) <=> col < w
      BY <1>1, <2>2, <2>5, <3>2
    <3> QED BY <1>2, <2>3, <2>7, <3>3 DEF x, r, w, W, mw, c
  <2> QED BY <2>6, <2>7
<1>4. CASE ~Interleaved
  <2>1. i = 1 /\ mw = 1 /\ W = w /\ last_col_width(c) = 1
    BY <1>4, MCUGeometry, ScanGeometry DEF last_col_width
  <2>2. col \div 1 = col /\ col % 1 = 0
    OBVIOUS
  <2>3. x = col /\ r = 0 /\ UsefulWidth(c, x) = 1
    BY <1>2, <2>1, <2>2
  <2> HIDE DEF x, r, W, w
  <2>4. x < W /\ r < UsefulWidth(c, x) <=> col < w
    BY <2>1, <2>3
  <2> QED BY <2>4 DEF x, r, w, W, mw, c
<1> QED BY <1>3, <1>4

\* Vertically, the useful blocks of the last iMCU row are the real ones.
LEMMA UsefulRows ==
  ASSUME image \in Images, NEW c \in Component, NEW r \in 0 .. total_iMCU_rows - 1,
         NEW y \in 0 .. image.v[c] - 1
  PROVE  /\ r * image.v[c] + y \in Nat
         /\ r * image.v[c] + y < ArrayRows(c)
         /\ r < total_iMCU_rows - 1 \/ y < LastOf(height_in_blocks(c), image.v[c])
              <=> r * image.v[c] + y < height_in_blocks(c)
<1> DEFINE v == image.v[c]
           t == total_iMCU_rows
           h == height_in_blocks(c)
           l == LastOf(h, v)
<1>1. /\ v \in 1 .. 4 /\ t \in Nat \ {0} /\ r \in 0 .. t - 1 /\ y \in 0 .. v - 1
      /\ h \in Nat /\ (t - 1) * v < h /\ h <= t * v /\ ArrayRows(c) = t * v
      /\ l = h - (t - 1) * v
  BY Geometry, ImageTypes
<1> HIDE DEF v, t, h, l
<1>2. v \in Nat \ {0} /\ r \in Nat /\ y \in Nat
  BY <1>1
<1>3. /\ r * v \in Nat /\ (r + 1) * v = r * v + v /\ (t - 1) * v \in Int /\ t * v = (t - 1) * v + v
  BY <1>1, <1>2
<1>4. (r + 1) * v <= t * v
  BY <1>1, <1>2, ProductOrder, r + 1 \in Int
<1>5. CASE r < t - 1
  <2>1. (r + 1) * v <= (t - 1) * v
    BY <1>1, <1>2, <1>5, ProductOrder, r + 1 \in Int, t - 1 \in Int
  <2>2. r * v + y < h
    BY <1>1, <1>3, <2>1
  <2> QED BY <1>1, <1>2, <1>3, <1>4, <1>5, <2>2 DEF v, t, h
<1>6. CASE r = t - 1
  <2>1. y < l <=> r * v + y < h
    BY <1>1, <1>3, <1>6
  <2>2. ~(r < t - 1)
    BY <1>1, <1>6
  <2> QED BY <1>1, <1>2, <1>3, <1>4, <2>1, <2>2 DEF v, t, h, l
<1> QED BY <1>1, <1>5, <1>6

\* A call to decompress_onepass emits the real blocks of the MCUs it decodes.
LEMMA EmittedInCallIs ==
  ASSUME Place, error = "none", consume_input = "data", output_iMCU_row = input_iMCU_row,
         NEW i \in DOMAIN Comps, NEW stop \in Nat
  PROVE  LET c == Comps[i]
             first == output_iMCU_row * image.v[c]
         IN \A p : p \in EmittedInCall(i, stop) <=>
              /\ p \in (0 .. image.v[c] - 1) \X (0 .. width_in_blocks(c) - 1)
              /\ Real(c, first + p[1], p[2])
              /\ Reached <= MCUNumber(c, first + p[1], p[2])
              /\ MCUNumber(c, first + p[1], p[2]) < FirstMCU + stop
<1> DEFINE c == Comps[i]
           v == image.v[c]
           w == width_in_blocks(c)
           first == output_iMCU_row * v
           cols == ArrayCols(c)
           In(y, x) ==
             LET b == BlockOf(i, y, x)
             IN /\ b.x < MCUs_per_row /\ InCall(stop, b.y, b.x)
                /\ x % MCU_width(c) < UsefulWidth(c, b.x)
                /\ \/ input_iMCU_row < total_iMCU_rows - 1
                   \/ y < last_row_height(c)
           Out(y, x) ==
             /\ Real(c, first + y, x)
             /\ Reached <= MCUNumber(c, first + y, x)
             /\ MCUNumber(c, first + y, x) < FirstMCU + stop
<1>1. InAScan /\ input_iMCU_row \in 0 .. total_iMCU_rows - 1 /\ image \in Images
  BY ReachedIs DEF Place, Counters
<1>2. /\ c \in Component /\ w \in Nat /\ cols \in Nat /\ w <= cols
      /\ height_in_blocks(c) \in Nat
  <2>1. c \in Component
    BY <1>1, MCUGeometry
  <2> QED BY <1>1, <2>1, PlacesAreNat, Geometry
<1>3. EmittedInCall(i, stop) = {p \in (0 .. v - 1) \X (0 .. cols - 1) : In(p[1], p[2])}
  BY DEF EmittedInCall
<1>4. ASSUME NEW y \in 0 .. v - 1, NEW x \in 0 .. cols - 1
      PROVE  In(y, x) <=> x \in 0 .. w - 1 /\ Out(y, x)
  <2> DEFINE row == first + y
             b == BlockOf(i, row - first, x)
             m == MCUNumber(c, row, x)
  <2>1. /\ row \in Nat /\ first \in Int /\ y \in Int
        /\ input_iMCU_row < total_iMCU_rows - 1 \/ y < last_row_height(c)
             <=> row < height_in_blocks(c)
    <3>1. /\ input_iMCU_row * v + y \in Nat
          /\ input_iMCU_row < total_iMCU_rows - 1 \/ y < LastOf(height_in_blocks(c), v)
               <=> input_iMCU_row * v + y < height_in_blocks(c)
      BY <1>1, <1>2, UsefulRows
    <3>2. v \in 1 .. 4 /\ input_iMCU_row \in Int
      BY <1>1, <1>2, ImageTypes
    <3>3. first \in Int /\ y \in Int
      BY <3>2
    <3> QED BY <3>1, <3>3 DEF last_row_height
  <2>2. x \in Nat /\ x < cols
    BY <1>2
  <2>3. row - first = y
    <3> HIDE DEF first
    <3> QED BY <2>1
  <2>4. /\ m \in Nat /\ b.x = x \div MCU_width(c)
        /\ InCall(stop, b.y, b.x) <=> Reached <= m /\ m < FirstMCU + stop
    <3> HIDE DEF first, row
    <3>1. first = input_iMCU_row * image.v[Comps[i]]
      BY DEF first
    <3> QED BY <2>1, <2>2, <3>1, CallOfBlock
  <2>5. b = BlockOf(i, y, x)
    BY <2>3
  <2> HIDE DEF row, first, b, m
  <2>6. b.x < MCUs_per_row /\ x % MCU_width(c) < UsefulWidth(c, b.x) <=> x < w
    BY <1>1, <2>2, <2>4, UsefulColumns
  <2>7. In(y, x) <=> /\ b.x < MCUs_per_row /\ InCall(stop, b.y, b.x)
                     /\ x % MCU_width(c) < UsefulWidth(c, b.x)
                     /\ row < height_in_blocks(c)
    BY <2>1, <2>5
  <2>8. Out(y, x) <=> row < height_in_blocks(c) /\ x < w /\ Reached <= m /\ m < FirstMCU + stop
    BY DEF Real, m, row
  <2>9. x < w <=> x \in 0 .. w - 1
    BY <2>2, <1>2
  <2> HIDE DEF In, Out
  <2> QED BY <2>4, <2>6, <2>7, <2>8, <2>9
<1>5. 0 .. w - 1 \subseteq 0 .. cols - 1
  BY <1>2
<1> HIDE DEF In, Out, w, cols, v, first
<1>6. ASSUME NEW p
      PROVE  p \in EmittedInCall(i, stop) <=>
               p \in (0 .. v - 1) \X (0 .. w - 1) /\ Out(p[1], p[2])
  BY <1>3, <1>4, <1>5
<1> QED BY <1>6 DEF Out, w, v, first, c

\* The real blocks of an iMCU row are in its MCUs.
LEMMA RowHolds ==
  ASSUME InAScan, input_iMCU_row \in 0 .. total_iMCU_rows - 1, NEW i \in DOMAIN Comps,
         NEW y \in 0 .. image.v[Comps[i]] - 1, NEW col \in Nat,
         Real(Comps[i], input_iMCU_row * image.v[Comps[i]] + y, col)
  PROVE  LET m == MCUNumber(Comps[i], input_iMCU_row * image.v[Comps[i]] + y, col)
         IN m \in Nat /\ FirstMCU <= m /\ m < FirstMCU + MCUsInRow
<1> DEFINE c == Comps[i]
           v == image.v[c]
           first == input_iMCU_row * v
           row == first + y
           b == BlockOf(i, row - first, col)
           m == MCUNumber(c, row, col)
           W == MCUs_per_row
           H == MCU_rows_per_iMCU_row
           mh == MCU_height(c)
<1>1. c \in Component /\ mh \in 1 .. 4 /\ v \in 1 .. 4 /\ RowsPerIMCU * mh = v
  <2>1. c \in Component /\ mh \in 1 .. 4 /\ RowsPerIMCU * mh = v
    BY MCUGeometry
  <2> QED BY <2>1, ImageTypes DEF InAScan
<1>2. first \in Int /\ y \in Nat /\ input_iMCU_row \in Nat
  BY <1>1
<1>3. row \in Nat /\ row - first = y
  <2>1. row \in Nat
    BY <1>1, UsefulRows DEF InAScan
  <2> HIDE DEF first
  <2> QED BY <1>2, <2>1
<1>4. /\ W \in Nat \ {0} /\ H \in Nat \ {0} /\ FirstMCU \in Nat /\ RowsPerIMCU \in 1 .. 4
  <2>1. /\ W \in Nat \ {0} /\ RowsPerIMCU \in 1 .. 4 /\ H \in 1 .. RowsPerIMCU
    BY ScanGeometry, RowsOfIMCU
  <2>2. FirstMCU \in Nat
    BY <1>2, <2>1 DEF FirstMCU
  <2> QED BY <2>1, <2>2
<1>5. /\ b.x \in Nat /\ b.x < W /\ b.y \in Int /\ b.y >= 0
      /\ m \in Nat /\ m = FirstMCU + (b.y * W + b.x)
      /\ b.y = y \div mh
  <2>1. col \div MCU_width(c) < W
    BY <1>3, RealInScan
  <2>2. b.y = y \div mh
    BY <1>3 DEF BlockOf
  <2>3. /\ b.x \in Nat /\ b.x = col \div MCU_width(c) /\ b.y \in Int
        /\ m \in Nat /\ m = FirstMCU + (b.y * W + b.x)
        /\ b.y >= 0 <=> row >= first
    <3> HIDE DEF row
    <3> QED BY <1>2, <1>3, BlockOfIs
  <2>4. row >= first
    <3> HIDE DEF first
    <3> QED BY <1>2
  <2> QED BY <2>1, <2>2, <2>3, <2>4
<1>6. b.y < H
  <2>1. CASE Interleaved
    <3>1. mh = v
      BY <2>1, MCUGeometry
    <3>2. y < 1 * mh /\ mh \in Nat \ {0}
      BY <1>1, <3>1
    <3>3. y \div mh < 1
      <4> HIDE DEF mh
      <4> QED BY <1>2, <3>2, DivBelow, 1 \in Nat
    <3> HIDE DEF b, mh, H
    <3> QED BY <1>4, <1>5, <3>3
  <2>2. CASE ~Interleaved
    <3>1. mh = 1 /\ i = 1
      BY <2>2, MCUGeometry
    <3>2. y \div 1 = y
      BY <1>2
    <3>3. H = IF input_iMCU_row < total_iMCU_rows - 1 THEN v ELSE last_row_height(c)
      BY <2>2, <3>1 DEF MCU_rows_per_iMCU_row
    <3>4. input_iMCU_row < total_iMCU_rows - 1 \/ y < last_row_height(c)
      BY <1>1, UsefulRows DEF InAScan, Real, last_row_height
    <3>5. y < H
      BY <1>1, <3>3, <3>4
    <3> QED BY <1>5, <3>1, <3>2, <3>5
  <2> QED BY <2>1, <2>2
<1>7. MCUsInRow = H * W
  BY DEF MCUsInRow
<1> DEFINE q == b.y
           x == b.x
<1>8. q \in Nat /\ x \in Nat /\ x < W /\ q < H /\ m \in Nat /\ m = FirstMCU + (q * W + x)
  BY <1>5, <1>6
<1> HIDE DEF b, m, W, H, q, x
<1>9. /\ (q + 1) * W <= H * W /\ (q + 1) * W = q * W + W /\ q * W \in Nat
      /\ H * W \in Int
  <2>1. q + 1 \in Int /\ q + 1 <= H /\ H \in Int /\ W \in Nat \ {0}
    BY <1>4, <1>8
  <2>2. (q + 1) * W <= H * W
    BY <2>1, ProductOrder
  <2>3. (q + 1) * W = q * W + W /\ q * W \in Nat /\ H * W \in Int
    BY <2>1, <1>8
  <2> QED BY <2>2, <2>3
<1>10. FirstMCU <= m /\ m < FirstMCU + MCUsInRow
  BY <1>4, <1>7, <1>8, <1>9
<1> QED BY <1>8, <1>10 DEF m, row, first, v, c

\* At the beginning of an iMCU row nothing of it has been emitted.
LEMMA NothingYet ==
  Place /\ error = "none" /\ consume_input = "data" /\ decompress_data = "onepass"
    /\ MCU_vert_offset = 0 /\ MCU_ctr = 0 =>
      \A d \in image.needed : RowUpTo(d, Reached) = {}
<1> SUFFICES ASSUME Place, error = "none", consume_input = "data", decompress_data = "onepass",
                    MCU_vert_offset = 0, MCU_ctr = 0, NEW c \in image.needed, NEW p \in RowUpTo(c, Reached)
             PROVE  FALSE
  BY Zenon
<1>1. /\ InAScan /\ input_iMCU_row \in 0 .. total_iMCU_rows - 1 /\ FirstMCU \in Nat
      /\ Reached = FirstMCU + Resume
  BY ReachedIs DEF Place
<1>2. InScan(c, input_scan_number)
  <2>1. input_scan_number = 1 /\ ~has_multiple_scans
    BY DEF Place, Counters, InputPlace, OutputPlace, FullBuffer
  <2>2. c \in Component
    BY <1>1, ImageTypes DEF InAScan
  <2> QED BY <1>1, <2>1, <2>2, AllInScan DEF InAScan
<1>3. PICK i \in DOMAIN Comps : Comps[i] = c
  BY <1>2 DEF InScan, Comps
<1>4. output_iMCU_row = input_iMCU_row
  BY DEF Place, OutputPlace
<1> DEFINE w == width_in_blocks(c)
<1>5. /\ p[1] \in 0 .. image.v[c] - 1 /\ p[2] \in 0 .. w - 1
      /\ Real(c, input_iMCU_row * image.v[c] + p[1], p[2])
      /\ MCUNumber(c, input_iMCU_row * image.v[c] + p[1], p[2]) < Reached
  BY <1>4 DEF RowUpTo
<1>6. p[2] \in Nat
  <2>1. w \in Nat
    BY <1>1, <1>3, MCUGeometry, Geometry DEF InAScan
  <2> HIDE DEF w
  <2> QED BY <1>5, <2>1
<1> DEFINE m == MCUNumber(c, input_iMCU_row * image.v[c] + p[1], p[2])
<1>7. m \in Nat /\ FirstMCU <= m
  BY <1>1, <1>3, <1>5, <1>6, RowHolds
<1>8. Resume = 0
  <2>1. \A e \in Int : 0 * e + 0 = 0
    OBVIOUS
  <2>2. MCUs_per_row \in Int
    BY <1>1, ScanGeometry
  <2>3. Resume = 0 * MCUs_per_row + 0
    BY DEF Resume
  <2> QED BY <2>1, <2>2, <2>3, Zenon
<1>9. m < Reached
  BY <1>5
<1> HIDE DEF m
<1> QED BY <1>1, <1>7, <1>8, <1>9

EmitsUpTo(stop) ==
  output_buf' =
    [d \in Component |->
       IF d \notin image.needed THEN <<>>
       ELSE LET i == CHOOSE j \in DOMAIN Comps : Comps[j] = d
                new == EmittedInCall(i, stop)
            IN [p \in new \cup DOMAIN Emitting(d) |->
                  IF p \in new
                    THEN LET b == BlockOf(i, p[1], p[2])
                         IN Delivered(b.y, b.x, b.blkn)
                    ELSE Emitting(d)[p]]]

\* After a call to decompress_onepass: the blocks of a component.
LEMMA OnepassBlocks ==
  ASSUME Place, EmittedSoFar, DecompressOnepass, NEW stop \in Resume .. MCUsInRow,
         EmitsUpTo(stop),
         NEW c \in image.needed
  PROVE  /\ DOMAIN output_buf'[c] = RowUpTo(c, FirstMCU + stop)
         /\ NumbersRight(c, output_iMCU_row * image.v[c], output_buf'[c])
         /\ stop = MCUsInRow =>
              DOMAIN output_buf'[c] =
                {p \in (0 .. image.v[c] - 1) \X (0 .. width_in_blocks(c) - 1) :
                   Real(c, output_iMCU_row * image.v[c] + p[1], p[2])}
<1> DEFINE first == output_iMCU_row * image.v[c]
           old == Emitting(c)
           box == (0 .. image.v[c] - 1) \X (0 .. width_in_blocks(c) - 1)
<1>1. /\ error = "none" /\ consume_input = "data" /\ decompress_data = "onepass"
  BY DEF DecompressOnepass
<1>2. /\ InAScan /\ input_iMCU_row \in 0 .. total_iMCU_rows - 1 /\ FirstMCU \in Nat
      /\ Reached = FirstMCU + Resume /\ Resume \in Nat /\ MCUsInRow \in Nat
      /\ image \in Images
  BY <1>1, ReachedIs DEF Place, Counters
<1>3. /\ output_iMCU_row = input_iMCU_row /\ ~has_multiple_scans /\ input_scan_number = 1
  BY <1>1 DEF Place, Counters, InputPlace, OutputPlace, FullBuffer
<1>4. c \in Component
  BY <1>2, ImageTypes
<1>5. PICK i \in DOMAIN Comps : Comps[i] = c
  BY <1>2, <1>3, <1>4, AllInScan DEF InScan, Comps
<1> DEFINE new == EmittedInCall(i, stop)
<1>6. (CHOOSE j \in DOMAIN Comps : Comps[j] = c) = i
  BY <1>2, <1>5, IndexIs
<1>7. output_buf'[c] =
        [p \in new \cup DOMAIN old |->
           IF p \in new
             THEN Delivered(BlockOf(i, p[1], p[2]).y, BlockOf(i, p[1], p[2]).x,
                            BlockOf(i, p[1], p[2]).blkn)
             ELSE old[p]]
  <2> DEFINE k == CHOOSE j \in DOMAIN Comps : Comps[j] = c
  <2>1. output_buf'[c] =
          [p \in EmittedInCall(k, stop) \cup DOMAIN old |->
             IF p \in EmittedInCall(k, stop)
               THEN Delivered(BlockOf(k, p[1], p[2]).y, BlockOf(k, p[1], p[2]).x,
                              BlockOf(k, p[1], p[2]).blkn)
               ELSE old[p]]
    BY <1>4 DEF EmitsUpTo
  <2>2. k = i
    BY <1>6
  <2> HIDE DEF k, old
  <2> QED BY <2>1, <2>2
<1>8. stop \in Nat /\ Reached <= FirstMCU + stop /\ Reached \in Nat
  BY <1>2
<1>9. DOMAIN old = RowUpTo(c, Reached) /\ NumbersRight(c, first, old)
  BY <1>1 DEF EmittedSoFar
<1>10. ASSUME NEW p
       PROVE  p \in new <=> /\ p \in box /\ Real(c, first + p[1], p[2])
                            /\ Reached <= MCUNumber(c, first + p[1], p[2])
                            /\ MCUNumber(c, first + p[1], p[2]) < FirstMCU + stop
  BY <1>1, <1>3, <1>5, <1>8, EmittedInCallIs
<1>11. ASSUME NEW p \in box, Real(c, first + p[1], p[2])
       PROVE  LET m == MCUNumber(c, first + p[1], p[2])
              IN /\ p[1] \in Nat /\ p[2] \in Nat /\ first + p[1] \in Nat
                 /\ m \in Nat /\ m < FirstMCU + MCUsInRow
  <2> DEFINE w == width_in_blocks(c)
             v == image.v[c]
  <2>1. w \in Nat /\ v \in 1 .. 4
    BY <1>2, <1>4, Geometry, ImageTypes
  <2>2. p[1] \in 0 .. v - 1 /\ p[2] \in 0 .. w - 1
    OBVIOUS
  <2>3. p[1] \in Nat /\ p[2] \in Nat
    <3> HIDE DEF w, v
    <3> QED BY <2>1, <2>2
  <2>4. first + p[1] \in Nat
    BY <1>2, <1>3, <1>4, <2>2, UsefulRows
  <2> DEFINE m == MCUNumber(c, first + p[1], p[2])
  <2>5. m \in Nat /\ m < FirstMCU + MCUsInRow
    BY <1>2, <1>3, <1>5, <1>11, <2>2, <2>3, RowHolds
  <2> QED BY <2>3, <2>4, <2>5
<1>12. DOMAIN output_buf'[c] = new \cup DOMAIN old
  BY <1>7
<1>13. ASSUME NEW p
       PROVE  p \in DOMAIN output_buf'[c] <=>
                /\ p \in box /\ Real(c, first + p[1], p[2])
                /\ MCUNumber(c, first + p[1], p[2]) < FirstMCU + stop
  <2> DEFINE m == MCUNumber(c, first + p[1], p[2])
             real == p \in box /\ Real(c, first + p[1], p[2])
  <2>1. p \in DOMAIN old <=> real /\ m < Reached
    BY <1>9 DEF RowUpTo
  <2>2. p \in new <=> real /\ Reached <= m /\ m < FirstMCU + stop
    BY <1>10
  <2>3. real => m \in Nat
    BY <1>11
  <2>4. FirstMCU + stop \in Nat
    BY <1>2, <1>8
  <2> HIDE DEF new, old, m, real
  <2>5. p \in DOMAIN output_buf'[c] <=> real /\ m < FirstMCU + stop
    BY <1>8, <1>12, <2>1, <2>2, <2>3, <2>4
  <2> QED BY <2>5 DEF m, real
<1>14. DOMAIN output_buf'[c] = RowUpTo(c, FirstMCU + stop)
  <2>1. ASSUME NEW p PROVE p \in DOMAIN output_buf'[c] <=> p \in RowUpTo(c, FirstMCU + stop)
    BY <1>13 DEF RowUpTo
  <2> QED BY <2>1
<1>15. stop = MCUsInRow =>
         DOMAIN output_buf'[c] = {p \in box : Real(c, first + p[1], p[2])}
  <2> SUFFICES ASSUME stop = MCUsInRow
               PROVE  DOMAIN output_buf'[c] = {p \in box : Real(c, first + p[1], p[2])}
    OBVIOUS
  <2>1. ASSUME NEW p
        PROVE  p \in DOMAIN output_buf'[c] <=> p \in {q \in box : Real(c, first + q[1], q[2])}
    BY <1>11, <1>13
  <2> QED BY <2>1
<1>16. NumbersRight(c, first, output_buf'[c])
  <2> SUFFICES ASSUME NEW p \in DOMAIN output_buf'[c], output_buf'[c][p].scan # 0
               PROVE  output_buf'[c][p].num = StreamOrder(output_buf'[c][p].scan, c, first + p[1], p[2])
    BY DEF NumbersRight
  <2>1. p \in box /\ Real(c, first + p[1], p[2])
    BY <1>13
  <2>2. p[1] \in Nat /\ p[2] \in Nat /\ first + p[1] \in Nat
    BY <1>11, <2>1
  <2>3. CASE p \in new
    <3> DEFINE y == p[1]
               x == p[2]
               row == first + y
               b == BlockOf(i, row - first, x)
    <3>1. y \in Nat /\ x \in Nat /\ row \in Nat
      BY <2>2
    <3>2. first \in Int
      <4>1. image.v[c] \in 1 .. 4 /\ output_iMCU_row \in 0 .. total_iMCU_rows - 1
            /\ total_iMCU_rows \in Nat
        BY <1>2, <1>3, <1>4, ImageTypes, Geometry
      <4>2. image.v[c] \in Int /\ output_iMCU_row \in Int
        BY <4>1
      <4> QED BY <4>2
    <3>3. output_buf'[c][p] =
            Delivered(BlockOf(i, y, x).y, BlockOf(i, y, x).x, BlockOf(i, y, x).blkn)
      <4> HIDE DEF new, old
      <4> QED BY <1>7, <1>12, <2>3, Zenon
    <3>4. first = input_iMCU_row * image.v[Comps[i]]
      BY <1>3, <1>5
    <3> HIDE DEF y, x, row, first
    <3>5. Delivered(b.y, b.x, b.blkn) =
            [scan |-> input_scan_number, num |-> StreamOrder(input_scan_number, c, row, x)]
      BY <1>1, <1>5, <3>1, <3>4, CallOfBlock
    <3>6. row - first = y
      BY <3>1, <3>2 DEF row
    <3>7. output_buf'[c][p] =
            [scan |-> input_scan_number, num |-> StreamOrder(input_scan_number, c, row, x)]
      BY <3>3, <3>5, <3>6, Zenon
    <3> DEFINE got == output_buf'[c][p]
    <3>8. got.scan = input_scan_number /\ got.num = StreamOrder(input_scan_number, c, row, x)
      BY <3>7
    <3> HIDE DEF got
    <3>9. got.num = StreamOrder(got.scan, c, row, x)
      BY <3>8, Zenon
    <3> QED BY <3>9 DEF got, row, x, y
  <2>4. CASE p \notin new
    <3>1. p \in DOMAIN old
      BY <1>12, <2>4
    <3>2. output_buf'[c][p] = old[p]
      <4> HIDE DEF new, old
      <4> QED BY <1>7, <1>12, <2>4
    <3> HIDE DEF old
    <3> QED BY <1>9, <3>1, <3>2 DEF NumbersRight
  <2> QED BY <2>3, <2>4
<1> QED BY <1>14, <1>15, <1>16

\* The block that is shown at a place of the iMCU row.
Shown(c, p) == Block(output_buf[c][p])

\* An iMCU row that a step completes.
LEMMA RowCompleted ==
  ASSUME image' = image, output_iMCU_row \in Int, output_iMCU_row' = output_iMCU_row + 1,
         \A c \in image.needed :
           /\ DOMAIN output_buf'[c] =
                {p \in (0 .. image.v[c] - 1) \X (0 .. width_in_blocks(c) - 1) :
                   Real(c, output_iMCU_row * image.v[c] + p[1], p[2])}
           /\ \A p \in DOMAIN output_buf'[c] :
                Shown(c, p)'.scan # 0 =>
                  Shown(c, p)'.num = StreamOrder(Shown(c, p)'.scan, c, output_iMCU_row * image.v[c] + p[1], p[2])
  PROVE  OutputRight'
<1>1. ASSUME NEW c \in image'.needed
      PROVE  /\ DOMAIN output_buf'[c] =
                  {p \in (0 .. image'.v[c] - 1) \X (0 .. width_in_blocks(c)' - 1) :
                     Real(c, (output_iMCU_row - 1) * image.v[c] + p[1], p[2])'}
             /\ \A p \in DOMAIN output_buf'[c] :
                  Shown(c, p)'.scan # 0 =>
                    Shown(c, p)'.num =
                      StreamOrder(Shown(c, p).scan, c, (output_iMCU_row - 1) * image.v[c] + p[1], p[2])'
  <2> DEFINE first == output_iMCU_row * image.v[c]
  <2>1. output_iMCU_row' - 1 = output_iMCU_row
    OBVIOUS
  <2>2. (output_iMCU_row' - 1) * image'.v[c] = first
    BY <2>1
  <2>3. ASSUME NEW p
        PROVE  Real(c, (output_iMCU_row - 1) * image.v[c] + p[1], p[2])' <=> Real(c, first + p[1], p[2])
    <3>1. Real(c, (output_iMCU_row - 1) * image.v[c] + p[1], p[2])'
            <=> Real(c, (output_iMCU_row' - 1) * image'.v[c] + p[1], p[2])
      BY ImageKept DEF Real
    <3> QED BY <2>2, <3>1, Zenon
  <2>4. ASSUME NEW p
        PROVE  StreamOrder(Shown(c, p).scan, c, (output_iMCU_row - 1) * image.v[c] + p[1], p[2])'
                 = StreamOrder(Shown(c, p)'.scan, c, first + p[1], p[2])
    <3> DEFINE k == Shown(c, p).scan
               row == (output_iMCU_row - 1) * image.v[c] + p[1]
               col == p[2]
    <3>1. row' = first + p[1] /\ col' = p[2] /\ k' = Shown(c, p)'.scan
      BY <2>2
    <3>2. StreamOrder(k, c, row, col)' = StreamOrder(k', c, row', col')
      BY StreamOrderKept
    <3> QED BY <3>1, <3>2
  <2>5. width_in_blocks(c)' = width_in_blocks(c)
    BY ImageKept
  <2> QED BY <2>3, <2>4, <2>5
<1> QED BY <1>1 DEF OutputRight, Shown

LEMMA OnepassEmitted ==
  ASSUME Place, EmittedSoFar, DecompressOnepass
  PROVE  OutputRight' /\ EmittedSoFar'
<1>1. /\ error = "none" /\ consume_input = "data" /\ decompress_data = "onepass"
      /\ image' = image /\ decompress_data' = "onepass" /\ error' = "none"
  BY DEF DecompressOnepass
<1>2. PICK stop \in Resume .. MCUsInRow :
        /\ DecodeUntil(stop)
        /\ EmitsUpTo(stop)
        /\ emitted' = (stop = MCUsInRow)
        /\ output_iMCU_row' = IF stop = MCUsInRow THEN output_iMCU_row + 1 ELSE output_iMCU_row
  BY DEF DecompressOnepass, EmitsUpTo
<1>3. /\ InAScan /\ image \in Images /\ MCUsInRow \in Nat /\ Resume \in Nat
      /\ output_iMCU_row = input_iMCU_row /\ input_iMCU_row \in 0 .. total_iMCU_rows - 1
  BY <1>1, ReachedIs DEF Place, Counters, OutputPlace
<1>4. /\ input_scan_number' = input_scan_number
      /\ Reached' = FirstMCU + stop
      /\ stop = MCUsInRow => MCU_vert_offset' = 0 /\ MCU_ctr' = 0
  BY <1>1, <1>2, DecodeStep DEF Place
<1>5. ASSUME NEW c \in image.needed
      PROVE  /\ DOMAIN output_buf'[c] = RowUpTo(c, FirstMCU + stop)
             /\ NumbersRight(c, output_iMCU_row * image.v[c], output_buf'[c])
             /\ stop = MCUsInRow =>
                  DOMAIN output_buf'[c] =
                    {p \in (0 .. image.v[c] - 1) \X (0 .. width_in_blocks(c) - 1) :
                       Real(c, output_iMCU_row * image.v[c] + p[1], p[2])}
  BY <1>2, OnepassBlocks
<1>6. CASE stop = MCUsInRow
  <2>1. OutputRight'
    <3>1. output_iMCU_row \in Int /\ output_iMCU_row' = output_iMCU_row + 1
      BY <1>2, <1>3, <1>6
    <3>2. ASSUME NEW c \in image.needed, NEW p \in DOMAIN output_buf'[c]
          PROVE  Shown(c, p)'.scan # 0 =>
                   Shown(c, p)'.num =
                     StreamOrder(Shown(c, p)'.scan, c, output_iMCU_row * image.v[c] + p[1], p[2])
      <4>1. Shown(c, p)' = output_buf'[c][p]
        BY <1>1 DEF Shown, Block
      <4> QED BY <1>5, <4>1 DEF NumbersRight
    <3> QED BY <1>1, <1>5, <1>6, <3>1, <3>2, RowCompleted
  <2>2. EmittedSoFar'
    <3> SUFFICES ASSUME consume_input' = "data", NEW c \in image'.needed
                 PROVE  /\ DOMAIN Emitting(c)' = RowUpTo(c, Reached)'
                        /\ NumbersRight(c, output_iMCU_row * image.v[c], Emitting(c))'
      BY DEF EmittedSoFar
    <3>1. Emitting(c)' = <<>>
      BY <1>2, <1>6 DEF Emitting
    <3>2. Place'
      BY DecompressOnepassPlace
    <3>3. (Place /\ error = "none" /\ consume_input = "data" /\ decompress_data = "onepass"
             /\ MCU_vert_offset = 0 /\ MCU_ctr = 0 =>
               \A d \in image.needed : RowUpTo(d, Reached) = {})'
      BY NothingYet, PTL
    <3>4. RowUpTo(c, Reached)' = {}
      BY <1>1, <1>4, <1>6, <3>2, <3>3
    <3>5. DOMAIN <<>> = {}
      OBVIOUS
    <3> QED BY <3>1, <3>4, <3>5 DEF NumbersRight
  <2> QED BY <2>1, <2>2
<1>7. CASE stop # MCUsInRow
  <2>1. emitted' = FALSE /\ output_iMCU_row' = output_iMCU_row
    BY <1>2, <1>7
  <2>2. OutputRight'
    BY <2>1 DEF OutputRight
  <2>3. EmittedSoFar'
    <3> SUFFICES ASSUME NEW c \in image'.needed
                 PROVE  /\ DOMAIN Emitting(c)' = RowUpTo(c, Reached)'
                        /\ NumbersRight(c, output_iMCU_row * image.v[c], Emitting(c))'
      BY DEF EmittedSoFar
    <3>1. Emitting(c)' = output_buf'[c]
      BY <2>1 DEF Emitting
    <3>2. RowUpTo(c, Reached)' = RowUpTo(c, FirstMCU + stop)
      <4>1. \A row, col : Real(c, row, col)' <=> Real(c, row, col)
        BY <1>1, StreamOrderKept
      <4>2. \A row, col : MCUNumber(c, row, col)' = MCUNumber(c, row, col)
        BY <1>1, <1>3, <1>4, ScanKept DEF MCUNumber
      <4>3. width_in_blocks(c)' = width_in_blocks(c)
        BY <1>1, ImageKept
      <4> QED BY <1>1, <1>4, <2>1, <4>1, <4>2, <4>3 DEF RowUpTo
    <3>3. NumbersRight(c, output_iMCU_row * image.v[c], Emitting(c))'
      <4>1. NumbersRight(c, output_iMCU_row * image.v[c], output_buf'[c])
        BY <1>1, <1>5
      <4>2. \A k, row, col : StreamOrder(k, c, row, col)' = StreamOrder(k, c, row, col)
        BY <1>1, StreamOrderKept
      <4> QED BY <1>1, <2>1, <3>1, <4>1, <4>2 DEF NumbersRight
    <3> QED BY <1>1, <1>5, <3>1, <3>2, <3>3
  <2> QED BY <2>2, <2>3
<1> QED BY <1>6, <1>7

\* From the arrays, a whole iMCU row is emitted at once.
LEMMA WholeRow ==
  ASSUME image \in Images, NEW c \in Component, output_iMCU_row \in 0 .. total_iMCU_rows - 1
  PROVE  \A p : p \in (0 .. BlockRows(c) - 1) \X (0 .. width_in_blocks(c) - 1) <=>
           /\ p \in (0 .. image.v[c] - 1) \X (0 .. width_in_blocks(c) - 1)
           /\ Real(c, output_iMCU_row * image.v[c] + p[1], p[2])
<1> DEFINE v == image.v[c]
           w == width_in_blocks(c)
           l == LastOf(height_in_blocks(c), v)
           n == BlockRows(c)
<1>1. /\ v \in 1 .. 4 /\ w \in Nat /\ l \in 1 .. v
      /\ total_iMCU_rows \in Nat
  BY ImageTypes, Geometry
<1>2. n = IF output_iMCU_row < total_iMCU_rows - 1 THEN v ELSE l
  BY DEF BlockRows
<1>3. ASSUME NEW y \in 0 .. v - 1, NEW x \in 0 .. w - 1
      PROVE  y < n <=> Real(c, output_iMCU_row * v + y, x)
  <2>1. output_iMCU_row < total_iMCU_rows - 1 \/ y < l
          <=> output_iMCU_row * v + y < height_in_blocks(c)
    BY UsefulRows
  <2>2. x < w
    <3> HIDE DEF w
    <3> QED BY <1>1
  <2>3. Real(c, output_iMCU_row * v + y, x) <=> output_iMCU_row < total_iMCU_rows - 1 \/ y < l
    BY <2>1, <2>2 DEF Real
  <2> HIDE DEF v, n, l
  <2> QED BY <1>1, <1>2, <2>3
<1> HIDE DEF v, w, l, n
<1>4. 0 .. n - 1 \subseteq 0 .. v - 1 /\ n \in Nat
  BY <1>1, <1>2
<1>5. \A y \in 0 .. v - 1 : y \in 0 .. n - 1 <=> y < n
  BY <1>1, <1>4
<1>6. ASSUME NEW p
      PROVE  p \in (0 .. n - 1) \X (0 .. w - 1) <=>
               /\ p \in (0 .. v - 1) \X (0 .. w - 1)
               /\ Real(c, output_iMCU_row * v + p[1], p[2])
  BY <1>3, <1>4, <1>5
<1> QED BY <1>6 DEF n, v, w

\* A real block of the iMCU row is a block of the array, in its place.
LEMMA StoredInRow ==
  ASSUME Place, Stored, NEW c \in Component, output_iMCU_row \in 0 .. total_iMCU_rows - 1,
         NEW p \in (0 .. BlockRows(c) - 1) \X (0 .. width_in_blocks(c) - 1)
  PROVE  /\ p[1] \in 0 .. image.v[c] - 1 /\ p[2] \in 0 .. width_in_blocks(c) - 1
         /\ Real(c, output_iMCU_row * image.v[c] + p[1], p[2])
         /\ StoredBlock(c, output_iMCU_row * image.v[c] + p[1], p[2])
<1> DEFINE v == image.v[c]
           w == width_in_blocks(c)
           row == output_iMCU_row * v + p[1]
           col == p[2]
           H == ArrayRows(c)
           W == ArrayCols(c)
<1>1. image \in Images
  BY DEF Place, Counters
<1>2. /\ p \in (0 .. v - 1) \X (0 .. w - 1)
      /\ Real(c, row, col)
  BY <1>1, WholeRow
<1>3. p[1] \in 0 .. v - 1 /\ col \in 0 .. w - 1
  BY <1>2
<1>4. row \in Nat /\ row < H
  BY <1>1, <1>3, UsefulRows
<1>5. w \in Nat /\ w <= W /\ W \in Nat /\ H \in Nat
  BY <1>1, PlacesAreNat, Geometry
<1>6. row \in 0 .. H - 1 /\ col \in 0 .. W - 1
  <2> HIDE DEF row, H, W, w
  <2> QED BY <1>3, <1>4, <1>5
<1>7. StoredBlock(c, row, col)
  BY <1>6 DEF Stored
<1> QED BY <1>2, <1>3, <1>7

\* decompress_data
LEMMA DecompressDataRight ==
  ASSUME Place, Stored, DecompressData
  PROVE  OutputRight'
<1>1. /\ output_iMCU_row \in 0 .. total_iMCU_rows - 1
      /\ output_iMCU_row' = output_iMCU_row + 1
      /\ output_buf' =
           [c \in Component |->
              IF c \notin image.needed THEN <<>>
              ELSE [p \in (0 .. BlockRows(c) - 1) \X (0 .. width_in_blocks(c) - 1) |->
                      coef_arrays[c][output_iMCU_row * image.v[c] + p[1]][p[2]]]]
  BY DecompressDataPlace
<1>2. decompress_data' = "data" /\ image' = image
  BY DEF DecompressData
<1>3. image \in Images /\ image.needed \subseteq Component /\ total_iMCU_rows \in Nat
  BY ImageTypes, Geometry DEF Place, Counters
<1>4. ASSUME NEW c \in image.needed
      PROVE  /\ DOMAIN output_buf'[c] =
                  {p \in (0 .. image.v[c] - 1) \X (0 .. width_in_blocks(c) - 1) :
                     Real(c, output_iMCU_row * image.v[c] + p[1], p[2])}
             /\ \A p \in DOMAIN output_buf'[c] :
                  Shown(c, p)'.scan # 0 =>
                    Shown(c, p)'.num =
                      StreamOrder(Shown(c, p)'.scan, c, output_iMCU_row * image.v[c] + p[1], p[2])
  <2> DEFINE box == (0 .. BlockRows(c) - 1) \X (0 .. width_in_blocks(c) - 1)
  <2>1. output_buf'[c] =
          [p \in box |-> coef_arrays[c][output_iMCU_row * image.v[c] + p[1]][p[2]]]
    BY <1>1, <1>3
  <2>2. \A p : p \in box <=>
           /\ p \in (0 .. image.v[c] - 1) \X (0 .. width_in_blocks(c) - 1)
           /\ Real(c, output_iMCU_row * image.v[c] + p[1], p[2])
    BY <1>1, <1>3, WholeRow
  <2>3. DOMAIN output_buf'[c] = box
    BY <2>1
  <2>4. ASSUME NEW p \in box, Shown(c, p)'.scan # 0
        PROVE  Shown(c, p)'.num =
                 StreamOrder(Shown(c, p)'.scan, c, output_iMCU_row * image.v[c] + p[1], p[2])
    <3> DEFINE row == output_iMCU_row * image.v[c] + p[1]
    <3>1. StoredBlock(c, row, p[2])
      BY <1>1, <1>3, StoredInRow
    <3>2. Shown(c, p)' = coef_arrays[c][row][p[2]]
      BY <1>2, <2>1 DEF Shown, Block
    <3> HIDE DEF row
    <3>3. Shown(c, p)'.num = StreamOrder(Shown(c, p)'.scan, c, row, p[2])
      BY <2>4, <3>1, <3>2 DEF StoredBlock, InPlace
    <3> QED BY <3>3 DEF row
  <2> HIDE DEF box
  <2>5. DOMAIN output_buf'[c] =
          {p \in (0 .. image.v[c] - 1) \X (0 .. width_in_blocks(c) - 1) :
             Real(c, output_iMCU_row * image.v[c] + p[1], p[2])}
    BY <2>2, <2>3
  <2> QED BY <2>3, <2>4, <2>5
<1>5. output_iMCU_row \in Int
  BY <1>1, <1>3
<1> QED BY <1>1, <1>2, <1>4, <1>5, RowCompleted

\* The block itself, among what smoothing emits for it.
LEMMA SmoothedBlock ==
  ASSUME image \in Images, NEW c \in Component, output_iMCU_row \in 0 .. total_iMCU_rows - 1,
         NEW y, NEW x
  PROVE  Smoothed(c, y, x).block = coef_arrays[c][output_iMCU_row * image.v[c] + y][x]
<1> DEFINE v == image.v[c]
           r == output_iMCU_row
           start == IF r > 0 THEN (r - 1) * v ELSE 0
           current == IF r > 0 THEN start + v ELSE start
<1>1. v \in Int /\ r \in Nat
  <2>1. v \in 1 .. 4 /\ total_iMCU_rows \in Nat
    BY ImageTypes, Geometry
  <2> QED BY <2>1
<1>2. Smoothed(c, y, x).block = coef_arrays[c][current + y][x]
  BY DEF Smoothed
<1>3. current = r * v
  <2> HIDE DEF v, r
  <2>1. CASE r > 0
    <3>1. (r - 1) * v + v = r * v
      BY <1>1
    <3> QED BY <2>1, <3>1
  <2>2. CASE ~(r > 0)
    <3>1. r = 0
      BY <1>1, <2>2
    <3>2. 0 * v = 0
      BY <1>1
    <3> QED BY <2>2, <3>1, <3>2
  <2> QED BY <2>1, <2>2
<1> HIDE DEF current
<1> QED BY <1>2, <1>3

\* decompress_smooth_data
LEMMA DecompressSmoothDataRight ==
  ASSUME Place, Stored, DecompressSmoothData
  PROVE  OutputRight'
<1>1. /\ output_iMCU_row \in 0 .. total_iMCU_rows - 1
      /\ output_iMCU_row' = output_iMCU_row + 1
      /\ output_buf' =
           [c \in Component |->
              IF c \notin image.needed THEN <<>>
              ELSE [p \in (0 .. BlockRows(c) - 1) \X (0 .. width_in_blocks(c) - 1) |->
                      Smoothed(c, p[1], p[2])]]
  BY DecompressSmoothDataPlace
<1>2. decompress_data' = "smooth" /\ image' = image
  BY DEF DecompressSmoothData
<1>3. image \in Images /\ image.needed \subseteq Component /\ total_iMCU_rows \in Nat
  BY ImageTypes, Geometry DEF Place, Counters
<1>4. ASSUME NEW c \in image.needed
      PROVE  /\ DOMAIN output_buf'[c] =
                  {p \in (0 .. image.v[c] - 1) \X (0 .. width_in_blocks(c) - 1) :
                     Real(c, output_iMCU_row * image.v[c] + p[1], p[2])}
             /\ \A p \in DOMAIN output_buf'[c] :
                  Shown(c, p)'.scan # 0 =>
                    Shown(c, p)'.num =
                      StreamOrder(Shown(c, p)'.scan, c, output_iMCU_row * image.v[c] + p[1], p[2])
  <2> DEFINE box == (0 .. BlockRows(c) - 1) \X (0 .. width_in_blocks(c) - 1)
  <2>1. output_buf'[c] = [p \in box |-> Smoothed(c, p[1], p[2])]
    BY <1>1, <1>3
  <2>2. \A p : p \in box <=>
           /\ p \in (0 .. image.v[c] - 1) \X (0 .. width_in_blocks(c) - 1)
           /\ Real(c, output_iMCU_row * image.v[c] + p[1], p[2])
    BY <1>1, <1>3, WholeRow
  <2>3. DOMAIN output_buf'[c] = box
    BY <2>1
  <2>4. ASSUME NEW p \in box, Shown(c, p)'.scan # 0
        PROVE  Shown(c, p)'.num =
                 StreamOrder(Shown(c, p)'.scan, c, output_iMCU_row * image.v[c] + p[1], p[2])
    <3> DEFINE row == output_iMCU_row * image.v[c] + p[1]
    <3>1. StoredBlock(c, row, p[2])
      BY <1>1, <1>3, StoredInRow
    <3>2. Shown(c, p)' = Smoothed(c, p[1], p[2]).block
      BY <1>2, <2>1 DEF Shown, Block
    <3>3. Smoothed(c, p[1], p[2]).block = coef_arrays[c][row][p[2]]
      BY <1>1, <1>3, SmoothedBlock
    <3> HIDE DEF row
    <3>4. Shown(c, p)'.num = StreamOrder(Shown(c, p)'.scan, c, row, p[2])
      BY <2>4, <3>1, <3>2, <3>3 DEF StoredBlock, InPlace
    <3> QED BY <3>4 DEF row
  <2> HIDE DEF box
  <2>5. DOMAIN output_buf'[c] =
          {p \in (0 .. image.v[c] - 1) \X (0 .. width_in_blocks(c) - 1) :
             Real(c, output_iMCU_row * image.v[c] + p[1], p[2])}
    BY <2>2, <2>3
  <2> QED BY <2>3, <2>4, <2>5
<1>5. output_iMCU_row \in Int
  BY <1>1, <1>3
<1> QED BY <1>1, <1>2, <1>4, <1>5, RowCompleted

\* A step that emits nothing.
LEMMA OutputKept ==
  ASSUME OutputRight, UNCHANGED <<image, output_buf, output_iMCU_row, decompress_data>>,
         emitted' = emitted \/ emitted' = FALSE
  PROVE  OutputRight'
<1>1. \A c, row, col : Real(c, row, col)' <=> Real(c, row, col)
  BY StreamOrderKept
<1>2. \A k, c, row, col : StreamOrder(k, c, row, col)' = StreamOrder(k, c, row, col)
  BY StreamOrderKept
<1>3. \A c : width_in_blocks(c)' = width_in_blocks(c)
  BY ImageKept
<1>4. \A b : Block(b)' = Block(b)
  BY DEF Block
<1> QED BY <1>1, <1>2, <1>3, <1>4 DEF OutputRight

LEMMA NextEmitted ==
  Place /\ Place' /\ Stored /\ OutputRight /\ EmittedSoFar /\ [Next]_vars
    => OutputRight' /\ EmittedSoFar'
<1> SUFFICES ASSUME Place, Place', Stored, OutputRight, EmittedSoFar, [Next]_vars
             PROVE  OutputRight' /\ EmittedSoFar'
  OBVIOUS
<1>1. CASE ConsumeData
  <2>1. decompress_data' = decompress_data /\ emitted' = FALSE /\ FullBuffer
    BY <1>1 DEF ConsumeData
  <2>2. decompress_data # "onepass"
    BY <2>1 DEF Place, OutputPlace
  <2> QED BY <2>1, <2>2 DEF OutputRight, EmittedSoFar
<1>2. CASE DefineTable
  <2>1. /\ UNCHANGED <<image, output_buf, output_iMCU_row, decompress_data, emitted>>
        /\ consume_input' = "markers"
    BY <1>2 DEF DefineTable, inputVars, outputVars
  <2> QED BY <2>1, OutputKept DEF EmittedSoFar
<1>3. CASE StartInputPass
  <2>1. /\ UNCHANGED <<image, output_buf, output_iMCU_row, decompress_data, emitted>>
        /\ consume_input = "markers"
        /\ error' # "none" => consume_input' = consume_input
    BY <1>3 DEF StartInputPass, UnexpectedScan, outputVars
  <2>2. decompress_data' = "onepass" => consume_input' # "data"
    <3> SUFFICES ASSUME decompress_data = "onepass"  PROVE error' # "none"
      BY <2>1
    <3>1. ~has_multiple_scans' /\ input_scan_number \in Nat \ {0}
      <4>1. ~has_multiple_scans /\ input_scan_number \in 0 .. Len(image.scans)
            /\ input_scan_number > 0
        BY DEF Place, Counters, OutputPlace, FullBuffer
      <4> QED BY <2>1, <4>1, ImageKept
    <3>2. input_scan_number' = input_scan_number + 1
      BY <1>3 DEF StartInputPass, UnexpectedScan
    <3> QED BY <3>1, <3>2 DEF Place, InputPlace
  <2> QED BY <2>1, <2>2, OutputKept DEF EmittedSoFar
<1>4. CASE ReachEOI
  <2>1. /\ UNCHANGED <<image, output_buf, output_iMCU_row, decompress_data, emitted>>
        /\ consume_input' = "EOI"
    BY <1>4 DEF ReachEOI
  <2> QED BY <2>1, OutputKept DEF EmittedSoFar
<1>5. ASSUME NEW target \in 1 .. MaxTarget, NEW method, NEW smooth,
             StartOutputPass(target, method, smooth)
      PROVE  OutputRight' /\ EmittedSoFar'
  <2>1. /\ emitted' = FALSE /\ decompress_data = "none"
        /\ UNCHANGED <<image, error, consume_input, input_iMCU_row, MCU_vert_offset, MCU_ctr>>
        /\ output_buf' = [c \in Component |-> <<>>]
        /\ error = "none"
        /\ decompress_data' = "onepass" => ~FullBuffer
    BY <1>5 DEF StartOutputPass, MayStart, inputVars
  <2>2. OutputRight'
    BY <2>1 DEF OutputRight
  <2>3. EmittedSoFar'
    <3> SUFFICES ASSUME decompress_data' = "onepass", consume_input' = "data", NEW c \in image'.needed
                 PROVE  /\ DOMAIN Emitting(c)' = RowUpTo(c, Reached)'
                        /\ NumbersRight(c, output_iMCU_row * image.v[c], Emitting(c))'
      BY DEF EmittedSoFar
    <3>1. c \in Component
      BY <2>1, ImageTypes DEF Place, Counters
    <3>2. Emitting(c)' = <<>>
      BY <2>1, <3>1 DEF Emitting
    <3>3. MCU_vert_offset' = 0 /\ MCU_ctr' = 0 /\ error' = "none"
      BY <2>1 DEF Place, OutputPlace
    <3>4. (Place /\ error = "none" /\ consume_input = "data" /\ decompress_data = "onepass"
             /\ MCU_vert_offset = 0 /\ MCU_ctr = 0 =>
               \A d \in image.needed : RowUpTo(d, Reached) = {})'
      BY NothingYet, PTL
    <3>5. RowUpTo(c, Reached)' = {}
      BY <3>3, <3>4
    <3>6. DOMAIN <<>> = {}
      OBVIOUS
    <3> QED BY <3>2, <3>5, <3>6 DEF NumbersRight
  <2> QED BY <2>2, <2>3
<1>6. CASE FinishOutputPass
  BY <1>6 DEF FinishOutputPass, OutputRight, EmittedSoFar
<1>7. CASE DecompressOnepass
  BY <1>7, OnepassEmitted
<1>8. CASE DecompressData
  <2>1. decompress_data' = "data"
    BY <1>8 DEF DecompressData
  <2> QED BY <1>8, <2>1, DecompressDataRight DEF EmittedSoFar
<1>9. CASE DecompressSmoothData
  <2>1. decompress_data' = "smooth"
    BY <1>9 DEF DecompressSmoothData
  <2> QED BY <1>9, <2>1, DecompressSmoothDataRight DEF EmittedSoFar
<1>10. CASE UNCHANGED vars
  <2>1. UNCHANGED <<image, output_buf, output_iMCU_row, decompress_data, emitted, consume_input,
                    input_scan_number, input_iMCU_row, MCU_vert_offset, MCU_ctr>>
    BY <1>10 DEF vars, inputVars, outputVars
  <2>2. OutputRight'
    BY <2>1, OutputKept
  <2>3. EmittedSoFar'
    <3> SUFFICES ASSUME decompress_data = "onepass", consume_input = "data", NEW c \in image.needed
                 PROVE  /\ DOMAIN Emitting(c)' = RowUpTo(c, Reached)'
                        /\ NumbersRight(c, output_iMCU_row * image.v[c], Emitting(c))'
      BY <2>1 DEF EmittedSoFar
    <3>1. InAScan
      BY ReachedIs DEF Place
    <3>2. Emitting(c)' = Emitting(c)
      BY <2>1 DEF Emitting
    <3>3. /\ \A row, col : /\ Real(c, row, col)' <=> Real(c, row, col)
                           /\ MCUNumber(c, row, col)' = MCUNumber(c, row, col)
          /\ \A k, row, col : StreamOrder(k, c, row, col)' = StreamOrder(k, c, row, col)
          /\ width_in_blocks(c)' = width_in_blocks(c)
      <4>1. \A row, col : MCUNumber(c, row, col)' = MCUNumber(c, row, col)
        BY <2>1, <3>1, ScanKept DEF MCUNumber
      <4> QED BY <2>1, <4>1, StreamOrderKept, ImageKept
    <3>4. Reached' = Reached
      BY <2>1, <3>1, ScanKept DEF Reached
    <3>5. RowUpTo(c, Reached)' = RowUpTo(c, Reached)
      BY <2>1, <3>3, <3>4 DEF RowUpTo
    <3>6. NumbersRight(c, output_iMCU_row * image.v[c], Emitting(c))
      BY DEF EmittedSoFar
    <3>7. NumbersRight(c, output_iMCU_row * image.v[c], Emitting(c))'
      BY <2>1, <3>2, <3>3, <3>6 DEF NumbersRight
    <3> QED BY <3>2, <3>5, <3>7 DEF EmittedSoFar
  <2> QED BY <2>2, <2>3
<1> QED BY <1>1, <1>2, <1>3, <1>4, <1>5, <1>6, <1>7, <1>8, <1>9, <1>10 DEF Next

\* Every iMCU row that is emitted, by whichever of the three routines, has exactly
\* the real blocks of the needed components, each of them in its place, however
\* often the decoder suspended within it.
THEOREM OutputRightTheorem == Spec => []OutputRight
<1>1. Init => OutputRight /\ EmittedSoFar
  BY DEF Init, OutputRight, EmittedSoFar
<1>2. Place /\ Place' /\ Stored /\ OutputRight /\ EmittedSoFar /\ [Next]_vars
        => OutputRight' /\ EmittedSoFar'
  BY NextEmitted
<1> QED BY <1>1, <1>2, PlaceHolds, StoredHolds, PTL DEF Spec

-------------------------------------------------------------------------------
(* Smoothing                                                               *)

\* The block rows a row may need lie behind the input, or the scan is complete:
\* then the block is of scan k or of a later one.
LEMMA BlockBehind ==
  ASSUME Place, Stored, error = "none", FullBuffer, NEW c \in Component,
         NEW k \in 1 .. input_scan_number, InScan(c, k),
         NEW row \in Nat, NEW col \in Nat, Real(c, row, col),
         k = input_scan_number => consume_input # "data" \/ row < input_iMCU_row * image.v[c]
  PROVE  coef_arrays[c][row][col].scan >= k
<1>1. /\ image \in Images /\ input_scan_number \in Nat /\ InAScan
      /\ consume_input \in {"markers", "data", "EOI"}
      /\ input_iMCU_row \in 0 .. total_iMCU_rows
  <2>1. input_scan_number \in 0 .. Len(image.scans) /\ Counters
    BY DEF Place, Counters
  <2>2. input_scan_number > 0
    BY <2>1
  <2> QED BY <2>1, <2>2, InAScanIs DEF Counters
<1>2. StoredBlock(c, row, col)
  <2>1. /\ height_in_blocks(c) <= ArrayRows(c) /\ width_in_blocks(c) <= ArrayCols(c)
        /\ height_in_blocks(c) \in Nat /\ width_in_blocks(c) \in Nat
        /\ ArrayRows(c) \in Nat /\ ArrayCols(c) \in Nat
    BY <1>1, PlacesAreNat, Geometry
  <2>2. row \in 0 .. ArrayRows(c) - 1 /\ col \in 0 .. ArrayCols(c) - 1
    BY <2>1 DEF Real
  <2> QED BY <2>2 DEF Stored
<1>3. CASE k # input_scan_number
  <2>1. k \in 1 .. input_scan_number - 1
    BY <1>1, <1>3
  <2> QED BY <1>2, <2>1 DEF StoredBlock
<1>4. CASE k = input_scan_number
  <2>1. PICK i \in DOMAIN Comps : Comps[i] = c
    BY <1>4 DEF InScan, Comps
  <2> DEFINE m == MCUNumber(c, row, col)
             W == MCUs_per_row
             n == MCU_rows_in_scan
  <2>2. col \div MCU_width(c) < W /\ m < W * n
    BY <1>1, <2>1, RealInScan
  <2>3. m < Reached
    <3>1. CASE consume_input # "data"
      BY <2>2, <3>1 DEF Reached
    <3>2. CASE consume_input = "data"
      <4>1. row < input_iMCU_row * image.v[c]
        BY <1>4, <3>2
      <4>2. FirstMCU \in Nat /\ Resume \in Nat /\ Reached = FirstMCU + Resume
        BY <3>2, ReachedIs DEF Place
      <4> DEFINE mh == MCU_height(c)
                 mw == MCU_width(c)
                 R == RowsPerIMCU
                 r == input_iMCU_row
                 t == row \div mh
                 x == col \div mw
      <4>3. /\ mh \in Nat \ {0} /\ mw \in Nat \ {0} /\ R * mh = image.v[c] /\ W \in Nat \ {0}
            /\ R \in Nat /\ r \in Nat
        <5>1. /\ mh \in 1 .. 4 /\ mw \in 1 .. 4 /\ R * mh = image.v[c] /\ W \in Nat \ {0}
              /\ R \in 1 .. 4
          BY <1>1, <2>1, MCUGeometry, ScanGeometry
        <5>2. total_iMCU_rows \in Nat
          BY <1>1, Geometry
        <5> QED BY <1>1, <5>1, <5>2
      <4>4. m = t * W + x /\ FirstMCU = r * R * W /\ x < W
        BY <2>2 DEF MCUNumber, FirstMCU
      <4>5. row < r * (R * mh)
        BY <4>1, <4>3
      <4> HIDE DEF m, W, mh, mw, R, r
      <4>6. r * (R * mh) = (r * R) * mh /\ r * R \in Int
        BY <4>3
      <4>7. t \in Nat /\ t < r * R /\ x \in Nat
        BY <4>3, <4>5, <4>6, DivBelow
      <4> HIDE DEF t, x
      <4> DEFINE b == r * R
      <4>8. b \in Int /\ t < b /\ FirstMCU = b * W
        BY <4>4, <4>6, <4>7
      <4> HIDE DEF b
      <4>9. (t + 1) * W <= b * W /\ (t + 1) * W = t * W + W /\ t * W \in Int /\ b * W \in Int
        BY <4>3, <4>7, <4>8, ProductOrder, t + 1 \in Int
      <4> QED BY <4>2, <4>3, <4>4, <4>7, <4>8, <4>9
    <3> QED BY <3>1, <3>2
  <2>4. coef_arrays[c][row][col].scan = input_scan_number
    <3>1. InScan(c, input_scan_number) /\ input_scan_number > 0
      BY <1>4
    <3> HIDE DEF m
    <3>2. MCUNumber(c, row, col) < Reached
      BY <2>3 DEF m
    <3> QED BY <1>2, <3>1, <3>2 DEF StoredBlock
  <2> QED BY <1>1, <1>4, <2>4
<1> QED BY <1>3, <1>4

\* The sliding registers hold the column before, the column itself and the column
\* after, the edges repeated.
LEMMA ColumnsAre ==
  ASSUME NEW c, width_in_blocks(c) \in Nat \ {0}
  PROVE  LET last == width_in_blocks(c) - 1
         IN \A x \in 0 .. last :
              Columns(c)[x] = <<Clamp(x - 1, last), x, Clamp(x + 1, last)>>
<1> DEFINE last == width_in_blocks(c) - 1
           Step(x, prev) ==
             LET was == IF x = 0 THEN <<0, 0, 0>> ELSE <<prev[2], prev[3], prev[3]>>
             IN IF x < last THEN <<was[1], was[2], x + 1>> ELSE was
           Slides(f) == f = [x \in 0 .. last |-> Step(x, f[x - 1])]
           Around(x) == <<Clamp(x - 1, last), x, Clamp(x + 1, last)>>
           g == [x \in 0 .. last |-> Around(x)]
<1>1. last \in Nat
  OBVIOUS
<1>2. Columns(c) = CHOOSE f : Slides(f)
  BY DEF Columns
<1> HIDE DEF last
<1>3. \A x \in 0 .. last : Step(x, Around(x - 1)) = Around(x)
  <2> SUFFICES ASSUME NEW x \in 0 .. last  PROVE Step(x, Around(x - 1)) = Around(x)
    OBVIOUS
  <2>1. CASE x = 0
    BY <1>1, <2>1 DEF Clamp
  <2>2. CASE x # 0
    BY <1>1, <2>2 DEF Clamp
  <2> QED BY <2>1, <2>2
<1>4. Slides(g)
  <2>1. \A x \in 0 .. last : Step(x, g[x - 1]) = Step(x, Around(x - 1))
    <3> SUFFICES ASSUME NEW x \in 0 .. last  PROVE Step(x, g[x - 1]) = Step(x, Around(x - 1))
      OBVIOUS
    <3>1. CASE x = 0
      BY <3>1
    <3>2. CASE x # 0
      <4>1. x - 1 \in 0 .. last
        BY <1>1, <3>2
      <4>2. g[x - 1] = Around(x - 1)
        BY <4>1
      <4> QED BY <4>2
    <3> QED BY <3>1, <3>2
  <2>2. \A x \in 0 .. last : Around(x) = Step(x, g[x - 1])
    BY <2>1, <1>3
  <2> HIDE DEF Around, Step
  <2> QED BY <2>2
<1> HIDE DEF g, Slides
<1>5. Slides(Columns(c))
  BY <1>2, <1>4
<1> DEFINE f == Columns(c)
<1>6. \A x \in 0 .. last : f[x] = Step(x, f[x - 1])
  BY <1>5 DEF Slides
<1> HIDE DEF f
<1> DEFINE P == {x \in 0 .. last : f[x] = Around(x)}
<1>7. \A x \in 0 .. last : x \in P
  <2>1. 0 \in P
    <3>1. Step(0, f[0 - 1]) = Step(0, Around(0 - 1))
      OBVIOUS
    <3>2. 0 \in 0 .. last
      BY <1>1
    <3> HIDE DEF Step, Around
    <3> QED BY <1>3, <1>6, <3>1, <3>2
  <2>2. ASSUME NEW x \in 0 .. last, x # 0, x - 1 \in P  PROVE x \in P
    <3>1. f[x - 1] = Around(x - 1)
      BY <2>2
    <3>2. Step(x, f[x - 1]) = Around(x)
      <4> HIDE DEF Around, Step
      <4> QED BY <1>3, <3>1
    <3> HIDE DEF Around, Step
    <3> QED BY <1>6, <3>2
  <2> HIDE DEF P
  <2> QED BY <1>1, <2>1, <2>2, IntervalInduction, 0 \in Int, last \in Int
<1> QED BY <1>7 DEF f, last

\* The block rows of the buffer that smoothing takes for the row before, the row
\* itself and the row after.
LEMMA RowsAround ==
  ASSUME image \in Images, NEW c \in Component, output_iMCU_row \in 0 .. total_iMCU_rows - 1,
         NEW y \in 0 .. BlockRows(c) - 1, NEW d \in 0 .. 2
  PROVE  LET row == output_iMCU_row * image.v[c] + y
             high == height_in_blocks(c) - 1
             rows == <<PrevBlockRow(c, y), y, NextBlockRow(c, y)>>
         IN /\ output_iMCU_row * image.v[c] + rows[d + 1] = Clamp(row + d - 1, high)
            /\ Clamp(row + d - 1, high) \in 0 .. high
            /\ Clamp(row + d - 1, high) < (output_iMCU_row + 2) * image.v[c]
            /\ row \in 0 .. high /\ row < (output_iMCU_row + 1) * image.v[c]
            /\ y \in 0 .. image.v[c] - 1
<1> DEFINE v == image.v[c]
           t == total_iMCU_rows
           h == height_in_blocks(c)
           r == output_iMCU_row
           n == BlockRows(c)
           base == r * v
<1>1. /\ v \in Nat \ {0} /\ t \in Nat \ {0} /\ h \in Nat \ {0} /\ r \in Nat /\ r <= t - 1
      /\ (t - 1) * v < h /\ h <= t * v
      /\ LastOf(h, v) = h - (t - 1) * v
      /\ LastOf(h, v) \in 1 .. v
  <2>1. v \in 1 .. 4 /\ t \in Nat \ {0}
    BY ImageTypes, Geometry
  <2>2. v \in Nat \ {0} /\ r \in Nat /\ r <= t - 1
    BY <2>1
  <2> QED BY <2>1, <2>2, Geometry
<1>2. n = IF r < t - 1 THEN v ELSE LastOf(h, v)
  BY DEF BlockRows
<1>3. /\ PrevBlockRow(c, y) = IF r = 0 /\ y = 0 THEN y ELSE y - 1
      /\ NextBlockRow(c, y) = IF r = t - 1 /\ y = n - 1 THEN y ELSE y + 1
  BY DEF PrevBlockRow, NextBlockRow
<1> HIDE DEF v, t, h, r, n, base
<1>4. y \in Nat /\ y < v /\ y < n /\ n \in Nat /\ n <= v
  BY <1>1, <1>2 DEF n
<1>5. /\ (r + 1) * v = base + v /\ (r + 2) * v = base + v + v /\ base \in Nat
      /\ (t - 1) * v \in Int
  BY <1>1 DEF base
<1>6. base + n <= h /\ (r < t - 1 => base + v < h) /\ (r = t - 1 => base + n = h)
  <2>1. CASE r < t - 1
    <3>1. (r + 1) * v <= (t - 1) * v
      BY <1>1, <2>1, ProductOrder, r + 1 \in Int, t - 1 \in Int
    <3> QED BY <1>1, <1>2, <1>5, <2>1, <3>1
  <2>2. CASE r = t - 1
    <3>1. base = (t - 1) * v
      BY <2>2 DEF base
    <3>2. n = LastOf(h, v)
      BY <1>1, <1>2, <2>2
    <3> QED BY <1>1, <1>5, <2>2, <3>1, <3>2
  <2> QED BY <1>1, <2>1, <2>2
<1>7. r # 0 => base >= v
  <2> SUFFICES ASSUME r # 0  PROVE base >= v
    OBVIOUS
  <2>1. 1 * v <= r * v /\ 1 * v = v
    BY <1>1, ProductOrder, 1 \in Int
  <2> QED BY <1>1, <1>5, <2>1 DEF base
<1> DEFINE prev == PrevBlockRow(c, y)
           next == NextBlockRow(c, y)
<1>8. base + prev = Clamp(base + y - 1, h - 1)
  <2> HIDE DEF next
  <2> QED BY <1>1, <1>3, <1>4, <1>5, <1>6, <1>7 DEF Clamp
<1>9. base + y = Clamp(base + y, h - 1)
  BY <1>1, <1>4, <1>5, <1>6 DEF Clamp
<1>10. base + next = Clamp(base + y + 1, h - 1)
  <2>1. CASE r = t - 1 /\ y = n - 1
    BY <2>1, <1>1, <1>3, <1>4, <1>5, <1>6 DEF Clamp
  <2>2. CASE ~(r = t - 1 /\ y = n - 1)
    <3>1. next = y + 1 /\ base + y + 1 < h
      BY <2>2, <1>1, <1>3, <1>4, <1>5, <1>6
    <3> HIDE DEF next
    <3> QED BY <3>1, <1>1, <1>4, <1>5 DEF Clamp
  <2> QED BY <2>1, <2>2
<1> HIDE DEF prev, next
<1> DEFINE row == base + y
           rows == <<prev, y, next>>
<1>11. row \in 0 .. h - 1 /\ row < (r + 1) * v
  BY <1>1, <1>4, <1>5, <1>6
<1>12. base + rows[d + 1] = Clamp(row + d - 1, h - 1)
  <2>1. CASE d = 0
    <3>1. rows[d + 1] = prev /\ row + d - 1 = base + y - 1
      BY <2>1, <1>4, <1>5
    <3> QED BY <3>1, <1>8
  <2>2. CASE d = 1
    <3>1. rows[d + 1] = y /\ row + d - 1 = base + y
      BY <2>2, <1>4, <1>5
    <3> QED BY <3>1, <1>9
  <2>3. CASE d = 2
    <3>1. rows[d + 1] = next /\ row + d - 1 = base + y + 1
      BY <2>3, <1>4, <1>5
    <3> QED BY <3>1, <1>10
  <2> QED BY <2>1, <2>2, <2>3
<1>13. Clamp(row + d - 1, h - 1) \in 0 .. h - 1
       /\ Clamp(row + d - 1, h - 1) < (r + 2) * v
  <2>1. row \in Int /\ row + d - 1 \in Int /\ row + d - 1 <= base + v /\ h - 1 \in Nat
    BY <1>1, <1>4, <1>5
  <2> HIDE DEF row
  <2> QED BY <2>1, <1>1, <1>4, <1>5 DEF Clamp
<1>14. y \in 0 .. v - 1
  BY <1>1, <1>4
<1> QED BY <1>11, <1>12, <1>13, <1>14 DEF v, h, r, base, prev, next

\* The blocks whose DC values smoothing reads for a block.
LEMMA NeighboursAre ==
  ASSUME image \in Images, NEW c \in Component, output_iMCU_row \in 0 .. total_iMCU_rows - 1,
         NEW y \in 0 .. BlockRows(c) - 1, NEW x \in 0 .. width_in_blocks(c) - 1, NEW i \in 1 .. 9
  PROVE  LET row == output_iMCU_row * image.v[c] + y
         IN Smoothed(c, y, x).around[i] =
              coef_arrays[c]
                [Clamp(row + (i - 1) \div 3 - 1, height_in_blocks(c) - 1)]
                [Clamp(x + ((i - 1) % 3) - 1, width_in_blocks(c) - 1)]
<1> DEFINE r == output_iMCU_row
           v == image.v[c]
           start == IF r > 0 THEN (r - 1) * v ELSE 0
           current == IF r > 0 THEN start + v ELSE start
           d == (i - 1) \div 3
           e == (i - 1) % 3
           rows == <<PrevBlockRow(c, y), y, NextBlockRow(c, y)>>
<1>1. v \in Int /\ r \in Nat
  <2>1. v \in 1 .. 4 /\ total_iMCU_rows \in Nat
    BY ImageTypes, Geometry
  <2> QED BY <2>1
<1>2. Smoothed(c, y, x).around[i] = coef_arrays[c][current + rows[d + 1]][Columns(c)[x][1 + e]]
  BY DEF Smoothed
<1>3. current = r * v
  <2> HIDE DEF v, r
  <2>1. CASE r > 0
    <3>1. (r - 1) * v + v = r * v
      BY <1>1
    <3> QED BY <2>1, <3>1
  <2>2. CASE ~(r > 0)
    <3>1. r = 0
      BY <1>1, <2>2
    <3>2. 0 * v = 0
      BY <1>1
    <3> QED BY <2>2, <3>1, <3>2
  <2> QED BY <2>1, <2>2
<1>4. d \in 0 .. 2 /\ e \in 0 .. 2
  OBVIOUS
<1> HIDE DEF d, e, current
<1>5. r * v + rows[d + 1] = Clamp((r * v + y) + d - 1, height_in_blocks(c) - 1)
  BY <1>4, RowsAround
<1> DEFINE last == width_in_blocks(c) - 1
<1>6. width_in_blocks(c) \in Nat \ {0} /\ last \in Nat
  BY Geometry
<1>7. Columns(c)[x] = <<Clamp(x - 1, last), x, Clamp(x + 1, last)>>
  BY <1>6, ColumnsAre
<1> HIDE DEF last
<1>8. x \in 0 .. last
  BY DEF last
<1>9. Columns(c)[x][1 + e] = Clamp(x + e - 1, last)
  <2>1. CASE e = 0
    <3>1. x + e - 1 = x - 1
      BY <2>1, <1>6, <1>8
    <3> QED BY <2>1, <3>1, <1>7
  <2>2. CASE e = 1
    <3>1. x + e - 1 = x /\ Clamp(x, last) = x
      BY <2>2, <1>6, <1>8 DEF Clamp
    <3> QED BY <2>2, <3>1, <1>7
  <2>3. CASE e = 2
    <3>1. x + e - 1 = x + 1
      BY <2>3, <1>6, <1>8
    <3> QED BY <2>3, <3>1, <1>7
  <2> QED BY <1>4, <2>1, <2>2, <2>3
<1> QED BY <1>2, <1>3, <1>5, <1>9 DEF d, e, last

\* Where decompress_smooth_data stands when it emits a row: the scan displayed
\* has passed it, and a DC scan the row after it.
LEMMA SmoothInterlock ==
  ASSUME Place, DecompressSmoothData
  PROVE  /\ error = "none" /\ FullBuffer /\ image \in Images /\ image.progressive_mode
         /\ output_scan_number \in 1 .. input_scan_number
         /\ output_iMCU_row \in 0 .. total_iMCU_rows - 1 /\ input_iMCU_row \in Nat
         /\ output_scan_number = input_scan_number =>
              \/ consume_input # "data"
              \/ input_iMCU_row > output_iMCU_row + delta
         /\ UNCHANGED <<image, coef_arrays, input_scan_number, output_scan_number,
                        decompress_data, coef_bits_latch, scan_at_start>>
<1>1. /\ error = "none" /\ decompress_data = "smooth" /\ output_iMCU_row < total_iMCU_rows
      /\ \/ input_scan_number > output_scan_number
         \/ consume_input = "EOI"
         \/ /\ input_scan_number = output_scan_number
            /\ input_iMCU_row > output_iMCU_row + delta
      /\ UNCHANGED <<image, coef_arrays, input_scan_number, output_scan_number,
                     decompress_data, coef_bits_latch, scan_at_start>>
  BY DEF DecompressSmoothData, inputVars
<1>2. /\ image \in Images /\ output_iMCU_row \in 0 .. total_iMCU_rows
      /\ input_scan_number \in 0 .. Len(image.scans) /\ output_scan_number \in 0 .. MaxTarget
      /\ input_iMCU_row \in 0 .. total_iMCU_rows
      /\ FullBuffer /\ image.progressive_mode /\ output_scan_number > 0
      /\ consume_input = "EOI" => output_scan_number <= input_scan_number
  BY <1>1 DEF Place, Counters, OutputPlace
<1>3. total_iMCU_rows \in Nat /\ Len(image.scans) \in Nat /\ MaxTarget \in Nat
  <2>1. image.scans \in Seq(ScanHeader)
    BY <1>2, CoefAssumption DEF CoefAssumption
  <2> QED BY <1>2, <2>1, Geometry, BoundsAssumption
<1> HIDE DEF delta
<1>4. input_scan_number \in Nat /\ output_scan_number \in Nat
  BY <1>2, <1>3
<1>5. output_scan_number <= input_scan_number
  BY <1>1, <1>2, <1>4
<1>6. output_scan_number = input_scan_number =>
        consume_input # "data" \/ input_iMCU_row > output_iMCU_row + delta
  BY <1>1, <1>4
<1> QED BY <1>1, <1>2, <1>3, <1>4, <1>5, <1>6

LEMMA SmoothedNeighbours ==
  ASSUME Place, Stored, DecompressSmoothData
  PROVE  NeighboursRight'
<1>1. /\ output_iMCU_row \in 0 .. total_iMCU_rows - 1
      /\ output_iMCU_row' = output_iMCU_row + 1
      /\ output_buf' =
           [c \in Component |->
              IF c \notin image.needed THEN <<>>
              ELSE [p \in (0 .. BlockRows(c) - 1) \X (0 .. width_in_blocks(c) - 1) |->
                      Smoothed(c, p[1], p[2])]]
  BY DecompressSmoothDataPlace
<1>2. /\ error = "none" /\ FullBuffer /\ image \in Images
      /\ output_scan_number \in 1 .. input_scan_number /\ input_iMCU_row \in Nat
      /\ output_scan_number = input_scan_number =>
           consume_input # "data" \/ input_iMCU_row > output_iMCU_row + delta
      /\ UNCHANGED <<image, coef_arrays, output_scan_number>>
  BY SmoothInterlock
<1>3. image.needed \subseteq Component /\ total_iMCU_rows \in Nat /\ output_iMCU_row \in Nat
  <2>1. image.needed \subseteq Component /\ total_iMCU_rows \in Nat
    BY <1>2, ImageTypes, Geometry
  <2> QED BY <1>1, <2>1
<1>4. ASSUME NEW c \in image.needed, NEW p \in DOMAIN output_buf'[c], NEW i \in 1 .. 9
      PROVE  LET row == output_iMCU_row * image.v[c] + p[1]
                 near == coef_arrays[c]
                           [Clamp(row + (i - 1) \div 3 - 1, height_in_blocks(c) - 1)]
                           [Clamp(p[2] + ((i - 1) % 3) - 1, width_in_blocks(c) - 1)]
             IN /\ output_buf'[c][p].around[i] = near
                /\ Scan(output_scan_number).part = "DC" /\ InScan(c, output_scan_number)
                     => near.scan >= output_scan_number
  <2> DEFINE box == (0 .. BlockRows(c) - 1) \X (0 .. width_in_blocks(c) - 1)
             v == image.v[c]
             row == output_iMCU_row * v + p[1]
             h == height_in_blocks(c)
             w == width_in_blocks(c)
             d == (i - 1) \div 3
             e == (i - 1) % 3
             nrow == Clamp(row + (i - 1) \div 3 - 1, h - 1)
             ncol == Clamp(p[2] + ((i - 1) % 3) - 1, w - 1)
  <2>1. c \in Component
    BY <1>3
  <2>2. output_buf'[c] = [q \in box |-> Smoothed(c, q[1], q[2])]
    BY <1>1, <2>1
  <2>3. p \in box /\ output_buf'[c][p] = Smoothed(c, p[1], p[2])
    BY <2>2
  <2>4. p[1] \in 0 .. BlockRows(c) - 1 /\ p[2] \in 0 .. w - 1
    BY <2>3
  <2>5. output_buf'[c][p].around[i] = coef_arrays[c][nrow][ncol]
    BY <1>1, <1>2, <2>1, <2>3, <2>4, NeighboursAre
  <2>6. ASSUME Scan(output_scan_number).part = "DC", InScan(c, output_scan_number)
        PROVE  coef_arrays[c][nrow][ncol].scan >= output_scan_number
    <3>1. d \in 0 .. 2 /\ e \in 0 .. 2
      OBVIOUS
    <3>2. /\ nrow \in 0 .. h - 1
          /\ nrow < (output_iMCU_row + 2) * v
      BY <1>1, <1>2, <2>1, <2>4, <3>1, RowsAround
    <3>3. h \in Nat \ {0} /\ w \in Nat \ {0} /\ v \in Nat \ {0}
      <4>1. v \in 1 .. 4
        BY <1>2, <2>1, ImageTypes
      <4>2. h \in Nat \ {0} /\ w \in Nat \ {0}
        BY <1>2, <2>1, Geometry
      <4> HIDE DEF v, h, w
      <4> QED BY <4>1, <4>2
    <3>4. ncol \in 0 .. w - 1
      <4> DEFINE a == p[2] + e - 1
      <4>1. a \in Int
        BY <2>4, <3>1, <3>3
      <4> HIDE DEF a, w
      <4>2. Clamp(a, w - 1) \in 0 .. w - 1
        BY <3>3, <4>1 DEF Clamp
      <4> QED BY <4>2 DEF a
    <3> HIDE DEF nrow, ncol, v, h, w
    <3>5. nrow \in Nat /\ ncol \in Nat /\ nrow < h /\ ncol < w
      BY <3>2, <3>3, <3>4
    <3>6. Real(c, nrow, ncol)
      BY <3>5 DEF Real, h, w
    <3>7. output_scan_number = input_scan_number =>
            consume_input # "data" \/ nrow < input_iMCU_row * v
      <4> SUFFICES ASSUME output_scan_number = input_scan_number, consume_input = "data"
                   PROVE  nrow < input_iMCU_row * v
        OBVIOUS
      <4>1. delta = 1
        BY <2>6 DEF delta
      <4>2. output_iMCU_row + 2 <= input_iMCU_row
        BY <1>2, <1>3, <4>1
      <4>3. (output_iMCU_row + 2) * v <= input_iMCU_row * v
        BY <1>2, <1>3, <3>3, <4>2, ProductOrder, output_iMCU_row + 2 \in Int
      <4>4. (output_iMCU_row + 2) * v \in Int /\ input_iMCU_row * v \in Int
        BY <1>2, <1>3, <3>3
      <4> QED BY <3>2, <3>5, <4>3, <4>4
    <3> QED BY <1>2, <2>1, <2>6, <3>5, <3>6, <3>7, BlockBehind DEF v
  <2> QED BY <2>5, <2>6
<1>5. output_iMCU_row' - 1 = output_iMCU_row
  BY <1>1, <1>3
<1>6. ASSUME NEW c \in image'.needed, NEW p \in DOMAIN output_buf'[c], NEW i \in 1 .. 9
      PROVE  LET row == (output_iMCU_row' - 1) * image'.v[c] + p[1]
                 near == coef_arrays'[c]
                           [Clamp(row + (i - 1) \div 3 - 1, height_in_blocks(c)' - 1)]
                           [Clamp(p[2] + ((i - 1) % 3) - 1, width_in_blocks(c)' - 1)]
             IN /\ output_buf'[c][p].around[i] = near
                /\ Scan(output_scan_number)'.part = "DC" /\ InScan(c, output_scan_number)'
                     => near.scan >= output_scan_number'
  <2>1. /\ height_in_blocks(c)' = height_in_blocks(c) /\ width_in_blocks(c)' = width_in_blocks(c)
        /\ Scan(output_scan_number)' = Scan(output_scan_number)
    BY <1>2, ImageKept DEF Scan
  <2>2. InScan(c, output_scan_number)' <=> InScan(c, output_scan_number)
    BY <2>1 DEF InScan
  <2>3. (output_iMCU_row' - 1) * image'.v[c] = output_iMCU_row * image.v[c]
    BY <1>2, <1>5
  <2> QED BY <1>2, <1>4, <2>1, <2>2, <2>3
<1> QED BY <1>6 DEF NeighboursRight

-------------------------------------------------------------------------------
(* What is known of the coefficients                                       *)

\* In a progression a later scan of AC coefficients only refines an earlier one;
\* the entropy decoder warns of others (JWRN_BOGUS_PROGRESSION).
ProgressionsRefine ==
  \A im \in Images : \A k \in DOMAIN im.scans : \A j \in 1 .. k - 1 :
    /\ im.scans[j].part = "AC" /\ im.scans[k].part = "AC"
    /\ im.scans[j].comps = im.scans[k].comps
    => im.scans[k].Al <= im.scans[j].Al

Accuracies == [Component -> [DC : Int, AC : Int]]
NothingKnown == [c \in Component |-> [DC |-> Unknown, AC |-> Unknown]]
AfterScan(k, bits) ==
  [c \in Component |->
     IF \A i \in DOMAIN Scan(k).comps : Scan(k).comps[i] # c THEN bits[c]
     ELSE IF Scan(k).part = "DC" THEN [bits[c] EXCEPT !.DC = Scan(k).Al]
     ELSE [bits[c] EXCEPT !.AC = Scan(k).Al]]

LEMMA AfterScanType ==
  ASSUME image \in Images, NEW k \in 1 .. Len(image.scans), NEW bits \in Accuracies
  PROVE  AfterScan(k, bits) \in Accuracies
<1>1. Scan(k).Al \in Int
  <2>1. image.scans \in Seq(ScanHeader)
    BY CoefAssumption DEF CoefAssumption
  <2>2. k \in DOMAIN image.scans
    BY <2>1
  <2> QED BY <2>2, ScanTypes
<1> SUFFICES ASSUME NEW c \in Component
             PROVE  /\ bits[c] \in [DC : Int, AC : Int]
                    /\ [bits[c] EXCEPT !.DC = Scan(k).Al] \in [DC : Int, AC : Int]
                    /\ [bits[c] EXCEPT !.AC = Scan(k).Al] \in [DC : Int, AC : Int]
  BY DEF AfterScan, Accuracies
<1>2. bits[c] \in [DC : Int, AC : Int]
  BY DEF Accuracies
<1> DEFINE b == bits[c]
           a == Scan(k).Al
<1> HIDE DEF b, a
<1>3. b \in [DC : Int, AC : Int] /\ a \in Int
  BY <1>1, <1>2 DEF b, a
<1>4. [b EXCEPT !.DC = a] \in [DC : Int, AC : Int] /\ [b EXCEPT !.AC = a] \in [DC : Int, AC : Int]
  BY <1>3
<1> QED BY <1>3, <1>4 DEF b, a

LEMMA CoefBitsAre ==
  ASSUME image \in Images
  PROVE  /\ Len(image.scans) \in Nat
         /\ CoefBits \in [0 .. Len(image.scans) -> Accuracies]
         /\ CoefBits[0] = NothingKnown
         /\ \A k \in 1 .. Len(image.scans) : CoefBits[k] = AfterScan(k, CoefBits[k - 1])
<1> DEFINE n == Len(image.scans)
           Solves(f) == f = [k \in 0 .. n |-> IF k = 0 THEN NothingKnown ELSE AfterScan(k, f[k - 1])]
           F == [k \in 0 .. n |-> [bits \in Accuracies |->
                   IF k = 0 THEN bits ELSE AfterScan(k, bits)]]
<1>1. n \in Nat
  <2>1. image.scans \in Seq(ScanHeader)
    BY CoefAssumption DEF CoefAssumption
  <2> QED BY <2>1
<1>2. CoefBits = CHOOSE f : Solves(f)
  BY DEF CoefBits, NothingKnown, AfterScan
<1>3. \A k \in 1 .. n : \A bits \in Accuracies : AfterScan(k, bits) \in Accuracies
  BY AfterScanType
<1> HIDE DEF n
<1>4. NothingKnown \in Accuracies
  BY DEF NothingKnown, Accuracies, Unknown
<1>5. F \in [0 .. n -> [Accuracies -> Accuracies]]
  <2>1. \A k \in 0 .. n : k # 0 => k \in 1 .. n
    BY <1>1
  <2> QED BY <1>3, <2>1
<1>6. \A k \in 1 .. n : k \in 0 .. n /\ k # 0 /\ k - 1 \in 0 .. n
  BY <1>1
<1>7. \A k \in 1 .. n : \A bits \in Accuracies : F[k][bits] = AfterScan(k, bits)
  BY <1>6
<1> HIDE DEF F
<1>8. \E f : Recursion(f, Accuracies, NothingKnown, 0, n, F)
  BY <1>1, <1>4, <1>5, RecursionExists, 0 \in Int, n \in Int, 0 <= n
<1>9. ASSUME NEW f, Recursion(f, Accuracies, NothingKnown, 0, n, F)
      PROVE  Solves(f)
  <2>1. /\ f \in [0 .. n -> Accuracies]
        /\ \A k \in 0 .. n : f[k] = IF k = 0 THEN NothingKnown ELSE F[k][f[k - 1]]
    BY <1>9 DEF Recursion
  <2>2. \A k \in 0 .. n : f[k] = IF k = 0 THEN NothingKnown ELSE AfterScan(k, f[k - 1])
    <3> SUFFICES ASSUME NEW k \in 0 .. n
                 PROVE  f[k] = IF k = 0 THEN NothingKnown ELSE AfterScan(k, f[k - 1])
      OBVIOUS
    <3>1. CASE k = 0
      BY <2>1, <3>1
    <3>2. CASE k # 0
      <4>1. k \in 1 .. n /\ k - 1 \in 0 .. n
        BY <1>1, <3>2
      <4>2. f[k - 1] \in Accuracies
        BY <2>1, <4>1
      <4> QED BY <1>7, <2>1, <3>2, <4>1, <4>2
    <3> QED BY <3>1, <3>2
  <2>3. f = [k \in 0 .. n |-> f[k]]
    BY <2>1
  <2> QED BY <2>2, <2>3
<1> HIDE DEF Solves
<1>10. Solves(CoefBits)
  BY <1>2, <1>8, <1>9
<1>11. /\ DOMAIN CoefBits = 0 .. n
       /\ CoefBits = [k \in 0 .. n |-> CoefBits[k]]
       /\ \A k \in 0 .. n : CoefBits[k] = IF k = 0 THEN NothingKnown ELSE AfterScan(k, CoefBits[k - 1])
  BY <1>10 DEF Solves
<1>12. CoefBits[0] = NothingKnown /\ \A k \in 1 .. n : CoefBits[k] = AfterScan(k, CoefBits[k - 1])
  <2>1. 0 \in 0 .. n
    BY <1>1
  <2> QED BY <1>6, <1>11, <2>1
<1> DEFINE P == {k \in 0 .. n : CoefBits[k] \in Accuracies}
<1>13. \A k \in 0 .. n : k \in P
  <2>1. 0 \in P
    BY <1>1, <1>4, <1>12
  <2>2. ASSUME NEW k \in 0 .. n, k # 0, k - 1 \in P  PROVE k \in P
    <3>1. k \in 1 .. n /\ CoefBits[k - 1] \in Accuracies
      BY <1>1, <2>2
    <3>2. CoefBits[k] \in Accuracies
      BY <1>3, <1>12, <3>1
    <3> QED BY <3>2
  <2> HIDE DEF P
  <2> QED BY <1>1, <2>1, <2>2, IntervalInduction, 0 \in Int, n \in Int
<1>14. CoefBits \in [0 .. n -> Accuracies]
  BY <1>11, <1>13
<1> QED BY <1>1, <1>12, <1>14 DEF n

\* The accuracy of a component's AC coefficients, from scan to scan.
ACAfter(c, k) == CoefBits[k][c].AC

LEMMA ACSteps ==
  ASSUME image \in Images, image.progressive_mode, NEW c \in Component
  PROVE  /\ ACAfter(c, 0) = Unknown
         /\ \A k \in 0 .. Len(image.scans) : ACAfter(c, k) \in Int
         /\ \A k \in 1 .. Len(image.scans) :
              /\ ACAfter(c, k) = IF InScan(c, k) /\ Scan(k).part = "AC" THEN Scan(k).Al
                                 ELSE ACAfter(c, k - 1)
              /\ Scan(k).Al \in Nat
<1>1. /\ Len(image.scans) \in Nat
      /\ CoefBits \in [0 .. Len(image.scans) -> Accuracies]
      /\ CoefBits[0] = NothingKnown
      /\ \A k \in 1 .. Len(image.scans) : CoefBits[k] = AfterScan(k, CoefBits[k - 1])
  BY CoefBitsAre
<1>2. ACAfter(c, 0) = Unknown
  BY <1>1 DEF ACAfter, NothingKnown
<1>3. \A k \in 0 .. Len(image.scans) : CoefBits[k][c] \in [DC : Int, AC : Int]
  BY <1>1 DEF Accuracies
<1>4. \A k \in 0 .. Len(image.scans) : ACAfter(c, k) \in Int
  BY <1>3 DEF ACAfter
<1>5. ASSUME NEW k \in 1 .. Len(image.scans)
      PROVE  /\ ACAfter(c, k) = IF InScan(c, k) /\ Scan(k).part = "AC" THEN Scan(k).Al
                                ELSE ACAfter(c, k - 1)
             /\ Scan(k).Al \in Nat
  <2>1. image.scans \in Seq(ScanHeader)
    BY CoefAssumption DEF CoefAssumption
  <2>2. k \in DOMAIN image.scans /\ k - 1 \in 0 .. Len(image.scans)
    BY <1>1, <2>1
  <2>3. Scan(k).part \in {"DC", "AC"} /\ Scan(k).Al \in Nat
    BY <2>2, ScanTypes
  <2> DEFINE b == CoefBits[k - 1][c]
             a == Scan(k).Al
  <2>4. b \in [DC : Int, AC : Int] /\ a \in Int
    BY <1>3, <2>2, <2>3
  <2>5. CoefBits[k][c] = IF ~InScan(c, k) THEN b
                         ELSE IF Scan(k).part = "DC" THEN [b EXCEPT !.DC = a]
                         ELSE [b EXCEPT !.AC = a]
    <3> DEFINE bits == CoefBits[k - 1]
    <3>1. CoefBits[k] = AfterScan(k, bits)
      BY <1>1
    <3> HIDE DEF bits
    <3>2. AfterScan(k, bits)[c] =
            IF ~InScan(c, k) THEN bits[c]
            ELSE IF Scan(k).part = "DC" THEN [bits[c] EXCEPT !.DC = a]
            ELSE [bits[c] EXCEPT !.AC = a]
      BY Zenon DEF AfterScan, InScan
    <3>3. bits[c] = b
      BY DEF bits
    <3> HIDE DEF a, b
    <3> QED BY <3>1, <3>2, <3>3
  <2>6. ACAfter(c, k) = CoefBits[k][c].AC /\ ACAfter(c, k - 1) = b.AC
    BY DEF ACAfter
  <2> HIDE DEF a, b
  <2>7. [b EXCEPT !.DC = a].AC = b.AC /\ [b EXCEPT !.AC = a].AC = a
    BY <2>4
  <2>8. ACAfter(c, k) = IF InScan(c, k) /\ Scan(k).part = "AC" THEN a ELSE ACAfter(c, k - 1)
    BY <2>3, <2>5, <2>6, <2>7
  <2> QED BY <2>3, <2>8 DEF a
<1> QED BY <1>2, <1>4, <1>5

\* A known accuracy was set by some scan, and a later one is no worse.
LEMMA ACRefined ==
  ASSUME ProgressionsRefine, image \in Images, image.progressive_mode, NEW c \in Component,
         NEW j \in 0 .. Len(image.scans), NEW k \in j .. Len(image.scans),
         ACAfter(c, j) # Unknown
  PROVE  ACAfter(c, k) # Unknown /\ ACAfter(c, k) <= ACAfter(c, j)
<1> DEFINE n == Len(image.scans)
           A(i) == ACAfter(c, i)
           Sets(i) == InScan(c, i) /\ Scan(i).part = "AC"
           Al(i) == Scan(i).Al
<1>1. /\ n \in Nat /\ A(0) = Unknown
      /\ \A i \in 0 .. n : A(i) \in Int
      /\ \A i \in 1 .. n : A(i) = (IF Sets(i) THEN Al(i) ELSE A(i - 1)) /\ Al(i) \in Nat
  BY ACSteps, CoefBitsAre
<1>2. \A i \in 1 .. n : \A l \in 1 .. i - 1 : Sets(l) /\ Sets(i) => Al(i) <= Al(l)
  <2> SUFFICES ASSUME NEW i \in 1 .. n, NEW l \in 1 .. i - 1, Sets(l), Sets(i)
               PROVE  Al(i) <= Al(l)
    OBVIOUS
  <2>1. image.scans \in Seq(ScanHeader)
    BY CoefAssumption DEF CoefAssumption
  <2>2. i \in DOMAIN image.scans /\ l \in DOMAIN image.scans
    BY <1>1, <2>1
  <2>3. Scan(i).comps = <<c>> /\ Scan(l).comps = <<c>>
    <3> SUFFICES ASSUME NEW q \in {i, l}  PROVE Scan(q).comps = <<c>>
      OBVIOUS
    <3>1. Scan(q).comps \in Seq(Nat) /\ Len(Scan(q).comps) = 1
      BY <2>2, ScanTypes
    <3>2. \E m \in DOMAIN Scan(q).comps : Scan(q).comps[m] = c
      BY DEF InScan
    <3> QED BY <3>1, <3>2
  <2> QED BY <2>2, <2>3 DEF ProgressionsRefine, Scan
<1> HIDE DEF n, A, Sets, Al
<1> DEFINE Source(i) == A(i) = Unknown \/ \E l \in 1 .. i : Sets(l) /\ A(i) = Al(l)
           P == {i \in 0 .. n : Source(i)}
<1>3. \A i \in 0 .. n : i \in P
  <2>1. 0 \in P
    BY <1>1
  <2>2. ASSUME NEW i \in 0 .. n, i # 0, i - 1 \in P  PROVE i \in P
    <3>1. i \in 1 .. n /\ Source(i - 1)
      BY <1>1, <2>2
    <3>2. CASE Sets(i)
      <4>1. A(i) = Al(i) /\ i \in 1 .. i
        BY <1>1, <3>1, <3>2
      <4> QED BY <3>2, <4>1
    <3>3. CASE ~Sets(i)
      <4>1. A(i) = A(i - 1) /\ 1 .. i - 1 \subseteq 1 .. i
        BY <1>1, <3>1, <3>3
      <4> QED BY <3>1, <4>1
    <3> QED BY <3>2, <3>3
  <2> HIDE DEF P
  <2> QED BY <1>1, <2>1, <2>2, IntervalInduction, 0 \in Int, n \in Int
<1> DEFINE Refined(i) == A(i) # Unknown /\ A(i) <= A(j)
           Q == {i \in j .. n : Refined(i)}
<1>4. j \in 0 .. n /\ k \in j .. n /\ A(j) # Unknown
  BY DEF n, A
<1>5. \A i \in j .. n : i \in Q
  <2>1. j \in Q
    BY <1>1, <1>4
  <2>2. ASSUME NEW i \in j .. n, i # j, i - 1 \in Q  PROVE i \in Q
    <3>1. i \in 1 .. n /\ i - 1 \in 0 .. n /\ Refined(i - 1) /\ Source(i - 1)
      BY <1>1, <1>3, <1>4, <2>2
    <3>2. CASE Sets(i)
      <4>1. PICK l \in 1 .. i - 1 : Sets(l) /\ A(i - 1) = Al(l)
        BY <3>1
      <4>2. A(i) = Al(i) /\ Al(i) <= Al(l) /\ Al(i) \in Nat
        BY <1>1, <1>2, <3>1, <3>2, <4>1
      <4>3. A(i) \in Int /\ A(i - 1) \in Int /\ A(j) \in Int /\ A(i) # Unknown
        BY <1>1, <1>4, <3>1, <4>2 DEF Unknown
      <4>4. A(i) <= A(j)
        BY <3>1, <4>1, <4>2, <4>3
      <4> QED BY <4>3, <4>4
    <3>3. CASE ~Sets(i)
      BY <1>1, <3>1, <3>3
    <3> QED BY <3>2, <3>3
  <2> HIDE DEF Q
  <2> QED BY <1>1, <1>4, <2>1, <2>2, IntervalInduction, j \in Int, n \in Int
<1> QED BY <1>4, <1>5 DEF A

\* Scans of other components leave it as it is.
LEMMA ACKept ==
  ASSUME image \in Images, image.progressive_mode, NEW c \in Component,
         NEW j \in 0 .. Len(image.scans), NEW k \in j .. Len(image.scans),
         \A l \in j + 1 .. k : ~InScan(c, l)
  PROVE  ACAfter(c, k) = ACAfter(c, j)
<1> DEFINE P == {i \in j .. k : ACAfter(c, i) = ACAfter(c, j)}
<1>1. /\ Len(image.scans) \in Nat
      /\ \A i \in 1 .. Len(image.scans) : ~InScan(c, i) => ACAfter(c, i) = ACAfter(c, i - 1)
  BY ACSteps, CoefBitsAre
<1>2. \A i \in j .. k : i \in P
  <2>1. j \in P
    BY <1>1
  <2>2. ASSUME NEW i \in j .. k, i # j, i - 1 \in P  PROVE i \in P
    <3>1. i \in 1 .. Len(image.scans) /\ i \in j + 1 .. k /\ ACAfter(c, i - 1) = ACAfter(c, j)
      BY <1>1, <2>2
    <3>2. ACAfter(c, i) = ACAfter(c, j)
      BY <1>1, <3>1
    <3> QED BY <3>2
  <2> HIDE DEF P
  <2> QED BY <1>1, <2>1, <2>2, IntervalInduction, j \in Int, k \in Int
<1>3. k \in j .. k
  BY <1>1
<1> QED BY <1>2, <1>3

\* A block that every scan of its component up to number j has reached is known as
\* well as those scans promise.
LEMMA ACOfBlock ==
  ASSUME ProgressionsRefine, image \in Images, image.progressive_mode, NEW c \in Component,
         NEW j \in 0 .. Len(image.scans), NEW b \in 0 .. Len(image.scans),
         \A l \in 1 .. j : InScan(c, l) => b >= l,
         ACAfter(c, j) # Unknown
  PROVE  ACAfter(c, b) # Unknown /\ ACAfter(c, b) <= ACAfter(c, j)
<1>1. /\ Len(image.scans) \in Nat /\ ACAfter(c, j) \in Int
  BY CoefBitsAre, ACSteps
<1>2. CASE b >= j
  <2>1. b \in j .. Len(image.scans)
    BY <1>1, <1>2
  <2> QED BY <2>1, ACRefined
<1>3. CASE b < j
  <2>1. j \in b .. Len(image.scans) /\ \A l \in b + 1 .. j : ~InScan(c, l)
    BY <1>1, <1>3
  <2>2. ACAfter(c, j) = ACAfter(c, b)
    BY <2>1, ACKept
  <2> QED BY <1>1, <2>2
<1> QED BY <1>1, <1>2, <1>3

\* coef_bits depends on the image only.
BitsOf(im) ==
  LET bits[k \in 0 .. Len(im.scans)] ==
        IF k = 0 THEN [c \in DOMAIN im.h |-> [DC |-> -1, AC |-> -1]]
        ELSE [c \in DOMAIN im.h |->
                IF \A i \in DOMAIN im.scans[k].comps : im.scans[k].comps[i] # c
                  THEN bits[k - 1][c]
                ELSE IF im.scans[k].part = "DC" THEN [bits[k - 1][c] EXCEPT !.DC = im.scans[k].Al]
                ELSE [bits[k - 1][c] EXCEPT !.AC = im.scans[k].Al]]
  IN bits

LEMMA BitsKept ==
  ASSUME image' = image
  PROVE  CoefBits' = CoefBits /\ \A c, k : ACAfter(c, k)' = ACAfter(c, k)
<1>1. CoefBits = BitsOf(image)
  BY DEF CoefBits, BitsOf, Component, Scan, Unknown
<1>2. CoefBits' = BitsOf(image')
  BY DEF CoefBits, BitsOf, Component, Scan, Unknown
<1>3. CoefBits' = CoefBits
  BY <1>1, <1>2
<1> QED BY <1>3 DEF ACAfter

\* The accuracies that smoothing uses were those of the scan being read when the
\* pass started.
Latched ==
  decompress_data = "smooth" =>
    /\ scan_at_start \in 0 .. input_scan_number
    /\ coef_bits_latch = [c \in Component |-> ACAfter(c, scan_at_start)]

LEMMA ScanNumberKept ==
  ASSUME ConsumeData
  PROVE  /\ input_scan_number' = input_scan_number
         /\ UNCHANGED <<image, decompress_data, coef_bits_latch, scan_at_start>>
<1>1. UNCHANGED <<image, decompress_data, coef_bits_latch, scan_at_start>>
  BY DEF ConsumeData
<1>2. UNCHANGED inputVars \/ \E stop \in Resume .. MCUsInRow : DecodeUntil(stop)
  BY DEF ConsumeData
<1>3. CASE UNCHANGED inputVars
  BY <1>1, <1>3 DEF inputVars
<1>4. ASSUME NEW stop \in Resume .. MCUsInRow, DecodeUntil(stop)
      PROVE  input_scan_number' = input_scan_number
  BY <1>4 DEF DecodeUntil
<1> QED BY <1>1, <1>2, <1>3, <1>4

LEMMA NextLatched == Place /\ Latched /\ [Next]_vars => Latched'
<1> SUFFICES ASSUME Place, Latched, [Next]_vars  PROVE Latched'
  OBVIOUS
<1>0. input_scan_number \in Nat
  BY CoefBitsAre DEF Place, Counters
<1>1. ASSUME UNCHANGED <<image, decompress_data, coef_bits_latch, scan_at_start>>,
             input_scan_number' \in {input_scan_number, input_scan_number + 1}
      PROVE  Latched'
  <2> SUFFICES ASSUME decompress_data' = "smooth"
               PROVE  /\ scan_at_start' \in 0 .. input_scan_number'
                      /\ coef_bits_latch' = [c \in Component' |-> ACAfter(c, scan_at_start)']
    BY DEF Latched
  <2>1. /\ scan_at_start \in 0 .. input_scan_number
        /\ coef_bits_latch = [c \in Component |-> ACAfter(c, scan_at_start)]
    BY <1>1 DEF Latched
  <2>2. Component' = Component /\ \A c : ACAfter(c, scan_at_start)' = ACAfter(c, scan_at_start)
    BY <1>1, BitsKept, ImageKept DEF ACAfter
  <2>3. scan_at_start' \in 0 .. input_scan_number'
    BY <1>0, <1>1, <2>1
  <2> QED BY <1>1, <2>1, <2>2, <2>3
<1>2. CASE ConsumeData
  BY <1>1, <1>2, ScanNumberKept
<1>3. CASE DefineTable
  BY <1>1, <1>3 DEF DefineTable, inputVars, outputVars
<1>4. CASE StartInputPass
  BY <1>1, <1>4 DEF StartInputPass, UnexpectedScan, outputVars
<1>5. CASE ReachEOI
  BY <1>1, <1>5 DEF ReachEOI
<1>6. ASSUME NEW target \in 1 .. MaxTarget, NEW method \in Methods, NEW smooth \in BOOLEAN,
             StartOutputPass(target, method, smooth)
      PROVE  Latched'
  <2> SUFFICES ASSUME decompress_data' = "smooth"
               PROVE  /\ scan_at_start' \in 0 .. input_scan_number'
                      /\ coef_bits_latch' = [c \in Component' |-> ACAfter(c, scan_at_start)']
    BY DEF Latched
  <2>1. /\ coef_bits_latch' = [c \in Component |-> coef_bits[c].AC]
        /\ scan_at_start' = input_scan_number
        /\ UNCHANGED <<image, input_scan_number>>
    BY <1>6 DEF StartOutputPass, inputVars
  <2>2. \A c : coef_bits[c].AC = ACAfter(c, scan_at_start)'
    BY <2>1, BitsKept DEF coef_bits, ACAfter
  <2>3. Component' = Component
    BY <2>1, ImageKept
  <2> QED BY <1>0, <2>1, <2>2, <2>3
<1>7. CASE FinishOutputPass
  BY <1>7 DEF FinishOutputPass, Latched
<1>8. CASE DecompressOnepass
  <2>1. decompress_data' # "smooth"
    BY <1>8 DEF DecompressOnepass
  <2> QED BY <2>1 DEF Latched
<1>9. CASE DecompressData
  <2>1. decompress_data' # "smooth"
    BY <1>9 DEF DecompressData
  <2> QED BY <2>1 DEF Latched
<1>10. CASE DecompressSmoothData
  BY <1>1, <1>10 DEF DecompressSmoothData, inputVars
<1>11. CASE UNCHANGED vars
  BY <1>1, <1>11 DEF vars, inputVars, outputVars
<1> QED BY <1>2, <1>3, <1>4, <1>5, <1>6, <1>7, <1>8, <1>9, <1>10, <1>11 DEF Next

LEMMA SmoothedBits ==
  ASSUME NEW c, NEW y, NEW x
  PROVE  Smoothed(c, y, x).bits = coef_bits_latch[c]
BY DEF Smoothed, ACBits

\* decompress_smooth_data takes no coefficient for better known than it is.
LEMMA SmoothedSafely ==
  ASSUME ProgressionsRefine, Place, Stored, Latched, DecompressSmoothData
  PROVE  EstimateSafe'
<1>1. /\ output_iMCU_row \in 0 .. total_iMCU_rows - 1
      /\ output_iMCU_row' = output_iMCU_row + 1
      /\ output_buf' =
           [c \in Component |->
              IF c \notin image.needed THEN <<>>
              ELSE [p \in (0 .. BlockRows(c) - 1) \X (0 .. width_in_blocks(c) - 1) |->
                      Smoothed(c, p[1], p[2])]]
  BY DecompressSmoothDataPlace
<1>2. /\ error = "none" /\ FullBuffer /\ image \in Images /\ image.progressive_mode
      /\ output_scan_number \in 1 .. input_scan_number /\ input_iMCU_row \in Nat
      /\ output_scan_number = input_scan_number =>
           consume_input # "data" \/ input_iMCU_row > output_iMCU_row + delta
      /\ UNCHANGED <<image, output_scan_number, scan_at_start>>
  BY SmoothInterlock
<1>3. /\ image.needed \subseteq Component /\ total_iMCU_rows \in Nat /\ output_iMCU_row \in Nat
      /\ input_scan_number \in 0 .. Len(image.scans) /\ Len(image.scans) \in Nat
      /\ input_scan_number \in Nat /\ delta \in {0, 1}
  <2>1. image.needed \subseteq Component /\ total_iMCU_rows \in Nat /\ Len(image.scans) \in Nat
    BY <1>2, ImageTypes, Geometry, CoefBitsAre
  <2>2. input_scan_number \in 0 .. Len(image.scans) /\ delta \in {0, 1}
    BY DEF Place, Counters, delta
  <2> QED BY <1>1, <2>1, <2>2
<1>4. /\ scan_at_start \in 0 .. input_scan_number
      /\ coef_bits_latch = [c \in Component |-> ACAfter(c, scan_at_start)]
  BY DEF Latched, DecompressSmoothData
<1>5. ASSUME output_scan_number >= scan_at_start,
             NEW c \in image.needed, NEW p \in DOMAIN output_buf'[c],
             output_buf'[c][p].bits # Unknown
      PROVE  LET known == ACAfter(c, output_buf'[c][p].block.scan)
             IN known # Unknown /\ known <= output_buf'[c][p].bits
  <2> DEFINE box == (0 .. BlockRows(c) - 1) \X (0 .. width_in_blocks(c) - 1)
             v == image.v[c]
             row == output_iMCU_row * v + p[1]
             b == coef_arrays[c][row][p[2]].scan
  <2>1. c \in Component
    BY <1>3
  <2>2. output_buf'[c] = [q \in box |-> Smoothed(c, q[1], q[2])]
    BY <1>1, <2>1
  <2>3. p \in box /\ output_buf'[c][p] = Smoothed(c, p[1], p[2])
    BY <2>2
  <2>4. p[1] \in 0 .. BlockRows(c) - 1 /\ p[2] \in 0 .. width_in_blocks(c) - 1
    BY <2>3
  <2>5. output_buf'[c][p].block.scan = b
    BY <1>1, <1>2, <2>1, <2>3, SmoothedBlock
  <2>6. output_buf'[c][p].bits = ACAfter(c, scan_at_start)
    <3>1. output_buf'[c][p].bits = coef_bits_latch[c]
      BY <2>3, SmoothedBits
    <3> QED BY <1>4, <2>1, <3>1
  <2>7. StoredBlock(c, row, p[2]) /\ Real(c, row, p[2])
    BY <1>1, <2>1, <2>3, StoredInRow
  <2>8. row \in Nat /\ p[2] \in Nat /\ row < (output_iMCU_row + 1) * v /\ v \in Nat \ {0}
    <3>1. row \in 0 .. height_in_blocks(c) - 1 /\ row < (output_iMCU_row + 1) * v
      BY <1>1, <1>2, <2>1, <2>4, RowsAround, 0 \in 0 .. 2
    <3>2. height_in_blocks(c) \in Nat /\ width_in_blocks(c) \in Nat
      BY <1>2, <2>1, Geometry
    <3>3. v \in 1 .. 4
      BY <1>2, <2>1, ImageTypes
    <3> HIDE DEF row, v
    <3> QED BY <2>4, <3>1, <3>2, <3>3
  <2>9. b \in 0 .. input_scan_number
    <3>1. b <= input_scan_number
      BY <2>7 DEF StoredBlock
    <3>2. b \in Nat
      <4> DEFINE H == ArrayRows(c)
                 W == ArrayCols(c)
      <4>1. /\ H \in Nat /\ W \in Nat /\ height_in_blocks(c) <= H /\ width_in_blocks(c) <= W
            /\ height_in_blocks(c) \in Nat /\ width_in_blocks(c) \in Nat
        BY <1>2, <2>1, PlacesAreNat, Geometry
      <4>2. coef_arrays[c] \in [0 .. H - 1 -> [0 .. W - 1 -> CoefBlock]]
        BY <2>1 DEF Stored, Shape
      <4> HIDE DEF row, H, W, b
      <4>3. row \in 0 .. H - 1 /\ p[2] \in 0 .. W - 1
        BY <2>7, <2>8, <4>1 DEF Real
      <4>4. coef_arrays[c][row][p[2]] \in CoefBlock
        BY <4>2, <4>3
      <4> QED BY <4>4 DEF CoefBlock, b
    <3> HIDE DEF b
    <3> QED BY <1>3, <3>1, <3>2
  <2> HIDE DEF row, v, b
  <2>10. ASSUME NEW l \in 1 .. scan_at_start, InScan(c, l)  PROVE b >= l
    <3>1. l \in 1 .. input_scan_number
      BY <1>3, <1>4
    <3>2. l = input_scan_number => consume_input # "data" \/ row < input_iMCU_row * image.v[c]
      <4> SUFFICES ASSUME l = input_scan_number, consume_input = "data"
                   PROVE  row < input_iMCU_row * v
        BY DEF v
      <4>1. output_scan_number = input_scan_number
        BY <1>2, <1>3, <1>4, <1>5
      <4>2. output_iMCU_row + 1 <= input_iMCU_row
        BY <1>2, <1>3, <4>1
      <4>3. /\ (output_iMCU_row + 1) * v <= input_iMCU_row * v
            /\ (output_iMCU_row + 1) * v \in Int /\ input_iMCU_row * v \in Int
        BY <1>2, <1>3, <2>8, <4>2, ProductOrder, output_iMCU_row + 1 \in Int
      <4> QED BY <2>8, <4>3
    <3> QED BY <1>2, <2>1, <2>7, <2>8, <2>10, <3>1, <3>2, BlockBehind DEF b
  <2>11. scan_at_start \in 0 .. Len(image.scans) /\ b \in 0 .. Len(image.scans)
    BY <1>3, <1>4, <2>9
  <2>12. ACAfter(c, scan_at_start) # Unknown
    BY <1>5, <2>6
  <2>13. ACAfter(c, b) # Unknown /\ ACAfter(c, b) <= ACAfter(c, scan_at_start)
    BY <1>2, <2>1, <2>10, <2>11, <2>12, ACOfBlock
  <2> QED BY <2>5, <2>6, <2>13
<1>6. \A c, k : CoefBits'[k][c].AC = ACAfter(c, k)
  BY <1>2, BitsKept DEF ACAfter
<1> QED BY <1>2, <1>5, <1>6 DEF EstimateSafe

\* A step that neither emits nor stores.
LEMMA SmoothingKept ==
  ASSUME SmoothingRight,
         UNCHANGED <<image, output_buf, output_iMCU_row, decompress_data, coef_arrays, scan_at_start>>,
         emitted' => emitted /\ output_scan_number' = output_scan_number
  PROVE  SmoothingRight'
<1> SUFFICES ASSUME emitted', decompress_data' = "smooth"  PROVE SmoothingRight'
  BY DEF SmoothingRight, NeighboursRight, EstimateSafe
<1>1. emitted /\ decompress_data = "smooth" /\ output_scan_number' = output_scan_number
  OBVIOUS
<1>2. /\ \A c : height_in_blocks(c)' = height_in_blocks(c) /\ width_in_blocks(c)' = width_in_blocks(c)
      /\ \A k : Scan(k)' = Scan(k)
      /\ \A c, k : InScan(c, k)' <=> InScan(c, k)
      /\ CoefBits' = CoefBits
  BY ImageKept, ScansKept, BitsKept
<1>3. NeighboursRight'
  <2> SUFFICES
        ASSUME NEW c \in image'.needed, NEW p \in DOMAIN output_buf'[c], NEW i \in 1 .. 9
        PROVE  LET row == (output_iMCU_row' - 1) * image'.v[c] + p[1]
                   near == coef_arrays'[c]
                             [Clamp(row + (i - 1) \div 3 - 1, height_in_blocks(c)' - 1)]
                             [Clamp(p[2] + ((i - 1) % 3) - 1, width_in_blocks(c)' - 1)]
               IN /\ output_buf'[c][p].around[i] = near
                  /\ Scan(output_scan_number)'.part = "DC" /\ InScan(c, output_scan_number)'
                       => near.scan >= output_scan_number'
    BY DEF NeighboursRight
  <2>1. /\ height_in_blocks(c)' = height_in_blocks(c) /\ width_in_blocks(c)' = width_in_blocks(c)
        /\ Scan(output_scan_number)' = Scan(output_scan_number)
        /\ InScan(c, output_scan_number)' <=> InScan(c, output_scan_number)
    <3>1. Scan(output_scan_number)' = Scan(output_scan_number)
      BY <1>1 DEF Scan
    <3> QED BY <1>2, <3>1 DEF InScan
  <2>2. c \in image.needed /\ p \in DOMAIN output_buf[c]
    OBVIOUS
  <2>3. LET row == (output_iMCU_row - 1) * image.v[c] + p[1]
            near == coef_arrays[c]
                      [Clamp(row + (i - 1) \div 3 - 1, height_in_blocks(c) - 1)]
                      [Clamp(p[2] + ((i - 1) % 3) - 1, width_in_blocks(c) - 1)]
        IN /\ output_buf[c][p].around[i] = near
           /\ Scan(output_scan_number).part = "DC" /\ InScan(c, output_scan_number)
                => near.scan >= output_scan_number
    BY <1>1, <2>2 DEF SmoothingRight, NeighboursRight
  <2> QED BY <1>1, <2>1, <2>3
<1>4. EstimateSafe'
  BY <1>1, <1>2 DEF SmoothingRight, EstimateSafe
<1> QED BY <1>3, <1>4 DEF SmoothingRight

LEMMA NextSmoothing ==
  ASSUME ProgressionsRefine
  PROVE  Place /\ Stored /\ Latched /\ SmoothingRight /\ [Next]_vars => SmoothingRight'
<1> SUFFICES ASSUME Place, Stored, Latched, SmoothingRight, [Next]_vars  PROVE SmoothingRight'
  OBVIOUS
<1>1. ASSUME emitted' = FALSE \/ decompress_data' # "smooth"  PROVE SmoothingRight'
  BY <1>1 DEF SmoothingRight, NeighboursRight, EstimateSafe
<1>2. CASE ConsumeData
  BY <1>1, <1>2 DEF ConsumeData
<1>3. CASE DefineTable
  BY <1>3, SmoothingKept DEF DefineTable, inputVars, outputVars, idctVars
<1>4. CASE StartInputPass
  BY <1>4, SmoothingKept DEF StartInputPass, UnexpectedScan, outputVars, idctVars
<1>5. CASE ReachEOI
  <2>1. CASE decompress_data = "smooth" /\ emitted
    <3>1. output_scan_number <= input_scan_number /\ output_scan_number \in Nat
      <4>1. output_scan_number \in 0 .. MaxTarget /\ MaxTarget \in Nat
        BY BoundsAssumption DEF Place, Counters
      <4> QED BY <2>1, <4>1 DEF Place, OutputPlace
    <3>2. output_scan_number' = output_scan_number
      BY <1>5, <3>1, CoefBitsAre DEF ReachEOI, Place, Counters
    <3> QED BY <1>5, <3>2, SmoothingKept DEF ReachEOI
  <2>2. CASE ~(decompress_data = "smooth" /\ emitted)
    <3>1. emitted' = FALSE \/ decompress_data' # "smooth"
      BY <1>5, <2>2 DEF ReachEOI, Place, Counters
    <3> QED BY <1>1, <3>1
  <2> QED BY <2>1, <2>2
<1>6. ASSUME NEW target \in 1 .. MaxTarget, NEW method \in Methods, NEW smooth \in BOOLEAN,
             StartOutputPass(target, method, smooth)
      PROVE  SmoothingRight'
  BY <1>1, <1>6 DEF StartOutputPass
<1>7. CASE FinishOutputPass
  BY <1>1, <1>7 DEF FinishOutputPass
<1>8. CASE DecompressOnepass
  BY <1>1, <1>8 DEF DecompressOnepass
<1>9. CASE DecompressData
  BY <1>1, <1>9 DEF DecompressData
<1>10. CASE DecompressSmoothData
  BY <1>10, SmoothedNeighbours, SmoothedSafely DEF SmoothingRight
<1>11. CASE UNCHANGED vars
  BY <1>11, SmoothingKept DEF vars, inputVars, outputVars, idctVars
<1> QED BY <1>2, <1>3, <1>4, <1>5, <1>6, <1>7, <1>8, <1>9, <1>10, <1>11 DEF Next

\* Smoothing estimates each block from its eight neighbours, in a DC scan from none
\* that the scan has not reached, and takes no coefficient for better known than
\* the block's data is, although input goes on while the pass is displayed.
THEOREM SmoothingRightTheorem ==
  ASSUME ProgressionsRefine
  PROVE  Spec => []SmoothingRight
<1>1. Init => Latched /\ SmoothingRight
  BY DEF Init, Latched, SmoothingRight, NeighboursRight, EstimateSafe
<1>2. Place /\ Latched /\ [Next]_vars => Latched'
  BY NextLatched
<1>3. Place /\ Stored /\ Latched /\ SmoothingRight /\ [Next]_vars => SmoothingRight'
  BY NextSmoothing
<1> QED BY <1>1, <1>2, <1>3, PlaceHolds, StoredHolds, PTL DEF Spec
===============================================================================
