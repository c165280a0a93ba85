------------------------- MODULE DecompressRowsProofs -------------------------
(***************************************************************************)
(* Proofs about DecompressRows, for images of any height, any number of    *)
(* row groups in an iMCU row, any integral vertical sampling factors, and  *)
(* any sequence of passes, calls and suspensions: first where everybody    *)
(* is, then what the buffers hold, so that every scanline is made from the *)
(* right sample rows.                                                      *)
(***************************************************************************)
EXTENDS DecompressRows, NumberLemmas, TLAPS

-------------------------------------------------------------------------------
(* The inductive invariant: where everybody is                             *)

Decoding == process_data \in {"thru", "onepass", "prepass"}

\* Scanlines returned or saved in this pass, the call in progress included.
Done == output_scanline + (IF pc = "idle" THEN 0 ELSE out_row_ctr)

\* Scanlines of the row group in progress that are done.
PartOf(nro, spare) ==
  IF Merged THEN IF spare THEN 1 ELSE 0
  ELSE IF nro = V THEN 0 ELSE nro

Part == PartOf(next_row_out, spare_full)

\* The types TypeOK leaves out.
MoreTypes ==
  /\ output_scanline \in Nat /\ out_rows_avail \in Nat /\ out_row_ctr \in Nat
  /\ suspended \in BOOLEAN /\ buffer_full \in BOOLEAN /\ spare_full \in BOOLEAN
  /\ whichptr \in {0, 1} /\ iMCU_row_ctr \in Nat
  /\ context_state \in {"PREPARE_FOR_IMCU", "PROCESS_IMCU", "POSTPONED_ROW"}

\* A call is in progress only while there are rows left and room for them.
CallPhase ==
  /\ process_data = "none" => pc = "idle" /\ output_scanline = 0
  /\ pc = "process" => Done < output_height
  /\ pc = "process" /\ process_data # "prepass" => out_row_ctr < out_rows_avail
  /\ pc = "process" /\ ~NeedContext => out_row_ctr = 0
  /\ pc = "process" /\ ~Decoding => out_row_ctr = 0
  /\ pc = "return" /\ out_row_ctr = 0 => suspended

\* The upsampler knows where the bottom is, as far as it looks at it.
UpsamplerPhase ==
  /\ ~Merged => next_row_out >= 1
  /\ spare_full => V = 2
  /\ Decoding =>
       /\ Done <= output_height
       /\ ~(Merged /\ V = 1) => rows_to_go = output_height - Done

\* The scanlines that lie above row group g of iMCU row n, counted from 0.
Above(n, g) == (n * M + g) * V

\* The row groups of the last iMCU row.
LastGroups == (RowsLeft(1) - 1) \div RowGroup[1] + 1

\* Without context rows.
SimplePosition ==
  Decoding /\ ~NeedContext =>
    IF buffer_full
      THEN /\ output_iMCU_row >= 1 /\ rowgroup_ctr < M
           /\ Done = Above(output_iMCU_row - 1, rowgroup_ctr) + Part
      ELSE /\ Part = 0 /\ rowgroup_ctr = 0
           /\ Done = Above(output_iMCU_row, 0)

\* With context rows the last row group of an iMCU row waits for the next one.
ContextPosition ==
  Decoding /\ NeedContext =>
    /\ iMCU_row_ctr = output_iMCU_row
    /\ context_state = "PREPARE_FOR_IMCU" =>
         /\ Part = 0
         /\ buffer_full => output_iMCU_row >= 1 /\ Done = Above(output_iMCU_row - 1, 0)
         /\ ~buffer_full => output_iMCU_row = 0 /\ Done = 0
    /\ context_state = "PROCESS_IMCU" =>
         /\ buffer_full /\ output_iMCU_row >= 1
         /\ rowgroups_avail = IF output_iMCU_row = total_iMCU_rows THEN LastGroups ELSE M - 1
         /\ rowgroup_ctr < rowgroups_avail
         /\ Done = Above(output_iMCU_row - 1, rowgroup_ctr) + Part
    /\ context_state = "POSTPONED_ROW" =>
         /\ rowgroup_ctr = M + 1 /\ rowgroups_avail = M + 2
         /\ buffer_full => output_iMCU_row >= 2 /\ Done = Above(output_iMCU_row - 1, -1) + Part
         /\ ~buffer_full =>
              /\ Part = 0 /\ output_iMCU_row >= 1
              /\ Done = IF output_iMCU_row = total_iMCU_rows THEN output_height
                        ELSE Above(output_iMCU_row, -1)

\* The two-pass postprocessor: strips begin at multiples of their height, those
\* behind it were written, and all of them when the rows are read back.
StripPosition ==
  process_data \in {"prepass", "crank"} =>
    /\ "twopass" \in image.PassKinds
    /\ Done = starting_row + next_row
    /\ \E k \in 0 .. starting_row : starting_row = k * V
    /\ starting_row <= first_undef_row
    /\ process_data = "prepass" /\ next_row > 0 => starting_row + V <= first_undef_row
    /\ process_data = "crank" => first_undef_row = rows_in_array

BInv ==
  /\ TypeOK
  /\ MoreTypes
  /\ CallPhase
  /\ UpsamplerPhase
  /\ SimplePosition
  /\ ContextPosition
  /\ StripPosition

-------------------------------------------------------------------------------
(* Arithmetic of the image                                                 *)

\* jdiv_round_up
LEMMA CeilIs ==
  ASSUME NEW a \in Int, NEW b \in Nat \ {0}, NEW x \in Int
  PROVE  /\ CeilDiv(a, b) \in Int
         /\ x < CeilDiv(a, b) <=> x * b < a
<1> DEFINE d == (a + b - 1) \div b
<1>1. a + b - 1 \in Int
  OBVIOUS
<1>2. d \in Int /\ d * b <= a + b - 1 /\ a + b - 1 < d * b + b
  BY <1>1, DivIs
<1>3. (x + 1) * b = x * b + b /\ x * b \in Int /\ d * b \in Int
  BY <1>2
<1> HIDE DEF d
<1>4. x < d => x * b < a
  <2> HAVE x < d
  <2>1. (x + 1) * b <= d * b
    BY <1>2, ProductOrder
  <2> QED BY <2>1, <1>2, <1>3
<1>5. x * b < a => x < d
  <2> HAVE x * b < a
  <2>1. x * b < d * b
    BY <1>2, <1>3
  <2> QED BY <2>1, <1>2, ProductOrder
<1> QED BY <1>2, <1>4, <1>5 DEF d, CeilDiv

\* What RowsAssumption says of the image at hand.
LEMMA ImageFacts ==
  ASSUME image \in Images, output_height \in image.Heights
  PROVE  /\ M \in Nat \ {0} /\ V \in Nat \ {0} /\ output_height \in Nat \ {0}
         /\ \A c \in Component : RowGroup[c] \in Nat \ {0} /\ V % RowGroup[c] = 0
         /\ 1 \in Component
         /\ NeedContext \in BOOLEAN /\ Merged \in BOOLEAN /\ WholeImage \in BOOLEAN
         /\ NeedContext => M >= 2 /\ ~Merged
         /\ Merged => V <= 2
         /\ "twopass" \in image.PassKinds => WholeImage
         /\ image.PassKinds \subseteq {"thru", "onepass", "twopass"}
         /\ image.MaxLines \subseteq Nat \ {0}
BY RowsAssumption DEF M, V, RowGroup, Component, NeedContext, Merged, WholeImage

\* An iMCU row lies at least partly in the image if it is one of those counted.
LEMMA IMCUsInImage ==
  ASSUME image \in Images, output_height \in image.Heights, NEW n \in Int
  PROVE  /\ total_iMCU_rows \in Nat \ {0}
         /\ M * V \in Nat \ {0}
         /\ n < total_iMCU_rows <=> n * M * V < output_height
<1>1. M * V \in Nat \ {0} /\ output_height \in Nat \ {0}
  BY ImageFacts, ProductOrder
<1>2. n * M * V = n * (M * V)
  BY ImageFacts
<1>3. n < total_iMCU_rows <=> n * (M * V) < output_height
  BY <1>1, CeilIs DEF total_iMCU_rows
<1>4. total_iMCU_rows \in Int /\ 0 < total_iMCU_rows
  BY <1>1, CeilIs DEF total_iMCU_rows
<1> QED BY <1>1, <1>2, <1>3, <1>4

\* The rows of the postprocessor's array are whole strips.
LEMMA StripsInArray ==
  ASSUME image \in Images, output_height \in image.Heights, NEW k \in Int
  PROVE  /\ rows_in_array \in Nat /\ output_height <= rows_in_array /\ V <= rows_in_array
         /\ k * V < output_height => k * V + V <= rows_in_array
         /\ output_height <= k * V => rows_in_array <= k * V
<1> DEFINE t == CeilDiv(output_height, V)
<1>1. V \in Nat \ {0} /\ output_height \in Nat \ {0}
  BY ImageFacts
<1>2. t \in Int /\ \A x \in Int : x < t <=> x * V < output_height
  BY <1>1, CeilIs
<1> HIDE DEF t
<1>3. rows_in_array = t * V
  BY DEF rows_in_array, t
<1>4. 0 < t
  BY <1>1, <1>2
<1>5. t * V \in Int /\ output_height <= t * V
  BY <1>1, <1>2
<1>6. k < t => k * V + V <= t * V
  <2>1. (k + 1) * V = k * V + V
    BY <1>1
  <2> QED BY <1>1, <1>2, <2>1, ProductOrder
<1>7. t <= k => t * V <= k * V
  BY <1>1, <1>2, ProductOrder
<1>8. V <= t * V
  <2>1. 1 * V <= t * V
    BY <1>1, <1>2, <1>4, ProductOrder
  <2> QED BY <2>1, <1>1
<1> QED BY <1>1, <1>2, <1>3, <1>4, <1>5, <1>6, <1>7, <1>8

\* The sample rows of a component are as many as the image needs.
LEMMA SamplesInImage ==
  ASSUME image \in Images, output_height \in image.Heights,
         NEW c \in Component, NEW n \in Int, NEW x \in Int
  PROVE  /\ downsampled_height(c) \in Nat \ {0}
         /\ x < downsampled_height(c) <=> x * V < output_height * RowGroup[c]
         /\ n * RowGroup[c] < downsampled_height(c) <=> n * V < output_height
<1>1. V \in Nat \ {0} /\ output_height \in Nat \ {0} /\ RowGroup[c] \in Nat \ {0}
  BY ImageFacts
<1>2. output_height * RowGroup[c] \in Nat \ {0}
  BY <1>1, ProductOrder
<1>3. /\ downsampled_height(c) \in Int
      /\ \A y \in Int : y < downsampled_height(c) <=> y * V < output_height * RowGroup[c]
  BY <1>1, <1>2, CeilIs, SMTT(30) DEF downsampled_height
<1>4. 0 < downsampled_height(c)
  BY <1>1, <1>2, <1>3
<1>5. (n * RowGroup[c]) * V = (n * V) * RowGroup[c] /\ n * RowGroup[c] \in Int /\ n * V \in Int
  BY <1>1
<1>6. (n * V) * RowGroup[c] < output_height * RowGroup[c] <=> n * V < output_height
  BY <1>1, <1>5, ProductOrder
<1> QED BY <1>1, <1>3, <1>4, <1>5, <1>6

\* set_bottom_pointers: the last iMCU row has the sample rows that remain.
LEMMA RowsLeftIs ==
  ASSUME image \in Images, output_height \in image.Heights, NEW c \in Component
  PROVE  /\ RowsLeft(c) \in 1 .. M * RowGroup[c]
         /\ RowsLeft(c) = downsampled_height(c) - (total_iMCU_rows - 1) * (M * RowGroup[c])
<1> DEFINE h == M * RowGroup[c]
           d == downsampled_height(c)
           t == total_iMCU_rows
<1>1. M \in Nat \ {0} /\ V \in Nat \ {0} /\ RowGroup[c] \in Nat \ {0}
  BY ImageFacts
<1>2. h \in Nat \ {0}
  BY <1>1, ProductOrder
<1>3. t \in Nat \ {0} /\ d \in Nat \ {0}
  BY IMCUsInImage, SamplesInImage, 0 \in Int
<1>4. ASSUME NEW n \in Int PROVE n < t <=> n * h < d
  <2>1. n < t <=> n * M * V < output_height
    BY IMCUsInImage
  <2>2. (n * M) * RowGroup[c] < d <=> (n * M) * V < output_height
    BY <1>1, SamplesInImage
  <2>3. n * h = (n * M) * RowGroup[c]
    BY <1>1
  <2> QED BY <2>1, <2>2, <2>3
<1>5. (t - 1) * h < d /\ d <= t * h /\ t * h = (t - 1) * h + h /\ (t - 1) * h \in Int
  BY <1>2, <1>3, <1>4
<1> HIDE DEF h, d, t
<1> DEFINE r == d - (t - 1) * h
<1>6. r \in 1 .. h
  BY <1>2, <1>3, <1>5
<1>11. d % h = d - (d \div h) * h
  BY <1>2, <1>3, RemainderIs
<1>7. r < h => d % h = r
  <2> HAVE r < h
  <2>1. d \div h = t - 1
    BY <1>2, <1>3, <1>5, DivUnique
  <2> QED BY <2>1, <1>11, <1>2, <1>3
<1>8. r = h => d % h = 0
  <2> HAVE r = h
  <2>1. d = t * h
    BY <1>2, <1>3, <1>5
  <2>2. d \div h = t
    BY <1>2, <1>3, <2>1, DivUnique
  <2>3. (d \div h) * h = d
    BY <2>1, <2>2
  <2> QED BY <2>3, <1>11, <1>3
<1>9. RowsLeft(c) = r
  <2>1. RowsLeft(c) = IF d % h = 0 THEN h ELSE d % h
    BY <1>1 DEF RowsLeft, d, h
  <2> QED BY <2>1, <1>6, <1>7, <1>8, <1>2, <1>3
<1>10. r = downsampled_height(c) - (total_iMCU_rows - 1) * (M * RowGroup[c]) /\ h = M * RowGroup[c]
  BY DEF r, d, t, h
<1> QED BY <1>6, <1>9, <1>10

\* The last iMCU row has as many row groups as the image reaches into.
LEMMA LastGroupsIs ==
  ASSUME image \in Images, output_height \in image.Heights
  PROVE  /\ LastGroups \in 1 .. M
         /\ Above(total_iMCU_rows - 1, LastGroups - 1) < output_height
         /\ output_height <= Above(total_iMCU_rows - 1, LastGroups)
<1> DEFINE rg == RowGroup[1]
           q == (RowsLeft(1) - 1) \div rg
           d == downsampled_height(1)
           t == total_iMCU_rows
<1>1. M \in Nat \ {0} /\ V \in Nat \ {0} /\ rg \in Nat \ {0} /\ 1 \in Component
  BY ImageFacts
<1>2. t \in Nat \ {0} /\ d \in Nat \ {0}
  BY <1>1, IMCUsInImage, SamplesInImage, 0 \in Int
<1>3. RowsLeft(1) \in 1 .. M * rg /\ RowsLeft(1) = d - (t - 1) * (M * rg) /\ M * rg \in Int
  BY <1>1, RowsLeftIs
<1>4. q \in Int /\ q * rg <= RowsLeft(1) - 1 /\ RowsLeft(1) - 1 < q * rg + rg
  <2>1. RowsLeft(1) - 1 \in Int
    BY <1>3
  <2> QED BY <1>1, <2>1, DivIs
<1>5. LastGroups = q + 1
  BY DEF LastGroups, RowsLeft
<1> HIDE DEF rg, q, d, t
<1>6. (q + 1) * rg = q * rg + rg /\ q * rg \in Int
  BY <1>1, <1>4
<1>7. 0 <= q
  <2>1. 0 * rg < (q + 1) * rg
    BY <1>1, <1>3, <1>4, <1>6
  <2> QED BY <1>1, <1>4, <2>1, ProductOrder
<1>8. q < M
  <2>1. q * rg < M * rg
    BY <1>1, <1>3, <1>4, <1>6
  <2> QED BY <1>1, <1>4, <2>1, ProductOrder
<1> DEFINE n == (t - 1) * M + q
<1>9. n \in Int /\ n * rg = (t - 1) * (M * rg) + q * rg /\ (n + 1) * rg = n * rg + rg
  BY <1>1, <1>2, <1>4
<1>10. n * rg < d /\ d <= (n + 1) * rg
  <2> DEFINE a == (t - 1) * (M * rg)
             b == q * rg
             e == n * rg
  <2>1. a \in Int /\ b \in Int /\ e = a + b
    BY <1>1, <1>2, <1>6, <1>9
  <2>2. (n + 1) * rg = e + rg /\ d = RowsLeft(1) + a /\ b <= RowsLeft(1) - 1
        /\ RowsLeft(1) - 1 < b + rg /\ RowsLeft(1) \in Int
    <3>1. ASSUME NEW x \in Int, RowsLeft(1) = d - x PROVE d = RowsLeft(1) + x
      BY <1>2, <3>1
    <3> QED BY <1>2, <1>3, <1>4, <1>9, <2>1, <3>1
  <2> HIDE DEF a, b, e
  <2>3. e < d /\ d <= e + rg
    BY <2>1, <2>2, <1>1, <1>2
  <2> QED BY <2>2, <2>3 DEF e
<1>11. n * V < output_height /\ output_height <= (n + 1) * V
  <2>1. \A x \in Int : x * rg < d <=> x * V < output_height
    BY <1>1, SamplesInImage DEF rg, d
  <2>2. (n + 1) * V \in Int /\ output_height \in Int /\ n + 1 \in Int /\ (n + 1) * rg \in Int
    BY <1>1, <1>9, ImageFacts
  <2> QED BY <2>1, <2>2, <1>2, <1>9, <1>10
<1>12. Above(total_iMCU_rows - 1, q) = n * V /\ Above(total_iMCU_rows - 1, q + 1) = (n + 1) * V
  BY <1>1, <1>2, <1>4 DEF Above, t
<1>13. LastGroups - 1 = q
  BY <1>4, <1>5
<1> QED BY <1>5, <1>7, <1>8, <1>11, <1>12, <1>13, <1>4, <1>1

\* The scanlines above the next row group, and above the next iMCU row.
LEMMA AboveNext ==
  ASSUME image \in Images, output_height \in image.Heights, NEW n \in Int, NEW g \in Int
  PROVE  /\ Above(n, g) \in Int
         /\ Above(n, g + 1) = Above(n, g) + V
         /\ Above(n, M) = Above(n + 1, 0)
         /\ Above(n, M - 1) = Above(n + 1, -1)
         /\ Above(n, 0) = n * M * V
BY ImageFacts DEF Above

-------------------------------------------------------------------------------
(* One call of the upsampler                                               *)

LEMMA LenIs ==
  ASSUME NEW n \in Nat, NEW f, f = [k \in 1 .. n |-> f[k]]
  PROVE  Len(f) = n
OBVIOUS


\* It fills at least one row, no more than there is room for and than there are
\* left in the image, and counts a row group as consumed when all its rows are
\* filled.
Counted(u, s, room) ==
  /\ s \in Nat /\ 1 <= s /\ s <= room
  /\ u.rows = [k \in 1 .. s |-> u.rows[k]]
  /\ Part \in Nat /\ Part + s <= V /\ Done + s <= output_height
  /\ u.consumed \in {0, 1}
  /\ u.consumed = 1 => Part + s = V
  /\ PartOf(u.next_row_out, u.spare_full) = IF u.consumed = 1 THEN 0 ELSE Part + s
  /\ u.next_row_out \in 0 .. V /\ (~Merged => u.next_row_out >= 1)
  /\ u.spare_full \in BOOLEAN /\ (u.spare_full => V = 2)
  /\ u.rows_to_go \in 0 .. output_height
  /\ ~(Merged /\ V = 1) => u.rows_to_go = output_height - Done - s

LEMMA UpsampleCounts ==
  ASSUME TypeOK, MoreTypes, UpsamplerPhase, Decoding, Done < output_height,
         NEW room \in Nat \ {0}
  PROVE  Counted(Upsample(room), Len(Upsample(room).rows), room)
<1> DEFINE u == Upsample(room)
           s == Len(u.rows)
<1> SUFFICES Counted(u, s, room)
  OBVIOUS
<1>1. /\ V \in Nat \ {0} /\ output_height \in Nat \ {0} /\ Merged \in BOOLEAN
      /\ Merged => V <= 2
      /\ next_row_out \in 0 .. V /\ spare_full \in BOOLEAN
      /\ rows_to_go \in 0 .. output_height /\ Done \in Nat
  BY ImageFacts DEF TypeOK, MoreTypes, Done
<1>2. /\ ~Merged => next_row_out >= 1
      /\ spare_full => V = 2
      /\ ~(Merged /\ V = 1) => rows_to_go = output_height - Done
  BY DEF UpsamplerPhase
<1>3. CASE ~Merged
  <2> DEFINE first == IF next_row_out >= V THEN 0 ELSE next_row_out
             num == Min2(LimitedToImage(V - first), room)
  <2>1. u = SepUpsample(room)
    BY <1>3 DEF Upsample
  <2>2. /\ u.next_row_out = first + num /\ u.rows_to_go = rows_to_go - num
        /\ u.spare_full = spare_full
        /\ u.consumed = IF first + num >= V THEN 1 ELSE 0
        /\ u.rows = [k \in 1 .. num |-> u.rows[k]]
    BY <2>1 DEF SepUpsample, GroupEmptied
  <2>3. first \in 0 .. V - 1 /\ Part = first
    BY <1>1, <1>2, <1>3 DEF Part, PartOf
  <2>4. num \in 1 .. V - first /\ num <= room /\ num <= rows_to_go
    BY <1>1, <1>2, <1>3, <2>3 DEF Min2, LimitedToImage
  <2> HIDE DEF first, num
  <2>5. s = num
    BY <2>2, <2>4, LenIs
  <2> HIDE DEF u, s
  <2>6. PartOf(u.next_row_out, u.spare_full) = IF u.consumed = 1 THEN 0 ELSE Part + s
    BY <2>2, <2>3, <2>4, <2>5, <1>1, <1>3 DEF PartOf
  <2>7. /\ s \in Nat /\ 1 <= s /\ s <= room
        /\ u.rows = [k \in 1 .. s |-> u.rows[k]]
    BY <2>2, <2>4, <2>5, <1>1, <2>3
  <2>8. /\ Part \in Nat /\ Part + s <= V
        /\ u.consumed \in {0, 1} /\ (u.consumed = 1 => Part + s = V)
    BY <2>2, <2>3, <2>4, <2>5, <1>1
  <2>9. /\ Done + s <= output_height
        /\ u.rows_to_go \in 0 .. output_height
        /\ u.rows_to_go = output_height - Done - s
    BY <2>2, <2>4, <2>5, <1>1, <1>2, <1>3, <2>7
  <2>10. /\ u.next_row_out \in 1 .. V
         /\ u.spare_full \in BOOLEAN /\ (u.spare_full => V = 2)
    BY <2>2, <2>3, <2>4, <1>1, <1>2, SMTT(30)
  <2> QED BY <2>6, <2>7, <2>8, <2>9, <2>10, <1>1, <1>3 DEF Counted
<1>4. CASE Merged /\ V = 2
  <2> DEFINE num == IF spare_full THEN 1 ELSE Min2(LimitedToImage(2), room)
  <2>1. u = Merged2v(room)
    BY <1>4 DEF Upsample
  <2>2. /\ u.next_row_out = next_row_out /\ u.rows_to_go = rows_to_go - num
        /\ u.consumed = IF ~spare_full /\ num < 2 THEN 0 ELSE 1
    BY <2>1 DEF Merged2v, SpareNeeded
  <2>3. u.spare_full \in BOOLEAN /\ (u.spare_full <=> ~spare_full /\ num < 2)
    <3>1. u.spare_full = SpareNeeded(num)
      BY <2>1 DEF Merged2v
    <3>2. SpareNeeded(num) \in BOOLEAN
      BY Zenon DEF SpareNeeded
    <3>3. SpareNeeded(num) <=> ~spare_full /\ num < 2
      BY DEF SpareNeeded
    <3> HIDE DEF u, num
    <3> QED BY <3>1, <3>2, <3>3, Zenon
  <2>4. Part = IF spare_full THEN 1 ELSE 0
    BY <1>1, <1>4 DEF Part, PartOf
  <2>5. num \in 1 .. 2 /\ num <= room /\ num <= rows_to_go /\ (spare_full => num = 1)
    BY <1>1, <1>2, <1>4 DEF Min2, LimitedToImage
  <2>6. u.rows = [k \in 1 .. num |-> u.rows[k]]
    <3>1. CASE spare_full
      <4>1. u.rows = <<spare_row>>
        BY <2>1, <3>1 DEF Merged2v
      <4> QED BY <3>1, <4>1
    <3>2. CASE ~spare_full
      <4>1. u.rows = [k \in 1 .. num |-> MergedRow(k - 1)]
        BY <2>1, <3>2 DEF Merged2v
      <4> QED BY <4>1
    <3> QED BY <3>1, <3>2
  <2> HIDE DEF num
  <2>7. s = num
    BY <2>5, <2>6, LenIs
  <2> HIDE DEF u, s
  <2>8. PartOf(u.next_row_out, u.spare_full) = IF u.consumed = 1 THEN 0 ELSE Part + s
    BY <2>2, <2>3, <2>4, <2>5, <2>7, <1>1, <1>4 DEF PartOf
  <2> QED BY <2>2, <2>3, <2>4, <2>5, <2>6, <2>7, <2>8, <1>1, <1>2, <1>4 DEF Counted
<1>5. CASE Merged /\ V = 1
  <2>1. u = Merged1v
    BY <1>5 DEF Upsample
  <2>2. /\ u.next_row_out = next_row_out /\ u.rows_to_go = rows_to_go
        /\ u.spare_full = spare_full /\ u.consumed = 1
        /\ u.rows = [k \in 1 .. 1 |-> u.rows[k]]
    BY <2>1 DEF Merged1v
  <2>3. s = 1
    BY <2>2, LenIs
  <2>4. Part = 0 /\ PartOf(u.next_row_out, u.spare_full) = 0
    BY <1>1, <1>2, <1>5, <2>2 DEF Part, PartOf
  <2> HIDE DEF u, s
  <2> QED BY <2>2, <2>3, <2>4, <1>1, <1>2, <1>5 DEF Counted
<1> QED BY <1>1, <1>3, <1>4, <1>5

-------------------------------------------------------------------------------
(* A step of a decoding pass                                               *)

\* While the image is the same, so is all that is computed from it.
LEMMA SameImage ==
  ASSUME UNCHANGED <<image, output_height>>
  PROVE  /\ M' = M /\ V' = V /\ RowGroup' = RowGroup /\ Component' = Component
         /\ NeedContext' = NeedContext /\ Merged' = Merged /\ WholeImage' = WholeImage
         /\ total_iMCU_rows' = total_iMCU_rows /\ rows_in_array' = rows_in_array
         /\ LastGroups' = LastGroups
         /\ \A n, g : Above(n, g)' = Above(n, g)
         /\ \A c : /\ downsampled_height(c)' = downsampled_height(c)
                   /\ BufferRow(c)' = BufferRow(c)
BY DEF M, V, RowGroup, Component, NeedContext, Merged, WholeImage, total_iMCU_rows,
       rows_in_array, LastGroups, RowsLeft, Above, downsampled_height, BufferRow, Groups

\* What the types say of the numbers.
LEMMA NumberFacts ==
  ASSUME BInv
  PROVE  /\ image \in Images /\ output_height \in image.Heights
         /\ M \in Nat \ {0} /\ V \in Nat \ {0} /\ output_height \in Nat \ {0}
         /\ output_scanline \in Nat /\ out_row_ctr \in Nat /\ out_rows_avail \in Nat
         /\ Done \in Nat /\ Part \in 0 .. V
         /\ starting_row \in 0 .. rows_in_array /\ next_row \in 0 .. V - 1
         /\ first_undef_row \in 0 .. rows_in_array /\ rows_in_array \in Nat
         /\ total_iMCU_rows \in Nat \ {0} /\ output_iMCU_row \in 0 .. total_iMCU_rows
         /\ rowgroup_ctr \in 0 .. M + 2
<1>1. image \in Images /\ output_height \in image.Heights
  BY DEF BInv, TypeOK
<1>2. rows_in_array \in Nat /\ total_iMCU_rows \in Nat \ {0}
  BY <1>1, StripsInArray, IMCUsInImage, 0 \in Int
<1>3. M \in Nat \ {0} /\ V \in Nat \ {0} /\ output_height \in Nat \ {0} /\ (Merged => V <= 2)
  BY <1>1, ImageFacts
<1>4. Part \in 0 .. V
  BY <1>3 DEF BInv, TypeOK, MoreTypes, UpsamplerPhase, Part, PartOf
<1> QED BY <1>1, <1>2, <1>3, <1>4 DEF BInv, TypeOK, MoreTypes, Done

\* There is room for what the upsampler fills.
LEMMA RoomThere ==
  ASSUME BInv, InProcess, Decoding
  PROVE  Room \in Nat \ {0} /\ Room <= (IF process_data = "prepass" THEN V - next_row
                                        ELSE out_rows_avail - out_row_ctr)
<1>1. /\ V \in Nat \ {0} /\ next_row \in 0 .. V - 1
      /\ out_row_ctr \in Nat /\ out_rows_avail \in Nat
  BY NumberFacts
<1>2. process_data # "prepass" => out_row_ctr < out_rows_avail
  BY DEF BInv, CallPhase, InProcess
<1> QED BY <1>1, <1>2 DEF Room, Min2, strip_height

\* The strips of a dummy pass follow what is done.
LEMMA SavedStrips ==
  ASSUME BInv, InProcess, process_data = "prepass", NEW n \in Nat \ {0}, n <= V - next_row,
         Advance(n), out_row_ctr' = out_row_ctr + n,
         first_undef_row' = IF next_row = 0 /\ first_undef_row < starting_row + strip_height
                              THEN starting_row + strip_height ELSE first_undef_row,
         UNCHANGED <<image, output_height, process_data, output_scanline>>,
         pc' \in {"process", "return"}
  PROVE  /\ StripPosition'
         /\ starting_row' \in 0 .. rows_in_array' /\ next_row' \in 0 .. V' - 1
         /\ first_undef_row' \in 0 .. rows_in_array'
<1>1. V' = V /\ rows_in_array' = rows_in_array /\ image' = image
  BY SameImage
<1>2. /\ V \in Nat \ {0} /\ starting_row \in Nat /\ next_row \in 0 .. V - 1
      /\ first_undef_row \in 0 .. rows_in_array /\ rows_in_array \in Nat
      /\ out_row_ctr \in Nat /\ output_scanline \in Nat
      /\ Done < output_height /\ output_height \in Nat
  BY NumberFacts DEF BInv, CallPhase, InProcess
<1>3. /\ "twopass" \in image.PassKinds
      /\ Done = starting_row + next_row
      /\ starting_row <= first_undef_row
      /\ next_row > 0 => starting_row + V <= first_undef_row
  BY DEF BInv, StripPosition
<1>4. PICK k \in 0 .. starting_row : starting_row = k * V
  BY DEF BInv, StripPosition
<1>5. starting_row + V <= rows_in_array
  <2>1. k \in Int /\ k * V < output_height
    BY <1>2, <1>3, <1>4
  <2> QED BY <2>1, <1>4, NumberFacts, StripsInArray
<1>6. Done' = Done + n
  BY <1>2 DEF Done, InProcess
<1>7. IF next_row + n = V
        THEN starting_row' = starting_row + V /\ next_row' = 0
        ELSE starting_row' = starting_row /\ next_row' = next_row + n /\ next_row + n < V
  BY <1>2 DEF Advance, strip_height
<1>8. starting_row + V <= first_undef_row' /\ first_undef_row' <= rows_in_array
      /\ first_undef_row' \in Nat
  BY <1>2, <1>3, <1>5 DEF strip_height
<1>9. Done' = starting_row' + next_row'
  BY <1>2, <1>3, <1>6, <1>7
<1>10. \E j \in 0 .. starting_row' : starting_row' = j * V
  <2>1. (k + 1) * V = k * V + V /\ k + 1 <= starting_row + V
    BY <1>2, <1>4
  <2>2. CASE next_row + n = V
    <3>1. k + 1 \in 0 .. starting_row'
      BY <2>1, <2>2, <1>2, <1>4, <1>7
    <3>2. starting_row' = (k + 1) * V
      BY <2>1, <2>2, <1>4, <1>7
    <3> QED BY <3>1, <3>2
  <2>3. CASE next_row + n # V
    BY <2>3, <1>4, <1>7
  <2> QED BY <2>2, <2>3
<1>11. starting_row' \in 0 .. rows_in_array /\ next_row' \in 0 .. V - 1
       /\ starting_row' <= first_undef_row'
       /\ (next_row' > 0 => starting_row' + V <= first_undef_row')
  BY <1>2, <1>5, <1>7, <1>8
<1> QED BY <1>1, <1>3, <1>8, <1>9, <1>10, <1>11 DEF StripPosition

\* What one call of the upsampler does to the counters.
UpsampledRows == Len(Upsample(Room).rows)
Consumed == Upsample(Room).consumed

LEMMA PostCounts ==
  ASSUME BInv, InProcess, Decoding, PostProcess(Upsample(Room)),
         UNCHANGED <<image, output_height, process_data, output_scanline>>,
         pc' \in {"process", "return"}
  PROVE  /\ UpsampledRows \in Nat \ {0} /\ Consumed \in {0, 1}
         /\ Part + UpsampledRows <= V
         /\ Part' = IF Consumed = 1 THEN 0 ELSE Part + UpsampledRows
         /\ Consumed = 1 => Part + UpsampledRows = V
         /\ out_row_ctr' = out_row_ctr + UpsampledRows
         /\ Done' = Done + UpsampledRows /\ Done' <= output_height
         /\ UpsamplerPhase'
         /\ next_row_out' \in 0 .. V /\ rows_to_go' \in 0 .. output_height
         /\ spare_full' \in BOOLEAN
         /\ StripPosition'
         /\ starting_row' \in 0 .. rows_in_array' /\ next_row' \in 0 .. V' - 1
         /\ first_undef_row' \in 0 .. rows_in_array'
<1> DEFINE u == Upsample(Room)
           s == UpsampledRows
<1>1. V' = V /\ rows_in_array' = rows_in_array /\ Merged' = Merged
  BY SameImage
<1>2. Room \in Nat \ {0} /\ (process_data = "prepass" => Room <= V - next_row)
  BY RoomThere
<1>3. Counted(u, s, Room)
  <2>1. Done < output_height
    BY DEF BInv, CallPhase, InProcess
  <2> QED BY <2>1, <1>2, UpsampleCounts DEF BInv, UpsampledRows
<1>4. /\ next_row_out' = u.next_row_out /\ rows_to_go' = u.rows_to_go
      /\ spare_full' = u.spare_full
      /\ IF process_data = "prepass" THEN SaveRows(u.rows)
         ELSE Emit(u.rows) /\ UNCHANGED postVars
  BY DEF PostProcess
<1>5. out_row_ctr' = out_row_ctr + s
  BY <1>4 DEF SaveRows, Emit, UpsampledRows
<1>6. s \in Nat \ {0} /\ Consumed \in {0, 1} /\ s <= Room
  BY <1>3 DEF Counted, Consumed
<1>7. Done' = Done + s
  BY <1>5, <1>6, NumberFacts DEF Done, InProcess
<1>8. Part' = IF Consumed = 1 THEN 0 ELSE Part + s
  <2>1. Part' = PartOf(u.next_row_out, u.spare_full)
    BY <1>1, <1>4 DEF Part, PartOf
  <2> QED BY <2>1, <1>3 DEF Counted, Consumed
<1>9. /\ Part + s <= V /\ (Consumed = 1 => Part + s = V)
      /\ Done' <= output_height
      /\ next_row_out' \in 0 .. V /\ rows_to_go' \in 0 .. output_height
      /\ spare_full' \in BOOLEAN
  BY <1>3, <1>4, <1>7 DEF Counted, Consumed
<1>10. UpsamplerPhase'
  <2>1. ~Merged' => next_row_out' >= 1
    BY <1>1, <1>3, <1>4 DEF Counted
  <2>2. spare_full' => V' = 2
    BY <1>1, <1>3, <1>4 DEF Counted
  <2>3. ~(Merged' /\ V' = 1) => rows_to_go' = output_height' - Done'
    <3>1. ~(Merged /\ V = 1) => rows_to_go' = output_height - Done - s
      BY <1>3, <1>4 DEF Counted
    <3> HIDE DEF u, s
    <3>2. output_height - Done - s = output_height' - Done'
      BY <1>6, <1>7, NumberFacts
    <3> QED BY <3>1, <3>2, <1>1
  <2> QED BY <2>1, <2>2, <2>3, <1>9 DEF UpsamplerPhase
<1>11. CASE process_data = "prepass"
  <2>1. SaveRows(u.rows) /\ s = Len(u.rows)
    BY <1>4, <1>11 DEF UpsampledRows
  <2>2. /\ Advance(s)
        /\ first_undef_row' = IF next_row = 0 /\ first_undef_row < starting_row + strip_height
                              THEN starting_row + strip_height ELSE first_undef_row
    BY <2>1 DEF SaveRows
  <2>3. s <= V - next_row
    BY <1>2, <1>6, <1>11, NumberFacts
  <2> HIDE DEF u, s
  <2>4. /\ StripPosition'
        /\ starting_row' \in 0 .. rows_in_array' /\ next_row' \in 0 .. V' - 1
        /\ first_undef_row' \in 0 .. rows_in_array'
    BY <2>2, <2>3, <1>5, <1>6, <1>11, SavedStrips
  <2> QED BY <2>4, <1>5, <1>6, <1>7, <1>8, <1>9, <1>10 DEF s
<1>12. CASE process_data # "prepass"
  <2>1. UNCHANGED postVars
    BY <1>4, <1>12
  <2>2. /\ starting_row' \in 0 .. rows_in_array' /\ next_row' \in 0 .. V' - 1
        /\ first_undef_row' \in 0 .. rows_in_array'
    BY <2>1, <1>1, NumberFacts DEF postVars
  <2>3. StripPosition'
    BY <1>12 DEF StripPosition, Decoding
  <2> HIDE DEF u, s
  <2> QED BY <2>2, <2>3, <1>5, <1>6, <1>7, <1>8, <1>9, <1>10 DEF s
<1> QED BY <1>11, <1>12

\* The conjuncts that an upsampling step changes in the same way everywhere.
LEMMA UpsampleStep ==
  ASSUME BInv, InProcess, Decoding, PostProcess(Upsample(Room)),
         UNCHANGED <<image, output_height, process_data, output_scanline, out_rows_avail,
                     suspended, output_iMCU_row, buffer, iMCU_row_ctr>>,
         pc' \in {"process", "return"},
         pc' = "process" => /\ NeedContext /\ out_row_ctr' < out_rows_avail
                            /\ Done' < output_height,
         rowgroup_ctr' \in 0 .. M + 2, rowgroups_avail' \in 0 .. M + 2,
         buffer_full' \in BOOLEAN, whichptr' \in {0, 1},
         context_state' \in {"PREPARE_FOR_IMCU", "PROCESS_IMCU", "POSTPONED_ROW"}
  PROVE  TypeOK' /\ MoreTypes' /\ CallPhase' /\ UpsamplerPhase' /\ StripPosition'
<1>1. /\ M' = M /\ V' = V /\ NeedContext' = NeedContext /\ rows_in_array' = rows_in_array
      /\ total_iMCU_rows' = total_iMCU_rows /\ Component' = Component
      /\ \A c : /\ downsampled_height(c)' = downsampled_height(c)
                /\ BufferRow(c)' = BufferRow(c)
  BY SameImage
<1>2. /\ UpsampledRows \in Nat \ {0} /\ out_row_ctr' = out_row_ctr + UpsampledRows
      /\ UpsamplerPhase' /\ StripPosition'
      /\ next_row_out' \in 0 .. V /\ rows_to_go' \in 0 .. output_height
      /\ spare_full' \in BOOLEAN
      /\ starting_row' \in 0 .. rows_in_array' /\ next_row' \in 0 .. V' - 1
      /\ first_undef_row' \in 0 .. rows_in_array'
  BY PostCounts
<1>3. TypeOK'
  <2>1. \A c \in Component' : \A b \in BufferRow(c)' :
          buffer'[c][b] \in {Garbage} \cup 0 .. downsampled_height(c)' - 1
    BY <1>1 DEF BInv, TypeOK
  <2>2. /\ image' \in Images /\ output_height' \in image'.Heights
        /\ process_data' \in {"none", "thru", "onepass", "prepass", "crank"}
        /\ pc' \in {"idle", "process", "return"}
        /\ output_iMCU_row' \in 0 .. total_iMCU_rows'
    BY <1>1 DEF BInv, TypeOK
  <2> QED BY <2>1, <2>2, <1>1, <1>2 DEF TypeOK
<1>4. MoreTypes'
  BY <1>2, NumberFacts DEF BInv, MoreTypes
<1>5. CallPhase'
  <2>1. out_row_ctr' >= 1
    BY <1>2, NumberFacts
  <2>2. Decoding' /\ process_data' # "none"
    BY DEF Decoding
  <2> QED BY <1>1, <2>1, <2>2 DEF CallPhase
<1> QED BY <1>2, <1>3, <1>4, <1>5

LEMMA SuspendStep == BInv /\ Suspend => BInv'
<1> SUFFICES ASSUME BInv, Suspend PROVE BInv'
  OBVIOUS
<1>1. UNCHANGED <<image, output_height, process_data, output_scanline, out_rows_avail,
                  out_row_ctr, mainVars, upsampleVars, postVars, lines>>
      /\ suspended' = TRUE /\ pc' = "return" /\ pc = "process" /\ process_data # "none"
  BY DEF Suspend, InProcess
<1>2. /\ M' = M /\ V' = V /\ NeedContext' = NeedContext /\ rows_in_array' = rows_in_array
      /\ total_iMCU_rows' = total_iMCU_rows /\ Component' = Component /\ Merged' = Merged
      /\ LastGroups' = LastGroups
      /\ \A n, g : Above(n, g)' = Above(n, g)
      /\ \A c : /\ downsampled_height(c)' = downsampled_height(c)
                /\ BufferRow(c)' = BufferRow(c)
  BY <1>1, SameImage
<1>3. Done' = Done /\ Part' = Part /\ Decoding' = Decoding
  BY <1>1, <1>2 DEF Done, Part, PartOf, Decoding, upsampleVars
<1>4. TypeOK'
  BY <1>1, <1>2 DEF BInv, TypeOK, mainVars, upsampleVars, postVars
<1>5. MoreTypes'
  BY <1>1 DEF BInv, MoreTypes, mainVars, upsampleVars, postVars
<1>6. CallPhase'
  BY <1>1 DEF CallPhase
<1>7. UpsamplerPhase'
  BY <1>1, <1>2, <1>3 DEF BInv, UpsamplerPhase, upsampleVars
<1>8. SimplePosition'
  BY <1>1, <1>2, <1>3 DEF BInv, SimplePosition, mainVars
<1>9. ContextPosition'
  BY <1>1, <1>2, <1>3 DEF BInv, ContextPosition, mainVars
<1>10. StripPosition'
  BY <1>1, <1>2, <1>3 DEF BInv, StripPosition, postVars
<1> QED BY <1>4, <1>5, <1>6, <1>7, <1>8, <1>9, <1>10 DEF BInv

LEMMA SimpleMainStep == BInv /\ SimpleMain => BInv'
<1> SUFFICES ASSUME BInv, SimpleMain PROVE BInv'
  OBVIOUS
<1> DEFINE done == GroupsDone(Upsample(Room))
           n == output_iMCU_row
<1>1. /\ InProcess /\ Decoding /\ ~NeedContext /\ buffer_full
      /\ PostProcess(Upsample(Room))
      /\ rowgroup_ctr' = IF done >= M THEN 0 ELSE done
      /\ pc' = "return"
      /\ UNCHANGED <<image, output_height, process_data, output_scanline, out_rows_avail,
                     suspended, output_iMCU_row, buffer, xbuffer, whichptr,
                     rowgroups_avail, context_state, iMCU_row_ctr>>
  BY DEF SimpleMain, InProcess, Decoding, BInv, TypeOK
<1>2. buffer_full' = IF done >= M THEN FALSE ELSE buffer_full
  BY DEF SimpleMain
<1>3. /\ M' = M /\ V' = V /\ NeedContext' = NeedContext
      /\ \A x, g : Above(x, g)' = Above(x, g)
  BY <1>1, SameImage
<1>4. /\ UpsampledRows \in Nat \ {0} /\ Consumed \in {0, 1}
      /\ Part + UpsampledRows <= V
      /\ Part' = IF Consumed = 1 THEN 0 ELSE Part + UpsampledRows
      /\ Consumed = 1 => Part + UpsampledRows = V
      /\ Done' = Done + UpsampledRows
  BY <1>1, PostCounts
<1>5. done = rowgroup_ctr + Consumed
  BY DEF GroupsDone, Consumed
<1>6. /\ n \in Int /\ n >= 1 /\ rowgroup_ctr < M /\ rowgroup_ctr \in Nat
      /\ Done = Above(n - 1, rowgroup_ctr) + Part
      /\ M \in Nat \ {0} /\ V \in Nat \ {0} /\ Part \in Nat /\ Done \in Nat
  BY <1>1, NumberFacts DEF BInv, SimplePosition
<1>11. buffer_full' \in BOOLEAN /\ (buffer_full' <=> ~(done >= M))
  BY <1>1, <1>2 DEF BInv, MoreTypes
<1> HIDE DEF done, n
<1>7. /\ Above(n - 1, rowgroup_ctr) \in Int
      /\ Above(n - 1, rowgroup_ctr + 1) = Above(n - 1, rowgroup_ctr) + V
      /\ Above(n - 1, M) = Above(n, 0)
  BY <1>6, AboveNext, NumberFacts
<1>8. TypeOK' /\ MoreTypes' /\ CallPhase' /\ UpsamplerPhase' /\ StripPosition'
  <2>1. /\ rowgroup_ctr' \in 0 .. M + 2 /\ rowgroups_avail' \in 0 .. M + 2
        /\ whichptr' \in {0, 1}
        /\ context_state' \in {"PREPARE_FOR_IMCU", "PROCESS_IMCU", "POSTPONED_ROW"}
    BY <1>1, <1>4, <1>5, <1>6 DEF BInv, TypeOK, MoreTypes
  <2> QED BY <2>1, <1>1, <1>11, UpsampleStep
<1>9. SimplePosition'
  <2>1. CASE Consumed = 1 /\ rowgroup_ctr + 1 = M
    <3>1. ~buffer_full' /\ Part' = 0 /\ rowgroup_ctr' = 0 /\ Done' = Above(n, 0)
      BY <2>1, <1>1, <1>11, <1>4, <1>5, <1>6, <1>7
    <3>2. (Done = Above(output_iMCU_row, 0))'
      BY <3>1, <1>1, <1>3 DEF n, Above
    <3> QED BY <3>1, <3>2, <1>1, <1>3 DEF SimplePosition
  <2>2. CASE ~(Consumed = 1 /\ rowgroup_ctr + 1 = M)
    <3>1. /\ buffer_full' /\ rowgroup_ctr' = rowgroup_ctr + Consumed /\ rowgroup_ctr' < M
          /\ Done' = Above(n - 1, rowgroup_ctr + Consumed) + Part'
      BY <2>2, <1>1, <1>11, <1>4, <1>5, <1>6, <1>7
    <3>2. (Done = Above(output_iMCU_row - 1, rowgroup_ctr) + Part)'
      BY <3>1, <1>1, <1>3 DEF n, Above
    <3> QED BY <3>1, <3>2, <1>1, <1>3, <1>6 DEF SimplePosition, n
  <2> QED BY <2>1, <2>2
<1>10. ContextPosition'
  BY <1>1, <1>3 DEF ContextPosition
<1> QED BY <1>8, <1>9, <1>10 DEF BInv

\* The row group kept back is followed by the first of the next iMCU row, which
\* reaches into the image.
LEMMA PostponedRowStep == BInv /\ PostponedRow => BInv'
<1> SUFFICES ASSUME BInv, PostponedRow PROVE BInv'
  OBVIOUS
<1> DEFINE done == GroupsDone(Upsample(Room))
           n == output_iMCU_row
<1>1. /\ InProcess /\ Decoding /\ NeedContext /\ buffer_full
      /\ context_state = "POSTPONED_ROW"
      /\ PostProcess(Upsample(Room))
      /\ rowgroup_ctr' = done
      /\ IF done < rowgroups_avail
           THEN pc' = "return" /\ UNCHANGED context_state
           ELSE /\ context_state' = "PREPARE_FOR_IMCU"
                /\ pc' = IF out_row_ctr' >= out_rows_avail THEN "return" ELSE pc
      /\ UNCHANGED <<image, output_height, process_data, output_scanline, out_rows_avail,
                     suspended, output_iMCU_row, buffer, xbuffer, whichptr,
                     buffer_full, rowgroups_avail, iMCU_row_ctr>>
  BY DEF PostponedRow, InContext, InProcess, Decoding, BInv, TypeOK
<1>2. pc' \in {"process", "return"} /\ (pc' = "process" => out_row_ctr' < out_rows_avail)
  <2>1. out_row_ctr' \in Nat /\ out_rows_avail \in Nat
    <3>1. pc' \in {"process", "return"}
      BY <1>1 DEF InProcess
    <3> QED BY <3>1, <1>1, PostCounts, NumberFacts
  <2> QED BY <2>1, <1>1 DEF InProcess
<1>3. /\ M' = M /\ V' = V /\ NeedContext' = NeedContext
  BY <1>1, SameImage
<1>4. /\ UpsampledRows \in Nat \ {0} /\ Consumed \in {0, 1}
      /\ Part + UpsampledRows <= V
      /\ Part' = IF Consumed = 1 THEN 0 ELSE Part + UpsampledRows
      /\ Consumed = 1 => Part + UpsampledRows = V
      /\ Done' = Done + UpsampledRows
  BY <1>1, <1>2, PostCounts
<1>5. done = rowgroup_ctr + Consumed
  BY DEF GroupsDone, Consumed
<1>6. /\ n \in Int /\ n >= 2 /\ rowgroup_ctr = M + 1 /\ rowgroups_avail = M + 2
      /\ Done = Above(n - 1, -1) + Part
      /\ M \in Nat \ {0} /\ V \in Nat \ {0} /\ Part \in Nat /\ Done \in Nat
      /\ iMCU_row_ctr = output_iMCU_row /\ n - 1 < total_iMCU_rows
  BY <1>1, NumberFacts DEF BInv, ContextPosition
<1> HIDE DEF done, n
<1>7. /\ Above(n - 1, -1) \in Int /\ Above(n - 1, 0) = Above(n - 1, -1) + V
      /\ Above(n - 1, 0) < output_height
  <2>1. /\ Above(n - 1, -1) \in Int /\ Above(n - 1, -1 + 1) = Above(n - 1, -1) + V
        /\ Above(n - 1, 0) = (n - 1) * M * V
    BY <1>6, AboveNext, NumberFacts, -1 \in Int
  <2>2. (n - 1) * M * V < output_height
    BY <1>6, NumberFacts, IMCUsInImage, n - 1 \in Int
  <2> QED BY <2>1, <2>2
<1>8. CASE Consumed = 1
  <2>1. /\ context_state' = "PREPARE_FOR_IMCU" /\ Part' = 0 /\ rowgroup_ctr' = M + 2
        /\ Done' = Above(n - 1, 0)
    BY <1>8, <1>1, <1>4, <1>5, <1>6, <1>7
  <2>2. TypeOK' /\ MoreTypes' /\ CallPhase' /\ UpsamplerPhase' /\ StripPosition'
    <3>1. /\ rowgroup_ctr' \in 0 .. M + 2 /\ rowgroups_avail' \in 0 .. M + 2
          /\ whichptr' \in {0, 1} /\ buffer_full' \in BOOLEAN
          /\ context_state' \in {"PREPARE_FOR_IMCU", "PROCESS_IMCU", "POSTPONED_ROW"}
      BY <1>1, <1>6, <2>1 DEF BInv, MoreTypes
    <3> QED BY <3>1, <2>1, <1>1, <1>2, <1>7, UpsampleStep
  <2>3. (Done = Above(output_iMCU_row - 1, 0))'
    BY <2>1, <1>1, <1>3 DEF n, Above
  <2>4. ContextPosition'
    BY <2>1, <2>3, <1>1, <1>6 DEF ContextPosition, n
  <2>5. SimplePosition'
    BY <1>1, <1>3 DEF SimplePosition
  <2> QED BY <2>2, <2>4, <2>5 DEF BInv
<1>9. CASE Consumed = 0
  <2>1. /\ context_state' = "POSTPONED_ROW" /\ rowgroup_ctr' = M + 1 /\ pc' = "return"
        /\ Done' = Above(n - 1, -1) + Part'
    BY <1>9, <1>1, <1>4, <1>5, <1>6, <1>7
  <2>2. TypeOK' /\ MoreTypes' /\ CallPhase' /\ UpsamplerPhase' /\ StripPosition'
    <3>1. /\ rowgroup_ctr' \in 0 .. M + 2 /\ rowgroups_avail' \in 0 .. M + 2
          /\ whichptr' \in {0, 1} /\ buffer_full' \in BOOLEAN
          /\ context_state' \in {"PREPARE_FOR_IMCU", "PROCESS_IMCU", "POSTPONED_ROW"}
      BY <1>1, <1>6, <2>1 DEF BInv, MoreTypes
    <3> QED BY <3>1, <2>1, <1>1, <1>2, UpsampleStep
  <2>3. (Done = Above(output_iMCU_row - 1, -1) + Part)'
    BY <2>1, <1>1, <1>3 DEF n, Above
  <2>4. ContextPosition'
    BY <2>1, <2>3, <1>1, <1>3, <1>6 DEF ContextPosition, n
  <2>5. SimplePosition'
    BY <1>1, <1>3 DEF SimplePosition
  <2> QED BY <2>2, <2>4, <2>5 DEF BInv
<1> QED BY <1>4, <1>8, <1>9

LEMMA PrepareForIMCUStep == BInv /\ PrepareForIMCU => BInv'
<1> SUFFICES ASSUME BInv, PrepareForIMCU PROVE BInv'
  OBVIOUS
<1> DEFINE n == output_iMCU_row
<1>1. /\ Decoding /\ NeedContext /\ buffer_full
      /\ context_state = "PREPARE_FOR_IMCU"
      /\ rowgroup_ctr' = 0
      /\ rowgroups_avail' = IF iMCU_row_ctr = total_iMCU_rows THEN LastGroups ELSE M - 1
      /\ context_state' = "PROCESS_IMCU"
      /\ UNCHANGED <<image, output_height, process_data, output_scanline, callVars,
                     output_iMCU_row, buffer, whichptr, buffer_full, iMCU_row_ctr,
                     upsampleVars, postVars, lines>>
  BY DEF PrepareForIMCU, InContext, InProcess, Decoding, BInv, TypeOK, LastGroups
<1>2. /\ M' = M /\ V' = V /\ NeedContext' = NeedContext /\ rows_in_array' = rows_in_array
      /\ total_iMCU_rows' = total_iMCU_rows /\ Component' = Component /\ Merged' = Merged
      /\ LastGroups' = LastGroups
      /\ \A c : /\ downsampled_height(c)' = downsampled_height(c)
                /\ BufferRow(c)' = BufferRow(c)
  BY <1>1, SameImage
<1>3. Done' = Done /\ Part' = Part /\ Decoding'
  BY <1>1, <1>2 DEF Done, Part, PartOf, Decoding, upsampleVars, callVars
<1>4. M \in Nat \ {0} /\ M >= 2 /\ LastGroups \in 1 .. M
  BY <1>1, NumberFacts, ImageFacts, LastGroupsIs
<1>5. rowgroups_avail' \in 1 .. M
  BY <1>1, <1>4
<1>6. TypeOK'
  BY <1>1, <1>2, <1>4, <1>5 DEF BInv, TypeOK, callVars, upsampleVars, postVars
<1>7. MoreTypes'
  BY <1>1 DEF BInv, MoreTypes, callVars, upsampleVars, postVars
<1>8. CallPhase'
  BY <1>1, <1>2, <1>3 DEF BInv, CallPhase, callVars, Decoding
<1>9. UpsamplerPhase'
  BY <1>1, <1>2, <1>3 DEF BInv, UpsamplerPhase, upsampleVars, Decoding
<1>10. SimplePosition'
  BY <1>1, <1>2 DEF SimplePosition
<1>11. ContextPosition'
  <2>1. /\ iMCU_row_ctr = n /\ Part = 0 /\ n >= 1 /\ Done = Above(n - 1, 0)
    BY <1>1 DEF BInv, ContextPosition
  <2>2. Done = Above(n - 1, 0) + Part
    BY <2>1, NumberFacts
  <2>3. (Done = Above(output_iMCU_row - 1, rowgroup_ctr) + Part)'
    BY <2>2, <1>1, <1>2, <1>3 DEF Above
  <2>4. rowgroup_ctr' < rowgroups_avail'
    BY <1>1, <1>5
  <2> QED BY <2>1, <2>3, <2>4, <1>1, <1>2, <1>3 DEF ContextPosition
<1>12. StripPosition'
  BY <1>1, <1>2, <1>3 DEF BInv, StripPosition, postVars
<1> QED BY <1>6, <1>7, <1>8, <1>9, <1>10, <1>11, <1>12 DEF BInv

LEMMA ProcessIMCUStep == BInv /\ ProcessIMCU => BInv'
<1> SUFFICES ASSUME BInv, ProcessIMCU PROVE BInv'
  OBVIOUS
<1> DEFINE done == GroupsDone(Upsample(Room))
           n == output_iMCU_row
<1>1. /\ InProcess /\ Decoding /\ NeedContext /\ buffer_full
      /\ context_state = "PROCESS_IMCU"
      /\ PostProcess(Upsample(Room))
      /\ IF done < rowgroups_avail
             THEN /\ rowgroup_ctr' = done
                  /\ UNCHANGED <<xbuffer, whichptr, buffer_full, rowgroups_avail,
                                 context_state>>
             ELSE /\ whichptr' = 1 - whichptr
                  /\ buffer_full' = FALSE
                  /\ rowgroup_ctr' = M + 1
                  /\ rowgroups_avail' = M + 2
                  /\ context_state' = "POSTPONED_ROW"
      /\ pc' = "return"
      /\ UNCHANGED <<image, output_height, process_data, output_scanline, out_rows_avail,
                     suspended, output_iMCU_row, buffer, iMCU_row_ctr>>
  BY DEF ProcessIMCU, InContext, InProcess, Decoding, BInv, TypeOK
<1>3. /\ M' = M /\ V' = V /\ NeedContext' = NeedContext
      /\ total_iMCU_rows' = total_iMCU_rows /\ LastGroups' = LastGroups
  BY <1>1, SameImage
<1>4. /\ UpsampledRows \in Nat \ {0} /\ Consumed \in {0, 1}
      /\ Part + UpsampledRows <= V
      /\ Part' = IF Consumed = 1 THEN 0 ELSE Part + UpsampledRows
      /\ Consumed = 1 => Part + UpsampledRows = V
      /\ Done' = Done + UpsampledRows /\ Done' <= output_height
  BY <1>1, PostCounts
<1>5. done = rowgroup_ctr + Consumed
  BY DEF GroupsDone, Consumed
<1>6. /\ n \in Int /\ n >= 1 /\ rowgroup_ctr < rowgroups_avail /\ rowgroup_ctr \in Nat
      /\ rowgroups_avail = IF n = total_iMCU_rows THEN LastGroups ELSE M - 1
      /\ Done = Above(n - 1, rowgroup_ctr) + Part
      /\ M \in Nat \ {0} /\ V \in Nat \ {0} /\ Part \in Nat /\ Done \in Nat
      /\ output_height \in Nat
      /\ iMCU_row_ctr = output_iMCU_row
      /\ rowgroups_avail \in 0 .. M + 2 /\ whichptr \in {0, 1}
  BY <1>1, NumberFacts DEF BInv, ContextPosition, TypeOK, MoreTypes
<1>7. LastGroups \in 1 .. M /\ output_height <= Above(total_iMCU_rows - 1, LastGroups)
  BY NumberFacts, LastGroupsIs
<1> HIDE DEF done, n
<1>8. /\ Above(n - 1, rowgroup_ctr) \in Int
      /\ Above(n - 1, rowgroup_ctr + 1) = Above(n - 1, rowgroup_ctr) + V
      /\ Above(n - 1, M - 1) = Above(n, -1)
      /\ Above(n, -1) \in Int
  BY <1>6, AboveNext, NumberFacts, -1 \in Int
<1>9. TypeOK' /\ MoreTypes' /\ CallPhase' /\ UpsamplerPhase' /\ StripPosition'
  <2>1. /\ rowgroup_ctr' \in 0 .. M + 2 /\ rowgroups_avail' \in 0 .. M + 2
        /\ whichptr' \in {0, 1} /\ buffer_full' \in BOOLEAN
        /\ context_state' \in {"PREPARE_FOR_IMCU", "PROCESS_IMCU", "POSTPONED_ROW"}
    <3>1. CASE done < rowgroups_avail
      <4>1. rowgroup_ctr' \in 0 .. M + 2 /\ rowgroups_avail' \in 0 .. M + 2
        BY <3>1, <1>1, <1>4, <1>5, <1>6
      <4>2. buffer_full' \in BOOLEAN
        BY <3>1, <1>1 DEF BInv, MoreTypes
      <4> QED BY <4>1, <4>2, <3>1, <1>1, <1>6
    <3>2. CASE ~(done < rowgroups_avail)
      <4>1. buffer_full' = FALSE
        BY <3>2, <1>1
      <4>2. buffer_full' \in BOOLEAN
        BY <4>1, Zenon
      <4> QED BY <4>2, <3>2, <1>1, <1>6
    <3> QED BY <3>1, <3>2
  <2> QED BY <2>1, <1>1, UpsampleStep
<1>10. SimplePosition'
  BY <1>1, <1>3 DEF SimplePosition
<1>11. ContextPosition'
  <2>1. CASE done < rowgroups_avail
    <3>1. /\ context_state' = "PROCESS_IMCU" /\ buffer_full' = buffer_full
          /\ rowgroup_ctr' = rowgroup_ctr + Consumed /\ rowgroup_ctr' < rowgroups_avail
          /\ rowgroups_avail' = rowgroups_avail
          /\ Done' = Above(n - 1, rowgroup_ctr + Consumed) + Part'
      BY <2>1, <1>1, <1>4, <1>5, <1>6, <1>8
    <3>2. (Done = Above(output_iMCU_row - 1, rowgroup_ctr) + Part)'
      BY <3>1, <1>1, <1>3 DEF n, Above
    <3> QED BY <3>1, <3>2, <1>1, <1>3, <1>6 DEF ContextPosition, n
  <2>2. CASE ~(done < rowgroups_avail)
    <3>1. /\ Consumed = 1 /\ rowgroup_ctr + 1 = rowgroups_avail /\ Part' = 0
          /\ Done' = Above(n - 1, rowgroups_avail)
          /\ context_state' = "POSTPONED_ROW" /\ buffer_full' = FALSE
          /\ rowgroup_ctr' = M + 1 /\ rowgroups_avail' = M + 2
      BY <2>2, <1>1, <1>4, <1>5, <1>6, <1>8
    <3>2. Done' = IF n = total_iMCU_rows THEN output_height ELSE Above(n, -1)
      <4>1. CASE n = total_iMCU_rows
        <5>1. Done' = Above(total_iMCU_rows - 1, LastGroups) /\ Done' \in Int
          BY <4>1, <3>1, <1>4, <1>6
        <5> QED BY <5>1, <4>1, <1>4, <1>6, <1>7
      <4>2. CASE n # total_iMCU_rows
        BY <4>2, <3>1, <1>6, <1>8
      <4> QED BY <4>1, <4>2
    <3>3. (Done = IF output_iMCU_row = total_iMCU_rows THEN output_height
                  ELSE Above(output_iMCU_row, -1))'
      BY <3>2, <1>1, <1>3 DEF n, Above
    <3> QED BY <3>1, <3>3, <1>1, <1>3, <1>6 DEF ContextPosition, n
  <2> QED BY <2>1, <2>2
<1> QED BY <1>9, <1>10, <1>11 DEF BInv

\* An iMCU row arrives only when one is left.
LEMMA LoadStep == BInv /\ Load => BInv'
<1> SUFFICES ASSUME BInv, Load PROVE BInv'
  OBVIOUS
<1> DEFINE n == output_iMCU_row
<1>1. /\ InProcess /\ Decoding /\ ~buffer_full
      /\ output_iMCU_row' = output_iMCU_row + 1
      /\ buffer_full' = TRUE
      /\ iMCU_row_ctr' = IF NeedContext THEN iMCU_row_ctr + 1 ELSE iMCU_row_ctr
      /\ UNCHANGED <<image, output_height, process_data, output_scanline, callVars, xbuffer,
                     whichptr, rowgroup_ctr, rowgroups_avail, context_state,
                     upsampleVars, postVars, lines>>
  BY DEF Load, InProcess, Decoding, BInv, TypeOK
<1>2. /\ M' = M /\ V' = V /\ NeedContext' = NeedContext /\ rows_in_array' = rows_in_array
      /\ total_iMCU_rows' = total_iMCU_rows /\ Component' = Component /\ Merged' = Merged
      /\ LastGroups' = LastGroups
      /\ \A c : /\ downsampled_height(c)' = downsampled_height(c)
                /\ BufferRow(c)' = BufferRow(c)
  BY <1>1, SameImage
<1>3. Done' = Done /\ Part' = Part /\ Decoding'
  BY <1>1, <1>2 DEF Done, Part, PartOf, Decoding, upsampleVars, callVars
<1>4. /\ n \in 0 .. total_iMCU_rows /\ total_iMCU_rows \in Nat \ {0}
      /\ M \in Nat \ {0} /\ V \in Nat \ {0} /\ Done < output_height
  BY <1>1, NumberFacts DEF BInv, CallPhase, InProcess
<1>5. n < total_iMCU_rows
  <2>1. CASE ~NeedContext
    <3>1. Done = n * M * V
      BY <2>1, <1>1, <1>4, AboveNext, NumberFacts DEF BInv, SimplePosition
    <3> QED BY <3>1, <1>4, IMCUsInImage, NumberFacts
  <2>2. CASE NeedContext
    BY <2>2, <1>1, <1>4, NumberFacts DEF BInv, ContextPosition, MoreTypes
  <2> QED BY <2>1, <2>2
<1>6. \A c \in Component : \A b \in BufferRow(c) :
        buffer'[c][b] \in {Garbage} \cup 0 .. downsampled_height(c) - 1
  <2> SUFFICES ASSUME NEW c \in Component, NEW b \in BufferRow(c)
               PROVE  buffer'[c][b] \in {Garbage} \cup 0 .. downsampled_height(c) - 1
    OBVIOUS
  <2> DEFINE rows == {i \in 0 .. M * RowGroup[c] - 1 : Pointer(c, i) = b}
             Sample(i) == output_iMCU_row * M * RowGroup[c] + i
             j == CHOOSE i \in rows : TRUE
  <2>1. buffer'[c][b] = IF rows = {} THEN buffer[c][b]
                        ELSE IF Sample(j) < downsampled_height(c) THEN Sample(j) ELSE Garbage
    BY DEF Load
  <2>2. buffer[c][b] \in {Garbage} \cup 0 .. downsampled_height(c) - 1
    BY DEF BInv, TypeOK
  <2>3. ASSUME rows # {} PROVE Sample(j) \in Nat
    <3>1. j \in rows
      BY <2>3
    <3>2. j \in Nat /\ RowGroup[c] \in Nat
      <4>1. RowGroup[c] \in Nat
        BY NumberFacts, ImageFacts
      <4> QED BY <3>1, <4>1, <1>4
    <3> HIDE DEF j, rows
    <3> QED BY <3>2, <1>4, ProductOrder
  <2>4. downsampled_height(c) \in Nat
    BY NumberFacts, SamplesInImage, 0 \in Int
  <2> HIDE DEF rows, j, Sample
  <2> QED BY <2>1, <2>2, <2>3, <2>4
<1>7. TypeOK'
  <2>1. \A c \in Component' : \A b \in BufferRow(c)' :
          buffer'[c][b] \in {Garbage} \cup 0 .. downsampled_height(c)' - 1
    BY <1>2, <1>6
  <2>2. output_iMCU_row' \in 0 .. total_iMCU_rows'
    BY <1>1, <1>2, <1>4, <1>5
  <2> QED BY <2>1, <2>2, <1>1, <1>2 DEF BInv, TypeOK, callVars, upsampleVars, postVars
<1>8. MoreTypes'
  <2>1. buffer_full' \in BOOLEAN
    BY <1>1, Zenon
  <2> QED BY <2>1, <1>1 DEF BInv, MoreTypes, callVars, upsampleVars, postVars
<1>9. CallPhase'
  BY <1>1, <1>2, <1>3 DEF BInv, CallPhase, callVars, Decoding
<1>10. UpsamplerPhase'
  BY <1>1, <1>2, <1>3 DEF BInv, UpsamplerPhase, upsampleVars, Decoding
<1>11. SimplePosition'
  <2> SUFFICES ASSUME ~NeedContext PROVE SimplePosition'
    BY <1>2 DEF SimplePosition
  <2>1. Part = 0 /\ rowgroup_ctr = 0 /\ Done = Above(n, 0)
    BY <1>1 DEF BInv, SimplePosition
  <2>2. Done = Above(n + 1 - 1, 0) + Part
    BY <2>1, <1>4, NumberFacts
  <2>3. (Done = Above(output_iMCU_row - 1, rowgroup_ctr) + Part)'
    BY <2>1, <2>2, <1>1, <1>2, <1>3, <1>4 DEF Above
  <2> QED BY <2>1, <2>3, <1>1, <1>2, <1>3, <1>4 DEF SimplePosition
<1>12. ContextPosition'
  <2> SUFFICES ASSUME NeedContext PROVE ContextPosition'
    BY <1>2 DEF ContextPosition
  <2>1. iMCU_row_ctr' = output_iMCU_row'
    BY <1>1 DEF BInv, ContextPosition
  <2>2. CASE context_state = "PREPARE_FOR_IMCU"
    <3>1. n = 0 /\ Done = 0 /\ Part = 0
      BY <2>2, <1>1 DEF BInv, ContextPosition
    <3>2. Done = Above(n + 1 - 1, 0)
      BY <3>1, <1>4 DEF Above
    <3>3. (Done = Above(output_iMCU_row - 1, 0))'
      BY <3>2, <1>1, <1>2, <1>3, <1>4 DEF Above
    <3> QED BY <2>1, <2>2, <3>1, <3>3, <1>1, <1>3 DEF ContextPosition
  <2>3. CASE context_state = "POSTPONED_ROW"
    <3>1. /\ rowgroup_ctr = M + 1 /\ rowgroups_avail = M + 2 /\ Part = 0 /\ n >= 1
          /\ Done = Above(n, -1)
      BY <2>3, <1>1, <1>4, <1>5 DEF BInv, ContextPosition
    <3>2. Done = Above(n + 1 - 1, -1) + Part
      BY <3>1, <1>4, NumberFacts
    <3>3. (Done = Above(output_iMCU_row - 1, -1) + Part)'
      BY <3>2, <1>1, <1>2, <1>3, <1>4 DEF Above
    <3> QED BY <2>1, <2>3, <3>1, <3>3, <1>1, <1>2, <1>3, <1>4 DEF ContextPosition
  <2>4. context_state # "PROCESS_IMCU"
    BY <1>1 DEF BInv, ContextPosition
  <2> QED BY <2>2, <2>3, <2>4 DEF BInv, MoreTypes
<1>13. StripPosition'
  BY <1>1, <1>2, <1>3 DEF BInv, StripPosition, postVars
<1> QED BY <1>7, <1>8, <1>9, <1>10, <1>11, <1>12, <1>13 DEF BInv

\* The second pass emits what is left of a strip.
LEMMA CrankPostStep == BInv /\ CrankPost => BInv'
<1> SUFFICES ASSUME BInv, CrankPost PROVE BInv'
  OBVIOUS
<1> DEFINE rows == [k \in 1 .. RowsInStrip |-> whole_image[starting_row + next_row + k - 1]]
           r == RowsInStrip
<1>1. /\ InProcess /\ process_data = "crank" /\ pc' = "return"
      /\ Emit(rows) /\ Advance(r)
      /\ UNCHANGED <<image, output_height, process_data, output_scanline, out_rows_avail,
                     suspended, mainVars, upsampleVars, first_undef_row, whole_image>>
  BY DEF CrankPost
<1>2. /\ M' = M /\ V' = V /\ NeedContext' = NeedContext /\ rows_in_array' = rows_in_array
      /\ total_iMCU_rows' = total_iMCU_rows /\ Component' = Component
      /\ \A c : /\ downsampled_height(c)' = downsampled_height(c)
                /\ BufferRow(c)' = BufferRow(c)
  BY <1>1, SameImage
<1>3. ~Decoding /\ ~Decoding'
  BY <1>1 DEF Decoding
<1>4. /\ V \in Nat \ {0} /\ starting_row \in Nat /\ next_row \in 0 .. V - 1
      /\ first_undef_row = rows_in_array /\ rows_in_array \in Nat
      /\ out_row_ctr = 0 /\ out_rows_avail \in Nat /\ out_rows_avail > 0
      /\ output_scanline \in Nat /\ output_height \in Nat
      /\ Done < output_height /\ Done = starting_row + next_row
      /\ "twopass" \in image.PassKinds
  BY <1>1, <1>3, NumberFacts DEF BInv, CallPhase, InProcess, StripPosition
<1>5. PICK k \in 0 .. starting_row : starting_row = k * V
  BY <1>1 DEF BInv, StripPosition
<1>6. r \in 1 .. V - next_row
  BY <1>4 DEF RowsInStrip, Min2, strip_height
<1>7. out_row_ctr' = r
  <2>1. out_row_ctr' = out_row_ctr + Len(rows)
    BY <1>1 DEF Emit
  <2>2. Len(rows) = r
    BY <1>6
  <2> QED BY <2>1, <2>2, <1>4, <1>6
<1> HIDE DEF r, rows
<1>8. Done' = Done + r
  BY <1>1, <1>4, <1>6, <1>7 DEF Done, InProcess
<1>9. starting_row + V <= rows_in_array
  <2>1. k \in Int /\ k * V < output_height
    BY <1>4, <1>5
  <2> QED BY <2>1, <1>5, NumberFacts, StripsInArray
<1>10. IF next_row + r = V
         THEN starting_row' = starting_row + V /\ next_row' = 0
         ELSE starting_row' = starting_row /\ next_row' = next_row + r /\ next_row + r < V
  BY <1>1, <1>4, <1>6 DEF Advance, strip_height
<1>11. starting_row' \in 0 .. rows_in_array /\ next_row' \in 0 .. V - 1
       /\ Done' = starting_row' + next_row'
  BY <1>4, <1>6, <1>8, <1>9, <1>10
<1>12. \E j \in 0 .. starting_row' : starting_row' = j * V
  <2>1. (k + 1) * V = k * V + V /\ k + 1 <= starting_row + V
    BY <1>4, <1>5
  <2>2. CASE next_row + r = V
    <3>1. k + 1 \in 0 .. starting_row' /\ starting_row' = (k + 1) * V
      BY <2>1, <2>2, <1>4, <1>5, <1>10
    <3> QED BY <3>1
  <2>3. CASE next_row + r # V
    BY <2>3, <1>5, <1>10
  <2> QED BY <2>2, <2>3
<1>13. TypeOK'
  BY <1>1, <1>2, <1>11 DEF BInv, TypeOK, mainVars, upsampleVars
<1>14. MoreTypes'
  BY <1>1, <1>6, <1>7 DEF BInv, MoreTypes, mainVars, upsampleVars
<1>15. CallPhase'
  BY <1>1, <1>6, <1>7 DEF CallPhase
<1>16. UpsamplerPhase' /\ SimplePosition' /\ ContextPosition'
  <2>1. Merged' = Merged
    BY <1>1, SameImage
  <2> QED BY <2>1, <1>1, <1>2, <1>3 DEF BInv, UpsamplerPhase, SimplePosition, ContextPosition, upsampleVars
<1>17. StripPosition'
  BY <1>1, <1>2, <1>4, <1>11, <1>12 DEF StripPosition
<1> QED BY <1>13, <1>14, <1>15, <1>16, <1>17 DEF BInv

LEMMA CallStep ==
  ASSUME BInv, NEW lines_wanted \in Nat, Call(lines_wanted),
         process_data # "none", process_data # "prepass" => lines_wanted > 0
  PROVE  BInv'
<1>1. /\ pc = "idle" /\ output_scanline < output_height
      /\ pc' = "process" /\ out_rows_avail' = lines_wanted /\ out_row_ctr' = 0
      /\ suspended' = FALSE
      /\ UNCHANGED <<image, output_height, process_data, output_scanline, mainVars,
                     upsampleVars, postVars, lines>>
  BY DEF Call, RowsRemain
<1>2. /\ M' = M /\ V' = V /\ NeedContext' = NeedContext /\ rows_in_array' = rows_in_array
      /\ total_iMCU_rows' = total_iMCU_rows /\ Component' = Component /\ Merged' = Merged
      /\ LastGroups' = LastGroups
      /\ \A c : /\ downsampled_height(c)' = downsampled_height(c)
                /\ BufferRow(c)' = BufferRow(c)
  BY <1>1, SameImage
<1>3. Done = output_scanline /\ Done' = Done /\ Part' = Part /\ Decoding' = Decoding
  BY <1>1, <1>2, NumberFacts DEF Done, Part, PartOf, Decoding, upsampleVars
<1>4. TypeOK'
  BY <1>1, <1>2 DEF BInv, TypeOK, mainVars, upsampleVars, postVars
<1>5. MoreTypes'
  <2>1. suspended' \in BOOLEAN
    BY <1>1, Zenon
  <2> QED BY <2>1, <1>1 DEF BInv, MoreTypes, mainVars, upsampleVars, postVars
<1>6. CallPhase'
  BY <1>1, <1>3 DEF CallPhase
<1>7. UpsamplerPhase'
  BY <1>1, <1>2, <1>3 DEF BInv, UpsamplerPhase, upsampleVars
<1>8. SimplePosition'
  <2>1. \A n, g : Above(n, g)' = Above(n, g)
    BY <1>1, SameImage
  <2> QED BY <2>1, <1>1, <1>2, <1>3 DEF BInv, SimplePosition, mainVars
<1>9. ContextPosition'
  <2>1. \A n, g : Above(n, g)' = Above(n, g)
    BY <1>1, SameImage
  <2> QED BY <2>1, <1>1, <1>2, <1>3 DEF BInv, ContextPosition, mainVars
<1>10. StripPosition'
  BY <1>1, <1>2, <1>3 DEF BInv, StripPosition, postVars
<1> QED BY <1>4, <1>5, <1>6, <1>7, <1>8, <1>9, <1>10 DEF BInv

LEMMA ReadScanlinesStep == BInv /\ ReadScanlines => BInv'
<1> SUFFICES ASSUME BInv, ReadScanlines PROVE BInv'
  OBVIOUS
<1>1. PICK n \in image.MaxLines : Call(n)
  BY DEF ReadScanlines
<1>2. n \in Nat \ {0}
  BY NumberFacts, ImageFacts
<1> QED BY <1>1, <1>2, CallStep DEF ReadScanlines

LEMMA CrankDummyPassStep == BInv /\ CrankDummyPass => BInv'
BY CallStep, 0 \in Nat DEF CrankDummyPass

LEMMA ReturnStep == BInv /\ Return => BInv'
<1> SUFFICES ASSUME BInv, Return PROVE BInv'
  OBVIOUS
<1>1. /\ pc = "return" /\ pc' = "idle"
      /\ output_scanline' = output_scanline + out_row_ctr
      /\ UNCHANGED <<image, output_height, process_data, out_rows_avail, out_row_ctr,
                     suspended, mainVars, upsampleVars, postVars, lines>>
  BY DEF Return
<1>2. /\ M' = M /\ V' = V /\ NeedContext' = NeedContext /\ rows_in_array' = rows_in_array
      /\ total_iMCU_rows' = total_iMCU_rows /\ Component' = Component /\ Merged' = Merged
      /\ LastGroups' = LastGroups
      /\ \A n, g : Above(n, g)' = Above(n, g)
      /\ \A c : /\ downsampled_height(c)' = downsampled_height(c)
                /\ BufferRow(c)' = BufferRow(c)
  BY <1>1, SameImage
<1>3. Done' = Done /\ Part' = Part /\ Decoding' = Decoding
  BY <1>1, <1>2, NumberFacts DEF Done, Part, PartOf, Decoding, upsampleVars
<1>4. TypeOK'
  BY <1>1, <1>2 DEF BInv, TypeOK, mainVars, upsampleVars, postVars
<1>5. MoreTypes'
  BY <1>1, NumberFacts DEF BInv, MoreTypes, mainVars, upsampleVars, postVars
<1>6. CallPhase'
  BY <1>1, NumberFacts DEF BInv, CallPhase
<1>7. UpsamplerPhase'
  BY <1>1, <1>2, <1>3 DEF BInv, UpsamplerPhase, upsampleVars
<1>8. SimplePosition'
  BY <1>1, <1>2, <1>3 DEF BInv, SimplePosition, mainVars
<1>9. ContextPosition'
  BY <1>1, <1>2, <1>3 DEF BInv, ContextPosition, mainVars
<1>10. StripPosition'
  BY <1>1, <1>2, <1>3 DEF BInv, StripPosition, postVars
<1> QED BY <1>4, <1>5, <1>6, <1>7, <1>8, <1>9, <1>10 DEF BInv

\* A pass starts from the top, however the one before was left.
LEMMA StartPassStep ==
  ASSUME BInv, NEW kind \in image.PassKinds, StartPass(kind)
  PROVE  BInv'
<1>1. /\ pc = "idle" /\ process_data # "prepass"
      /\ process_data' = IF kind = "twopass" THEN "prepass" ELSE kind
      /\ output_scanline' = 0 /\ output_iMCU_row' = 0
      /\ IF Merged THEN spare_full' = FALSE /\ UNCHANGED next_row_out
         ELSE next_row_out' = V /\ UNCHANGED spare_full
      /\ rows_to_go' = output_height
      /\ starting_row' = 0 /\ next_row' = 0
      /\ buffer_full' = FALSE /\ rowgroup_ctr' = 0
      /\ IF NeedContext
           THEN /\ whichptr' = 0
                /\ context_state' = "PREPARE_FOR_IMCU"
                /\ iMCU_row_ctr' = 0
           ELSE UNCHANGED <<xbuffer, whichptr, context_state, iMCU_row_ctr>>
      /\ first_undef_row' = IF kind = "onepass" /\ WholeImage /\ first_undef_row = 0
                              THEN strip_height ELSE first_undef_row
      /\ UNCHANGED <<image, output_height, callVars, buffer, rowgroups_avail>>
  BY DEF StartPass, HeightToGo, BufferFull
<1>2. /\ M' = M /\ V' = V /\ NeedContext' = NeedContext /\ rows_in_array' = rows_in_array
      /\ total_iMCU_rows' = total_iMCU_rows /\ Component' = Component /\ Merged' = Merged
      /\ \A c : /\ downsampled_height(c)' = downsampled_height(c)
                /\ BufferRow(c)' = BufferRow(c)
  BY <1>1, SameImage
<1>3. pc' = "idle" /\ UNCHANGED <<out_rows_avail, out_row_ctr, suspended>>
  BY <1>1 DEF callVars
<1>4. Done' = 0
  BY <1>1, <1>3 DEF Done
<1>5. Part' = 0
  BY <1>1, <1>2 DEF Part, PartOf
<1>6. /\ V \in Nat \ {0} /\ M \in Nat \ {0} /\ output_height \in Nat \ {0}
      /\ first_undef_row' \in 0 .. rows_in_array
      /\ total_iMCU_rows \in Nat \ {0} /\ rows_in_array \in Nat
  <2>1. V <= rows_in_array
    BY NumberFacts, StripsInArray, 0 \in Int
  <2> QED BY <2>1, <1>1, NumberFacts DEF strip_height
<1>7. process_data' \in {"thru", "onepass", "prepass"}
  BY <1>1, NumberFacts, ImageFacts
<1>8. TypeOK'
  <2>1. next_row_out' \in 0 .. V
    BY <1>1, <1>6 DEF BInv, TypeOK
  <2> QED BY <2>1, <1>1, <1>2, <1>3, <1>6, <1>7 DEF BInv, TypeOK
<1>9. MoreTypes'
  <2>1. buffer_full' \in BOOLEAN
    BY <1>1, Zenon
  <2>2. spare_full' \in BOOLEAN
    <3>1. CASE Merged
      BY <3>1, <1>1, Zenon
    <3>2. CASE ~Merged
      BY <3>2, <1>1 DEF BInv, MoreTypes
    <3> QED BY <3>1, <3>2
  <2> QED BY <2>1, <2>2, <1>1, <1>3 DEF BInv, MoreTypes
<1>10. CallPhase'
  BY <1>3, <1>7 DEF CallPhase
<1>11. UpsamplerPhase'
  <2>1. ~Merged' => next_row_out' >= 1
    BY <1>1, <1>2, <1>6
  <2>2. spare_full' => V' = 2
    BY <1>1, <1>2 DEF BInv, UpsamplerPhase
  <2>3. Done' <= output_height' /\ rows_to_go' = output_height' - Done'
    BY <1>1, <1>4, <1>6
  <2> QED BY <2>1, <2>2, <2>3 DEF UpsamplerPhase
<1>12. SimplePosition'
  <2>1. (Done = Above(output_iMCU_row, 0))'
    BY <1>1, <1>2, <1>4, <1>6 DEF Above
  <2> QED BY <2>1, <1>1, <1>5 DEF SimplePosition
<1>13. ContextPosition'
  BY <1>1, <1>2, <1>4, <1>5 DEF ContextPosition
<1>14. StripPosition'
  <2> SUFFICES ASSUME process_data' = "prepass" PROVE StripPosition'
    BY <1>7 DEF StripPosition
  <2>1. "twopass" \in image'.PassKinds
    BY <1>1, NumberFacts, ImageFacts
  <2>2. \E k \in 0 .. starting_row' : starting_row' = k * V'
    <3>1. 0 \in 0 .. starting_row' /\ starting_row' = 0 * V'
      BY <1>1, <1>2, <1>6
    <3> QED BY <3>1
  <2> QED BY <2>1, <2>2, <1>1, <1>4, <1>6 DEF StripPosition
<1> QED BY <1>8, <1>9, <1>10, <1>11, <1>12, <1>13, <1>14 DEF BInv

\* The second pass starts when the first has written all strips.
LEMMA StartCrankPassStep == BInv /\ StartCrankPass => BInv'
<1> SUFFICES ASSUME BInv, StartCrankPass PROVE BInv'
  OBVIOUS
<1>1. /\ pc = "idle" /\ process_data = "prepass" /\ output_scanline >= output_height
      /\ process_data' = "crank" /\ output_scanline' = 0
      /\ starting_row' = 0 /\ next_row' = 0
      /\ UNCHANGED <<image, output_height, callVars, mainVars, upsampleVars,
                     first_undef_row, whole_image, lines>>
  BY DEF StartCrankPass
<1>2. /\ M' = M /\ V' = V /\ NeedContext' = NeedContext /\ rows_in_array' = rows_in_array
      /\ total_iMCU_rows' = total_iMCU_rows /\ Component' = Component /\ Merged' = Merged
      /\ \A c : /\ downsampled_height(c)' = downsampled_height(c)
                /\ BufferRow(c)' = BufferRow(c)
  BY <1>1, SameImage
<1>3. Done' = 0 /\ pc' = "idle"
  BY <1>1 DEF Done, callVars
<1>4. /\ V \in Nat \ {0} /\ starting_row \in Nat /\ next_row \in 0 .. V - 1
      /\ first_undef_row \in 0 .. rows_in_array /\ rows_in_array \in Nat
      /\ output_scanline \in Nat /\ output_height \in Nat
  BY NumberFacts
<1>5. /\ "twopass" \in image.PassKinds
      /\ output_scanline = starting_row + next_row
      /\ starting_row <= first_undef_row
      /\ next_row > 0 => starting_row + V <= first_undef_row
  BY <1>1, <1>4 DEF BInv, StripPosition, Done
<1>6. PICK k \in 0 .. starting_row : starting_row = k * V
  BY <1>1 DEF BInv, StripPosition
<1>7. first_undef_row = rows_in_array
  <2>1. CASE next_row = 0
    <3>1. k \in Int /\ output_height <= k * V
      BY <2>1, <1>1, <1>4, <1>5, <1>6
    <3>2. rows_in_array <= k * V
      BY <3>1, NumberFacts, StripsInArray
    <3> QED BY <3>2, <1>4, <1>5, <1>6
  <2>2. CASE next_row > 0
    <3>1. k + 1 \in Int /\ (k + 1) * V = starting_row + V
      BY <1>4, <1>6
    <3>2. output_height <= (k + 1) * V
      BY <3>1, <1>1, <1>4, <1>5
    <3>3. rows_in_array <= (k + 1) * V
      BY <3>1, <3>2, NumberFacts, StripsInArray
    <3> QED BY <2>2, <3>1, <3>3, <1>4, <1>5
  <2> QED BY <2>1, <2>2, <1>4
<1>8. TypeOK'
  BY <1>1, <1>2, <1>3, <1>4 DEF BInv, TypeOK, mainVars, upsampleVars
<1>9. MoreTypes'
  BY <1>1 DEF BInv, MoreTypes, callVars, mainVars, upsampleVars
<1>10. CallPhase'
  BY <1>1, <1>3 DEF CallPhase
<1>11. UpsamplerPhase' /\ SimplePosition' /\ ContextPosition'
  <2>1. ~Decoding'
    BY <1>1 DEF Decoding
  <2> QED BY <2>1, <1>1, <1>2 DEF BInv, UpsamplerPhase, SimplePosition, ContextPosition, upsampleVars
<1>12. StripPosition'
  <2>1. \E j \in 0 .. starting_row' : starting_row' = j * V'
    <3>1. 0 \in 0 .. starting_row' /\ starting_row' = 0 * V'
      BY <1>1, <1>2, <1>4
    <3> QED BY <3>1
  <2> QED BY <2>1, <1>1, <1>2, <1>3, <1>4, <1>5, <1>7 DEF StripPosition
<1> QED BY <1>8, <1>9, <1>10, <1>11, <1>12 DEF BInv

LEMMA InitBounds == Init => BInv
<1> SUFFICES ASSUME Init PROVE BInv
  OBVIOUS
<1>1. image \in Images /\ output_height \in image.Heights
  BY DEF Init
<1>2. /\ V \in Nat \ {0} /\ M \in Nat \ {0} /\ output_height \in Nat \ {0}
      /\ total_iMCU_rows \in Nat \ {0} /\ rows_in_array \in Nat
  BY <1>1, ImageFacts, IMCUsInImage, StripsInArray, 0 \in Int
<1>3. TypeOK
  <2>1. \A c \in Component : \A b \in BufferRow(c) :
          buffer[c][b] \in {Garbage} \cup 0 .. downsampled_height(c) - 1
    BY DEF Init
  <2> QED BY <2>1, <1>1, <1>2 DEF Init, TypeOK
<1>4. MoreTypes
  <2>1. suspended \in BOOLEAN /\ buffer_full \in BOOLEAN /\ spare_full \in BOOLEAN
    <3>1. suspended = FALSE /\ buffer_full = FALSE /\ spare_full = FALSE
      BY DEF Init
    <3> QED BY <3>1, Zenon
  <2> QED BY <2>1 DEF Init, MoreTypes
<1>5. CallPhase /\ UpsamplerPhase /\ SimplePosition /\ ContextPosition /\ StripPosition
  BY <1>2 DEF Init, CallPhase, UpsamplerPhase, SimplePosition, ContextPosition,
              StripPosition, Decoding
<1> QED BY <1>3, <1>4, <1>5 DEF BInv

LEMMA NextBounds == BInv /\ [Next]_vars => BInv'
<1> SUFFICES ASSUME BInv, [Next]_vars PROVE BInv'
  OBVIOUS
<1>1. CASE UNCHANGED vars
  BY <1>1 DEF vars, callVars, mainVars, upsampleVars, postVars, BInv, TypeOK, MoreTypes,
     CallPhase, UpsamplerPhase, SimplePosition, ContextPosition, StripPosition,
     Done, Part, PartOf, Decoding, Above, LastGroups, RowsLeft, M, V, RowGroup, Component,
     NeedContext, Merged, total_iMCU_rows, rows_in_array, downsampled_height, BufferRow, Groups
<1>2. CASE Suspend
  BY <1>2, SuspendStep
<1>3. CASE Process
  BY <1>3, LoadStep, SimpleMainStep, PostponedRowStep, PrepareForIMCUStep, ProcessIMCUStep,
     CrankPostStep DEF Process
<1>4. CASE ReadScanlines
  BY <1>4, ReadScanlinesStep
<1>5. CASE CrankDummyPass
  BY <1>5, CrankDummyPassStep
<1>6. CASE Return
  BY <1>6, ReturnStep
<1>7. CASE \E kind \in image.PassKinds : StartPass(kind)
  BY <1>7, StartPassStep
<1>8. CASE StartCrankPass
  BY <1>8, StartCrankPassStep
<1> QED BY <1>1, <1>2, <1>3, <1>4, <1>5, <1>6, <1>7, <1>8 DEF Next

THEOREM Bounds == Spec => []BInv
BY InitBounds, NextBounds, PTL DEF Spec

-------------------------------------------------------------------------------
(* Where everybody is: the theorems                                        *)

\* A decoding pass never gets past the iMCU rows it was delivered.
LEMMA DoneDelivered ==
  ASSUME BInv, Decoding, output_iMCU_row # total_iMCU_rows
  PROVE  Done <= output_iMCU_row * M * V
<1> DEFINE n == output_iMCU_row
<1> SUFFICES Done <= n * M * V
  OBVIOUS
<1>1. /\ n \in Nat /\ M \in Nat \ {0} /\ V \in Nat \ {0} /\ Part \in 0 .. V /\ Done \in Nat
      /\ rowgroup_ctr \in Nat /\ NeedContext \in BOOLEAN /\ buffer_full \in BOOLEAN
      /\ image \in Images /\ output_height \in image.Heights
  BY NumberFacts, ImageFacts DEF BInv, MoreTypes
<1>2. n * M * V = (n * M) * V /\ n * M \in Int /\ (n * M) * V \in Int
  BY <1>1
<1>3. ASSUME NEW m \in Int, NEW g \in Int, Done <= Above(m, g) + Part, m * M + g < n * M
      PROVE  Done <= n * M * V
  <2>1. m * M + g \in Int /\ (m * M + g + 1) * V = Above(m, g) + V /\ Above(m, g) \in Int
    BY <1>1 DEF Above
  <2>2. (m * M + g + 1) * V <= (n * M) * V
    BY <2>1, <1>1, <1>2, <1>3, ProductOrder
  <2> QED BY <2>1, <2>2, <1>1, <1>2, <1>3
<1>4. \A g \in Int : g < M => (n - 1) * M + g < n * M
  <2>1. (n - 1) * M = n * M - M
    BY <1>1
  <2> QED BY <2>1, <1>1, <1>2
<1>5. Above(n, 0) = n * M * V
  BY <1>1, AboveNext, 0 \in Int
<1>6. CASE ~NeedContext
  <2>1. CASE buffer_full
    <3>1. rowgroup_ctr < M /\ Done = Above(n - 1, rowgroup_ctr) + Part
      BY <2>1, <1>6 DEF BInv, SimplePosition
    <3> HIDE DEF n
    <3> QED BY <3>1, <1>1, <1>3, <1>4
  <2>2. CASE ~buffer_full
    BY <2>2, <1>1, <1>2, <1>5, <1>6 DEF BInv, SimplePosition
  <2> QED BY <2>1, <2>2
<1>7. CASE NeedContext
  <2>1. CASE context_state = "PREPARE_FOR_IMCU"
    <3>1. Done = 0 \/ (n >= 1 /\ Done = Above(n - 1, 0))
      BY <2>1, <1>1, <1>7 DEF BInv, ContextPosition
    <3>2. 0 <= n * M * V
      <4>1. 0 * V <= (n * M) * V
        <5>1. 0 * M <= n * M
          BY <1>1, ProductOrder
        <5> QED BY <5>1, <1>1, <1>2, ProductOrder
      <4> QED BY <4>1, <1>1, <1>2
    <3>3. Above(n - 1, 0) \in Int
      BY <1>1, AboveNext, 0 \in Int
    <3> HIDE DEF n
    <3>4. CASE n >= 1 /\ Done = Above(n - 1, 0)
      <4>1. Done <= Above(n - 1, 0) + Part /\ (n - 1) * M + 0 < n * M
        BY <3>3, <3>4, <1>1, <1>4, 0 \in Int
      <4> QED BY <4>1, <1>1, <1>3
    <3> QED BY <3>1, <3>2, <3>4
  <2>2. CASE context_state = "PROCESS_IMCU"
    <3>1. rowgroup_ctr < M /\ Done = Above(n - 1, rowgroup_ctr) + Part
      BY <2>2, <1>1, <1>7 DEF BInv, ContextPosition
    <3> HIDE DEF n
    <3> QED BY <3>1, <1>1, <1>3, <1>4
  <2>3. CASE context_state = "POSTPONED_ROW"
    <3>1. Done = Above(n - 1, -1) + Part \/ Done = Above(n, -1)
      BY <2>3, <1>1, <1>7 DEF BInv, ContextPosition
    <3>2. Above(n, -1) \in Int
      BY <1>1, AboveNext, -1 \in Int
    <3> HIDE DEF n
    <3>3. (n - 1) * M + (-1) < n * M /\ n * M + (-1) < n * M
      BY <1>1, <1>2, <1>4, -1 \in Int
    <3>4. CASE Done = Above(n - 1, -1) + Part
      <4>1. n - 1 \in Int /\ -1 \in Int
        BY <1>1
      <4> QED BY <4>1, <3>3, <3>4, <1>1, <1>3
    <3>5. CASE Done = Above(n, -1)
      <4>1. n \in Int /\ -1 \in Int /\ Done <= Above(n, -1) + Part
        BY <3>2, <3>5, <1>1
      <4> QED BY <4>1, <3>3, <1>3
    <3> QED BY <3>1, <3>4, <3>5
  <2> QED BY <2>1, <2>2, <2>3 DEF BInv, MoreTypes
<1> QED BY <1>1, <1>6, <1>7

\* A pass returns rows as long as it has any, takes every iMCU row, and stops
\* short of that for nothing but the data source.
THEOREM RowsKeepComingTheorem == Spec => []RowsKeepComing
<1>1. BInv => RowsKeepComing
  <2> SUFFICES ASSUME BInv PROVE AllRowsTaken /\ ZeroMeansSuspended
    BY DEF RowsKeepComing
  <2>1. AllRowsTaken
    <3> SUFFICES ASSUME Decoding, output_scanline >= output_height,
                        output_iMCU_row # total_iMCU_rows
                 PROVE  FALSE
      BY DEF AllRowsTaken, Decoding
    <3>1. output_iMCU_row < total_iMCU_rows /\ output_iMCU_row \in Int
      BY NumberFacts
    <3>2. output_iMCU_row * M * V < output_height
      BY <3>1, NumberFacts, IMCUsInImage
    <3>3. Done >= output_scanline /\ Done \in Nat /\ output_iMCU_row * M * V \in Int
      BY NumberFacts DEF Done
    <3> QED BY <3>2, <3>3, DoneDelivered, NumberFacts
  <2>2. ZeroMeansSuspended
    BY DEF BInv, CallPhase, ZeroMeansSuspended
  <2> QED BY <2>1, <2>2
<1> QED BY <1>1, Bounds, PTL

\* The types, and the strips of the virtual array.
LEMMA StripsLegal == BInv => StripLegal
<1> SUFFICES ASSUME BInv, pc = "process", next_row = 0, process_data \in {"prepass", "crank"}
             PROVE  AccessLegal(starting_row, process_data = "prepass")
  BY DEF StripLegal
<1>1. /\ starting_row \in Nat /\ Done = starting_row + next_row
      /\ starting_row <= first_undef_row
      /\ process_data = "crank" => first_undef_row = rows_in_array
      /\ Done < output_height
  BY NumberFacts DEF BInv, StripPosition, CallPhase
<1>2. PICK k \in 0 .. starting_row : starting_row = k * V
  BY DEF BInv, StripPosition
<1>3. k \in Int /\ k * V < output_height
  BY <1>1, <1>2
<1>4. starting_row + V <= rows_in_array
  BY <1>2, <1>3, NumberFacts, StripsInArray
<1> QED BY <1>1, <1>4 DEF AccessLegal, strip_height

\* Two-pass quantization keeps to the image if strips have at most two rows, or
\* the application asks for whole strips.
StripsEmittedWhole ==
  \A im \in Images :
    "twopass" \in im.PassKinds => im.V <= 2 \/ \A n \in im.MaxLines : n >= im.V

\* Then the rows left of a strip are never more than those left of the image.
NoOverrun ==
  process_data = "crank" =>
    /\ Done <= output_height
    /\ next_row > 0 /\ V > 2 => Done = output_height
    /\ pc = "process" => out_rows_avail \in image.MaxLines

LEMMA NextNoOverrun ==
  ASSUME StripsEmittedWhole, BInv, NoOverrun, [Next]_vars
  PROVE  NoOverrun'
<1> SUFFICES ASSUME process_data' = "crank" PROVE NoOverrun'
  BY DEF NoOverrun
<1>1. CASE UNCHANGED vars
  BY <1>1 DEF vars, callVars, postVars, NoOverrun, Done, V
<1>2. CASE process_data = "crank" /\ CrankPost
  <2> DEFINE r == RowsInStrip
             rows == [k \in 1 .. RowsInStrip |-> whole_image[starting_row + next_row + k - 1]]
  <2>1. /\ pc = "process" /\ pc' = "return" /\ Emit(rows) /\ Advance(r)
        /\ UNCHANGED <<image, output_height, output_scanline>> /\ V' = V
    BY <1>2, SameImage DEF CrankPost, InProcess
  <2>2. /\ V \in Nat \ {0} /\ next_row \in 0 .. V - 1 /\ starting_row \in Nat
        /\ Done = starting_row + next_row /\ Done < output_height /\ output_height \in Nat
        /\ out_row_ctr = 0 /\ out_rows_avail \in Nat /\ out_rows_avail > 0
        /\ output_scanline \in Nat
    BY <1>2, <2>1, NumberFacts DEF BInv, StripPosition, CallPhase, Decoding
  <2>3. V > 2 => next_row = 0 /\ out_rows_avail >= V
    <3>1. "twopass" \in image.PassKinds /\ out_rows_avail \in image.MaxLines
      BY <1>2, <2>1 DEF BInv, StripPosition, NoOverrun
    <3>2. V > 2 => next_row = 0
      BY <1>2, <2>2 DEF NoOverrun
    <3> QED BY <3>1, <3>2, <2>2, NumberFacts DEF StripsEmittedWhole, V
  <2>4. r = Min2(Min2(V - next_row, out_rows_avail), output_height - starting_row)
    BY <2>2 DEF RowsInStrip, strip_height
  <2>5. r \in 1 .. V - next_row
    BY <2>2, <2>4 DEF Min2
  <2>6. Done' = Done + r
    <3>1. out_row_ctr' = out_row_ctr + Len(rows) /\ Len(rows) = r
      BY <2>1, <2>5 DEF Emit
    <3> HIDE DEF rows, r
    <3> QED BY <3>1, <2>1, <2>2, <2>5 DEF Done
  <2> HIDE DEF r, rows
  <2>7. Done + r <= output_height /\ (V > 2 /\ r < V => Done + r = output_height)
    BY <2>2, <2>3, <2>4 DEF Min2
  <2>8. next_row' > 0 /\ V > 2 => r < V
    BY <2>1, <2>2, <2>3, <2>5 DEF Advance, strip_height
  <2> QED BY <2>1, <2>6, <2>7, <2>8 DEF NoOverrun
<1>3. CASE process_data = "crank" /\ ReadScanlines
  <2>1. PICK n \in image.MaxLines : Call(n)
    BY <1>3 DEF ReadScanlines
  <2>2. /\ pc = "idle" /\ pc' = "process" /\ out_rows_avail' = n /\ out_row_ctr' = 0
        /\ UNCHANGED <<image, output_height, output_scanline, postVars>> /\ V' = V
    BY <2>1, SameImage DEF Call
  <2>3. Done' = Done
    BY <2>2, NumberFacts DEF Done
  <2> QED BY <1>3, <2>2, <2>3 DEF NoOverrun, postVars
<1>4. CASE process_data = "crank" /\ Return
  <2>1. /\ pc = "return" /\ pc' = "idle" /\ output_scanline' = output_scanline + out_row_ctr
        /\ UNCHANGED <<image, output_height, postVars>> /\ V' = V
    BY <1>4, SameImage DEF Return
  <2>2. Done' = Done
    BY <2>1, NumberFacts DEF Done
  <2> QED BY <1>4, <2>1, <2>2 DEF NoOverrun, postVars
<1>5. CASE StartCrankPass
  BY <1>5, NumberFacts DEF StartCrankPass, NoOverrun, Done, callVars
<1>6. CASE \E kind \in image.PassKinds : StartPass(kind)
  <2>1. process_data' \in {"thru", "onepass", "prepass"}
    BY <1>6, NumberFacts, ImageFacts DEF StartPass
  <2> QED BY <2>1
<1>7. process_data = "crank" \/ StartCrankPass \/ (\E kind \in image.PassKinds : StartPass(kind))
      \/ UNCHANGED vars
  BY DEF Next, Suspend, Process, Load, SimpleMain, PostponedRow, PrepareForIMCU, ProcessIMCU,
         CrankPost, ReadScanlines, CrankDummyPass, Call, Return
<1>8. process_data = "crank" /\ Next =>
        \/ CrankPost \/ ReadScanlines \/ Return \/ StartCrankPass
        \/ \E kind \in image.PassKinds : StartPass(kind)
  BY DEF Next, Suspend, Process, Load, SimpleMain, PostponedRow, PrepareForIMCU, ProcessIMCU,
         CrankDummyPass, InContext
<1> QED BY <1>1, <1>2, <1>3, <1>4, <1>5, <1>6, <1>7, <1>8

\* The counters, the rows in the buffers and the strips stay within the image,
\* the buffers and the virtual array, and no call returns a row from below the
\* bottom of the image.
THEOREM WithinBoundsTheorem ==
  ASSUME StripsEmittedWhole
  PROVE  Spec => []WithinBounds
<1>1. Init => NoOverrun
  BY DEF Init, NoOverrun
<1>2. BInv /\ NoOverrun => WithinBounds
  <2> SUFFICES ASSUME BInv, NoOverrun PROVE NoRowPastBottom
    BY StripsLegal DEF BInv, WithinBounds
  <2>1. Done <= output_height \/ process_data = "none"
    BY DEF BInv, TypeOK, UpsamplerPhase, NoOverrun, Decoding
  <2>2. Done >= output_scanline /\ Done \in Nat
    BY NumberFacts DEF Done
  <2>3. process_data = "none" => output_scanline = 0
    BY DEF BInv, CallPhase
  <2> QED BY <2>1, <2>2, <2>3, NumberFacts DEF NoRowPastBottom
<1>3. BInv /\ NoOverrun /\ [Next]_vars => NoOverrun'
  BY NextNoOverrun
<1> QED BY <1>1, <1>2, <1>3, Bounds, PTL DEF Spec

-------------------------------------------------------------------------------
(* The inductive invariant: what is where                                  *)

\* What the scanlines of the image are to be made from.
Wanted == [n \in 0 .. output_height - 1 |-> Expected(n)]

\* Sample row s of component c, or garbage below the last one.
Real(c, s) == IF s < downsampled_height(c) THEN s ELSE Garbage

\* Sample rows of component c in an iMCU row.
RowsPerIMCU(c) == M * RowGroup[c]

\* The buffer row behind place i of list p: the second list has the last four
\* row groups in the order 2, 3, 0, 1.
Place(p, c, i) ==
  IF p = 0 \/ i < (M - 2) * RowGroup[c] THEN i
  ELSE IF i < M * RowGroup[c] THEN i + 2 * RowGroup[c]
  ELSE i - 2 * RowGroup[c]

\* Has the last iMCU row's list had its bottom set, or has all been used?
BottomSet ==
  output_iMCU_row = total_iMCU_rows
    /\ (context_state = "PROCESS_IMCU" \/ (context_state = "POSTPONED_ROW" /\ ~buffer_full))

\* No list has wrapped around before the first iMCU row is used up.
FirstIMCU == output_iMCU_row <= 1 /\ context_state # "POSTPONED_ROW"

ListsRight ==
  Decoding /\ NeedContext /\ Done < output_height =>
    /\ DOMAIN xbuffer = {0, 1}
    /\ FirstIMCU => whichptr = 0
    /\ \A c \in Component : \A p \in {0, 1} : \A i \in ListIndex(c) :
         LET rg == RowGroup[c] IN
         /\ 0 <= i /\ i < (M + 2) * rg =>
              xbuffer[p][c][i] =
                IF BottomSet /\ p = whichptr /\ RowsLeft(c) <= i /\ i < RowsLeft(c) + 2 * rg
                  THEN Place(p, c, RowsLeft(c) - 1)
                  ELSE Place(p, c, i)
         /\ FirstIMCU /\ p = 0 /\ i < 0 => xbuffer[p][c][i] = 0
         /\ ~FirstIMCU /\ i < 0 => xbuffer[p][c][i] = Place(p, c, i + (M + 2) * rg)
         /\ ~FirstIMCU /\ i >= (M + 2) * rg =>
              xbuffer[p][c][i] = Place(p, c, i - (M + 2) * rg)

\* The buffer holds the iMCU row last delivered, and with context rows the last
\* two row groups of the one before.
SamplesRight ==
  Decoding /\ Done < output_height =>
    /\ buffer_full =>
         \A c \in Component : \A i \in 0 .. RowsPerIMCU(c) - 1 :
           buffer[c][IF NeedContext THEN Place(whichptr, c, i) ELSE i] =
             Real(c, (output_iMCU_row - 1) * RowsPerIMCU(c) + i)
    /\ NeedContext =>
         LET before == IF buffer_full THEN output_iMCU_row - 1 ELSE output_iMCU_row IN
         before >= 1 =>
           \A c \in Component : \A j \in 0 .. 2 * RowGroup[c] - 1 :
             buffer[c][Place(whichptr, c, RowsPerIMCU(c) + j)] =
               before * RowsPerIMCU(c) - 2 * RowGroup[c] + j

\* What the upsamplers keep of the row group in progress.
KeptRight ==
  Decoding /\ Part > 0 =>
    /\ ~Merged =>
         \A c \in Component : \A k \in 0 .. V - 1 :
           Done - Part + k < output_height =>
             color_buf[c][k] = IF Fullsize(c) THEN SampleRow(c, rowgroup_ctr, k)
                               ELSE Wanted[Done - Part + k][c]
    /\ Merged /\ Done < output_height => spare_row = Wanted[Done]

\* What was returned, or saved.
LinesSoFar ==
  /\ lines = [n \in 1 .. (IF process_data \in {"none", "prepass"} THEN 0 ELSE Done) |->
                lines[n]]
  /\ whole_image = [r \in 0 .. rows_in_array - 1 |-> whole_image[r]]
  /\ process_data \notin {"none", "prepass"} =>
       \A n \in 1 .. Done : n <= output_height => lines[n] = Wanted[n - 1]
  /\ process_data = "prepass" => \A r \in 0 .. Done - 1 : whole_image[r] = Wanted[r]
  /\ process_data = "crank" =>
       \A r \in 0 .. output_height - 1 : whole_image[r] = Wanted[r]

CInv == ListsRight /\ SamplesRight /\ KeptRight /\ LinesSoFar

-------------------------------------------------------------------------------
(* Places                                                                  *)

\* The sizes of the buffers and of the lists, in sample rows.
LEMMA BufferFacts ==
  ASSUME image \in Images, output_height \in image.Heights, NEW c \in Component
  PROVE  /\ RowGroup[c] \in Nat \ {0} /\ RowsPerIMCU(c) \in Nat \ {0}
         /\ M * RowGroup[c] = RowsPerIMCU(c)
         /\ (M - 2) * RowGroup[c] = RowsPerIMCU(c) - 2 * RowGroup[c]
         /\ (M + 2) * RowGroup[c] = RowsPerIMCU(c) + 2 * RowGroup[c]
         /\ ListIndex(c) = (-RowGroup[c]) .. RowsPerIMCU(c) + 3 * RowGroup[c] - 1
         /\ BufferRow(c) = 0 .. (IF NeedContext THEN RowsPerIMCU(c) + 2 * RowGroup[c]
                                 ELSE RowsPerIMCU(c)) - 1
         /\ NeedContext => RowsPerIMCU(c) >= 2 * RowGroup[c]
         /\ RowsLeft(c) \in 1 .. RowsPerIMCU(c)
<1> DEFINE rg == RowGroup[c]
<1>1. M \in Nat \ {0} /\ rg \in Nat \ {0} /\ (NeedContext => M >= 2)
  BY ImageFacts
<1>2. RowsPerIMCU(c) = M * rg /\ M * rg \in Nat \ {0} /\ RowsLeft(c) \in 1 .. M * rg
  BY <1>1, ProductOrder, RowsLeftIs DEF RowsPerIMCU
<1>3. /\ (M - 2) * rg = M * rg - 2 * rg /\ (M + 2) * rg = M * rg + 2 * rg
      /\ (M + 3) * rg = M * rg + 3 * rg
  BY <1>1
<1>4. NeedContext => M * rg >= 2 * rg
  BY <1>1, ProductOrder
<1>5. ListIndex(c) = (-rg) .. RowsPerIMCU(c) + 3 * rg - 1
  <2>1. RowsPerIMCU(c) + 3 * rg = (M + 3) * rg
    BY <1>2, <1>3
  <2>2. RowsPerIMCU(c) \in Int /\ (M + 3) * rg \in Int
    BY <1>1, <1>2
  <2> QED BY <1>1, <2>1, <2>2 DEF ListIndex
<1>6. BufferRow(c) = 0 .. (IF NeedContext THEN RowsPerIMCU(c) + 2 * rg ELSE RowsPerIMCU(c)) - 1
  BY <1>2, <1>3 DEF BufferRow, Groups
<1>7. RowsPerIMCU(c) \in Nat \ {0} /\ (NeedContext => RowsPerIMCU(c) >= 2 * rg)
      /\ RowsLeft(c) \in 1 .. RowsPerIMCU(c)
  <2> DEFINE x == M * rg
  <2>1. RowsPerIMCU(c) = x /\ x \in Nat \ {0} /\ (NeedContext => x >= 2 * rg)
        /\ RowsLeft(c) \in 1 .. x
    BY <1>2, <1>4
  <2> HIDE DEF x
  <2> QED BY <2>1
<1>8. (M - 2) * rg = RowsPerIMCU(c) - 2 * rg /\ (M + 2) * rg = RowsPerIMCU(c) + 2 * rg
  BY <1>2, <1>3
<1> QED BY <1>1, <1>2, <1>5, <1>6, <1>7, <1>8

\* With context rows there is room for two row groups more.
LEMMA ContextFacts ==
  ASSUME image \in Images, output_height \in image.Heights, NeedContext, NEW c \in Component
  PROVE  /\ RowGroup[c] \in Nat \ {0} /\ RowsPerIMCU(c) \in Nat \ {0}
         /\ RowsPerIMCU(c) >= 2 * RowGroup[c]
         /\ BufferRow(c) = 0 .. RowsPerIMCU(c) + 2 * RowGroup[c] - 1
BY BufferFacts

\* Each list orders the buffer rows in its own way; the last two row groups of
\* either are those before the last two of the iMCU row in the other.
LEMMA PlaceIs ==
  ASSUME image \in Images, output_height \in image.Heights, NeedContext,
         NEW c \in Component, NEW p \in {0, 1},
         NEW i \in 0 .. RowsPerIMCU(c) + 2 * RowGroup[c] - 1
  PROVE  /\ Place(p, c, i) \in BufferRow(c)
         /\ \A j \in 0 .. RowsPerIMCU(c) + 2 * RowGroup[c] - 1 :
              Place(p, c, j) = Place(p, c, i) => j = i
         /\ i >= RowsPerIMCU(c) => Place(1 - p, c, i) = Place(p, c, i - 2 * RowGroup[c])
<1> DEFINE rg == RowGroup[c]
           R == RowsPerIMCU(c)
<1>1. /\ rg \in Nat \ {0} /\ R \in Nat \ {0} /\ R >= 2 * rg
      /\ M * rg = R /\ (M - 2) * rg = R - 2 * rg
      /\ BufferRow(c) = 0 .. R + 2 * rg - 1
  BY BufferFacts
<1>2. ASSUME NEW j, NEW h PROVE
        Place(h, c, j) = IF h = 0 \/ j < R - 2 * rg THEN j
                         ELSE IF j < R THEN j + 2 * rg ELSE j - 2 * rg
  BY <1>1 DEF Place
<1>3. i \in 0 .. R + 2 * rg - 1
  OBVIOUS
<1> HIDE DEF R, rg
<1>4. Place(p, c, i) \in BufferRow(c)
  BY <1>1, <1>2, <1>3
<1>5. ASSUME NEW j \in 0 .. R + 2 * rg - 1, Place(p, c, j) = Place(p, c, i) PROVE j = i
  BY <1>1, <1>2, <1>3, <1>5
<1>6. i >= R => Place(1 - p, c, i) = Place(p, c, i - 2 * rg)
  <2>1. CASE p = 0
    BY <2>1, <1>1, <1>2, <1>3
  <2>2. CASE p = 1
    BY <2>2, <1>1, <1>2, <1>3
  <2> QED BY <2>1, <2>2
<1> QED BY <1>4, <1>5, <1>6 DEF R, rg

\* Places are indices of the lists, those before the wraparound.
LEMMA PlaceInList ==
  ASSUME image \in Images, output_height \in image.Heights, NeedContext, NEW c \in Component,
         NEW i \in 0 .. RowsPerIMCU(c) + 2 * RowGroup[c] - 1
  PROVE  i \in ListIndex(c) /\ 0 <= i /\ i < (M + 2) * RowGroup[c]
<1> DEFINE rg == RowGroup[c]
           R == RowsPerIMCU(c)
<1>1. i \in 0 .. R + 2 * rg - 1 /\ rg \in Nat \ {0} /\ R \in Nat
  BY ContextFacts
<1>2. (M + 2) * rg = R + 2 * rg /\ ListIndex(c) = (-rg) .. R + 3 * rg - 1
  BY BufferFacts
<1> HIDE DEF R, rg
<1> QED BY <1>1, <1>2 DEF rg

\* The sample rows of iMCU row n, counted from 0.
LEMMA SamplesOfIMCU ==
  ASSUME image \in Images, output_height \in image.Heights,
         NEW c \in Component, NEW n \in Int
  PROVE  /\ n * RowsPerIMCU(c) \in Int
         /\ (n + 1) * RowsPerIMCU(c) = n * RowsPerIMCU(c) + RowsPerIMCU(c)
         /\ (n - 1) * RowsPerIMCU(c) = n * RowsPerIMCU(c) - RowsPerIMCU(c)
         /\ n < total_iMCU_rows => n * RowsPerIMCU(c) < downsampled_height(c)
         /\ n >= 0 => n * RowsPerIMCU(c) >= 0
         /\ n = total_iMCU_rows - 1 =>
              RowsLeft(c) = downsampled_height(c) - n * RowsPerIMCU(c)
<1>1. M \in Nat \ {0} /\ RowGroup[c] \in Nat \ {0} /\ RowsPerIMCU(c) \in Nat \ {0}
      /\ RowsPerIMCU(c) = M * RowGroup[c]
  BY ImageFacts, BufferFacts
<1>2. n < total_iMCU_rows => n * RowsPerIMCU(c) < downsampled_height(c)
  <2>1. n * RowsPerIMCU(c) = (n * M) * RowGroup[c] /\ n * M \in Int
    BY <1>1
  <2> QED BY <2>1, IMCUsInImage, SamplesInImage
<1>3. n >= 0 => n * RowsPerIMCU(c) >= 0
  BY <1>1, ProductOrder, 0 \in Int, 0 * RowsPerIMCU(c) = 0
<1> QED BY <1>1, <1>2, <1>3, RowsLeftIs

\* Scanline k of row group g of iMCU row n is made from sample row k * rg / V of
\* the group, which is a real one if the scanline is.
LEMMA SampleOfScanline ==
  ASSUME image \in Images, output_height \in image.Heights,
         NEW c \in Component, NEW n \in Int, NEW g \in Int, NEW k \in 0 .. V - 1
  PROVE  LET q == (k * RowGroup[c]) \div V
             s == ((Above(n, g) + k) * RowGroup[c]) \div V IN
         /\ q \in 0 .. RowGroup[c] - 1
         /\ s = n * RowsPerIMCU(c) + g * RowGroup[c] + q
         /\ Above(n, g) + k < output_height => s < downsampled_height(c)
<1> DEFINE rg == RowGroup[c]
           q == (k * rg) \div V
           a == (Above(n, g) + k) * rg
           s == a \div V
<1>1. V \in Nat \ {0} /\ M \in Nat \ {0} /\ rg \in Nat \ {0} /\ output_height \in Nat
  BY ImageFacts
<1>2. k * rg \in Int /\ q \in Int /\ q * V <= k * rg /\ k * rg < q * V + V
  <2>1. k * rg \in Int
    BY <1>1
  <2> QED BY <1>1, <2>1, DivIs
<1>3. 0 <= q
  <2>1. 0 <= k * rg
    BY <1>1, ProductOrder, 0 * rg = 0, 0 \in Int
  <2>2. (q + 1) * V = q * V + V /\ q * V \in Int
    BY <1>1, <1>2
  <2>3. 0 * V < (q + 1) * V
    BY <1>1, <1>2, <2>1, <2>2
  <2> HIDE DEF q
  <2> QED BY <1>1, <1>2, <2>3, ProductOrder
<1>4. q < rg
  <2>1. k * rg < V * rg
    BY <1>1, ProductOrder
  <2>2. q * V < rg * V
    BY <1>1, <1>2, <2>1
  <2> HIDE DEF q
  <2> QED BY <1>1, <1>2, <2>2, ProductOrder
<1> DEFINE b == n * RowsPerIMCU(c) + g * rg
<1>5. b \in Int
  BY <1>1 DEF RowsPerIMCU
<1>6. a = b * V + k * rg
  BY <1>1 DEF Above, RowsPerIMCU
<1>7. s = b + q
  <2>1. s = (b * V + k * rg) \div V
    BY <1>6
  <2> HIDE DEF b, s, rg
  <2> QED BY <1>1, <1>2, <1>5, <2>1, DivShift
<1>8. Above(n, g) + k < output_height => s < downsampled_height(c)
  <2>1. s \in Int /\ s * V <= a /\ a \in Int
    <3>1. a \in Int
      BY <1>1 DEF Above
    <3> QED BY <1>1, <3>1, DivIs
  <2>2. Above(n, g) + k < output_height => a < output_height * rg
    <3>1. Above(n, g) + k \in Int
      BY <1>1 DEF Above
    <3> HIDE DEF rg
    <3> QED BY <1>1, <3>1, ProductOrder
  <2>3. s * V \in Int /\ output_height * rg \in Int
    BY <1>1, <2>1
  <2> HIDE DEF a, s
  <2> QED BY <1>1, <2>1, <2>2, <2>3, SamplesInImage
<1>9. q \in 0 .. rg - 1
  <2> HIDE DEF q, rg
  <2> QED BY <1>1, <1>2, <1>3, <1>4
<1> QED BY <1>7, <1>8, <1>9

-------------------------------------------------------------------------------
(* Reading the buffer                                                      *)

\* An upsampler has its iMCU row.
Upsampling ==
  /\ InProcess /\ Decoding /\ buffer_full
  /\ NeedContext => context_state # "PREPARE_FOR_IMCU"

\* The sample row behind scanline k of the row group in progress.
Behind(c, k) == ((Done - Part + k) * RowGroup[c]) \div V

\* Without context rows the group lies in the iMCU row last delivered.
LEMMA ReadsSimple ==
  ASSUME BInv, SamplesRight, Upsampling, ~NeedContext,
         NEW c \in Component, NEW k \in 0 .. V - 1, Done - Part + k < output_height
  PROVE  SampleAt(c, SampleRow(c, rowgroup_ctr, k)) = Behind(c, k)
<1> DEFINE n == output_iMCU_row - 1
           g == rowgroup_ctr
           rg == RowGroup[c]
           R == RowsPerIMCU(c)
           q == (k * rg) \div V
           s == Behind(c, k)
<1>1. /\ n \in Nat /\ g \in 0 .. M - 1 /\ Done - Part = Above(n, g)
      /\ image \in Images /\ output_height \in image.Heights /\ M \in Nat
  <2>1. /\ output_iMCU_row >= 1 /\ rowgroup_ctr < M
        /\ Done = Above(output_iMCU_row - 1, rowgroup_ctr) + Part
    BY DEF BInv, SimplePosition, Upsampling
  <2>2. Above(output_iMCU_row - 1, rowgroup_ctr) \in Int
    BY NumberFacts, AboveNext
  <2> QED BY <2>1, <2>2, NumberFacts
<1>2. /\ q \in 0 .. rg - 1 /\ s = n * R + g * rg + q /\ s < downsampled_height(c)
  BY <1>1, SampleOfScanline DEF Behind
<1>3. /\ rg \in Nat \ {0} /\ R \in Nat \ {0} /\ M * rg = R /\ BufferRow(c) = 0 .. R - 1
  BY <1>1, BufferFacts
<1>4. n * R \in Int
  BY <1>1, SamplesOfIMCU
<1> DEFINE i == g * rg + q
           x == n * R
<1>5. i \in 0 .. R - 1
  <2>1. 0 * rg <= g * rg /\ g * rg <= (M - 1) * rg
    BY <1>1, <1>3, ProductOrder
  <2>2. (M - 1) * rg = R - rg /\ 0 * rg = 0 /\ g * rg \in Int
    BY <1>1, <1>3
  <2> DEFINE y == g * rg
  <2>3. y \in 0 .. R - rg
    BY <2>1, <2>2, <1>3
  <2> HIDE DEF q, y, R, rg
  <2> QED BY <1>2, <1>3, <2>3 DEF y
<1>6. SampleRow(c, rowgroup_ctr, k) = i
  BY DEF SampleRow
<1>7. buffer[c][i] = Real(c, x + i)
  <2>1. Done < output_height /\ Decoding /\ buffer_full
    BY DEF BInv, CallPhase, Upsampling, InProcess
  <2> HIDE DEF i
  <2> QED BY <2>1, <1>5 DEF SamplesRight
<1>8. x + i = s
  <2> DEFINE y == g * rg
  <2>1. y \in Int /\ s = x + y + q /\ i = y + q
    BY <1>1, <1>2, <1>3
  <2> HIDE DEF x, y, q, s, i
  <2> QED BY <2>1, <1>2, <1>4, <1>3 DEF x
<1>9. SampleAt(c, i) = buffer[c][i]
  <2> HIDE DEF i
  <2> QED BY <1>3, <1>5 DEF SampleAt, Pointer
<1> HIDE DEF i, x, s
<1> QED BY <1>2, <1>6, <1>7, <1>8, <1>9 DEF Real, s

\* What the list in use holds around the row group in progress: for each place
\* of an iMCU row, or of the two row groups kept of the one before.
LEMMA ListReads ==
  ASSUME BInv, ListsRight, SamplesRight, Upsampling, NeedContext, NEW c \in Component,
         NEW i \in 0 .. RowsPerIMCU(c) + 2 * RowGroup[c] - 1,
         BottomSet => i < RowsLeft(c)
  PROVE  LET first == (output_iMCU_row - 1) * RowsPerIMCU(c) IN
         /\ xbuffer[whichptr][c][i] = Place(whichptr, c, i)
         /\ SampleAt(c, i) = buffer[c][Place(whichptr, c, i)]
         /\ i < RowsPerIMCU(c) => SampleAt(c, i) = Real(c, first + i)
         /\ i >= RowsPerIMCU(c) /\ output_iMCU_row >= 2 =>
              SampleAt(c, i) = first - 2 * RowGroup[c] + (i - RowsPerIMCU(c))
<1> DEFINE w == whichptr
           rg == RowGroup[c]
           R == RowsPerIMCU(c)
<1>1. /\ Done < output_height /\ Decoding /\ buffer_full /\ w \in {0, 1}
      /\ image \in Images /\ output_height \in image.Heights
  BY NumberFacts DEF BInv, CallPhase, Upsampling, InProcess, MoreTypes
<1>2. /\ rg \in Nat \ {0} /\ R \in Nat \ {0} /\ (M + 2) * rg = R + 2 * rg
      /\ ListIndex(c) = (-rg) .. R + 3 * rg - 1
  BY <1>1, BufferFacts
<1>3. i \in ListIndex(c) /\ 0 <= i /\ i < (M + 2) * rg
  <2>1. i \in 0 .. R + 2 * rg - 1
    OBVIOUS
  <2> HIDE DEF R, rg
  <2> QED BY <1>2, <2>1
<1>4. xbuffer[w][c][i] = Place(w, c, i)
  <2>1. xbuffer[w][c][i] =
          IF BottomSet /\ w = whichptr /\ RowsLeft(c) <= i /\ i < RowsLeft(c) + 2 * rg
            THEN Place(w, c, RowsLeft(c) - 1) ELSE Place(w, c, i)
    BY <1>1, <1>3 DEF ListsRight
  <2>2. RowsLeft(c) \in Int
    BY <1>1, BufferFacts
  <2>3. ~(BottomSet /\ w = whichptr /\ RowsLeft(c) <= i /\ i < RowsLeft(c) + 2 * rg)
    BY <2>2
  <2> QED BY <2>1, <2>3, Zenon
<1>5. Place(w, c, i) \in BufferRow(c)
  BY <1>1, PlaceIs
<1>6. SampleAt(c, i) = buffer[c][Place(w, c, i)]
  BY <1>4, <1>5 DEF SampleAt, Pointer
<1>7. i < R => SampleAt(c, i) = Real(c, (output_iMCU_row - 1) * R + i)
  <2> SUFFICES ASSUME i < R
               PROVE  SampleAt(c, i) = Real(c, (output_iMCU_row - 1) * R + i)
    OBVIOUS
  <2>1. i \in 0 .. R - 1
    BY <1>2, <1>3
  <2>2. buffer[c][Place(w, c, i)] = Real(c, (output_iMCU_row - 1) * R + i)
    BY <2>1, <1>1 DEF SamplesRight
  <2> QED BY <2>2, <1>6
<1>8. i >= R /\ output_iMCU_row >= 2 =>
        SampleAt(c, i) = (output_iMCU_row - 1) * R - 2 * rg + (i - R)
  <2> SUFFICES ASSUME i >= R, output_iMCU_row >= 2
               PROVE  SampleAt(c, i) = (output_iMCU_row - 1) * R - 2 * rg + (i - R)
    OBVIOUS
  <2> DEFINE j == i - R
  <2>1. j \in 0 .. 2 * rg - 1 /\ R + j = i
    BY <1>2, SMTT(30)
  <2>2. output_iMCU_row - 1 >= 1
    BY NumberFacts
  <2>3. \A h \in 0 .. 2 * rg - 1 :
          buffer[c][Place(w, c, R + h)] = (output_iMCU_row - 1) * R - 2 * rg + h
    BY <2>2, <1>1 DEF SamplesRight
  <2> HIDE DEF j
  <2>4. buffer[c][Place(w, c, R + j)] = (output_iMCU_row - 1) * R - 2 * rg + j
    BY <2>1, <2>3
  <2> QED BY <2>1, <2>4, <1>6 DEF j
<1> QED BY <1>4, <1>6, <1>7, <1>8

\* A row group and its neighbours.
Neighbours(c, k) ==
  LET i == SampleRow(c, rowgroup_ctr, k)
      s == Behind(c, k)
  IN /\ SampleAt(c, i) = s
     /\ SampleAt(c, i - 1) = Clamped(c, s - 1)
     /\ SampleAt(c, i + 1) = Clamped(c, s + 1)

\* The last row group of the previous iMCU row lies at the end of the list, and
\* the list wraps around to the new one.
LEMMA ReadsPostponed ==
  ASSUME BInv, ListsRight, SamplesRight, Upsampling, NeedContext,
         context_state = "POSTPONED_ROW",
         NEW c \in Component, NEW k \in 0 .. V - 1, Done - Part + k < output_height
  PROVE  Neighbours(c, k)
<1> DEFINE n == output_iMCU_row - 1
           rg == RowGroup[c]
           R == RowsPerIMCU(c)
           w == whichptr
           q == (k * rg) \div V
           s == Behind(c, k)
           x == n * R
           i == SampleRow(c, rowgroup_ctr, k)
<1>1. /\ image \in Images /\ output_height \in image.Heights /\ M \in Nat \ {0}
      /\ output_iMCU_row \in Nat /\ output_iMCU_row >= 2
      /\ output_iMCU_row <= total_iMCU_rows /\ total_iMCU_rows \in Nat
      /\ rowgroup_ctr = M + 1 /\ Done - Part = Above(n, -1) /\ w \in {0, 1}
  <2>1. /\ output_iMCU_row >= 2 /\ rowgroup_ctr = M + 1
        /\ Done = Above(output_iMCU_row - 1, -1) + Part
    BY DEF BInv, ContextPosition, Upsampling
  <2>2. Above(output_iMCU_row - 1, -1) \in Int
    BY NumberFacts, AboveNext
  <2> QED BY <2>1, <2>2, NumberFacts DEF BInv, MoreTypes
<1>0. image \in Images /\ output_height \in image.Heights /\ M \in Nat \ {0}
  BY <1>1
<1>12. M * rg = R /\ (M + 2) * rg = R + 2 * rg /\ ListIndex(c) = (-rg) .. R + 3 * rg - 1
  BY <1>0, BufferFacts
<1>2. /\ rg \in Nat \ {0} /\ R \in Nat \ {0} /\ R >= 2 * rg
      /\ BufferRow(c) = 0 .. R + 2 * rg - 1
  BY <1>0, ContextFacts
<1>3. /\ x \in Int /\ x >= R /\ x < downsampled_height(c) /\ downsampled_height(c) \in Nat
  <2>1. n \in Int /\ n >= 1 /\ n < total_iMCU_rows
    BY <1>1
  <2> HIDE DEF n
  <2>2. x \in Int /\ x < downsampled_height(c)
    BY <1>1, <2>1, SamplesOfIMCU
  <2>3. 1 * R <= n * R /\ 1 * R = R
    BY <1>2, <2>1, ProductOrder
  <2>4. downsampled_height(c) \in Nat
    BY <1>1, SamplesInImage, 0 \in Int
  <2> HIDE DEF R
  <2> QED BY <2>2, <2>3, <2>4
<1>4. q \in 0 .. rg - 1 /\ s = x - rg + q
  <2>1. q \in 0 .. rg - 1 /\ s = x + (-1) * rg + q
    <3>1. n \in Int /\ -1 \in Int
      BY <1>1
    <3>2. s = ((Above(n, -1) + k) * rg) \div V
      BY <1>1 DEF Behind
    <3> HIDE DEF n
    <3> QED BY <1>1, <3>1, <3>2, SampleOfScanline
  <2>2. (-1) * rg = -rg
    BY <1>2
  <2> HIDE DEF q, x, rg, s
  <2> QED BY <2>1, <2>2, <1>2, <1>3
<1>5. i = R + rg + q
  <2>1. i = (M + 1) * rg + q
    BY <1>1 DEF SampleRow
  <2> HIDE DEF R, q, rg
  <2>2. (M + 1) * rg = M * rg + 1 * rg
    <3>1. M \in Int /\ 1 \in Int /\ rg \in Int
      BY <1>1, <1>2
    <3> QED BY <3>1, SumTimes
  <2>3. M * rg = R /\ 1 * rg = rg /\ rg \in Int /\ R \in Int
    BY <1>2, <1>12
  <2> HIDE DEF i
  <2> QED BY <2>1, <2>2, <2>3
<1>6. /\ ~BottomSet /\ ~FirstIMCU /\ Done < output_height /\ Decoding /\ buffer_full
  BY <1>1 DEF BInv, CallPhase, Upsampling, InProcess, BottomSet, FirstIMCU
<1> HIDE DEF q, s, i, R, rg, x
<1>7. ASSUME NEW j \in 0 .. 2 * rg - 1
      PROVE  SampleAt(c, R + j) = x - 2 * rg + j
  <2> DEFINE h == R + j
  <2>1. h \in 0 .. R + 2 * rg - 1 /\ h >= R /\ h - R = j
    BY <1>2
  <2> HIDE DEF h
  <2>2. SampleAt(c, h) = x - 2 * rg + (h - R)
    BY <1>1, <1>6, <2>1, ListReads DEF R, rg, x
  <2> QED BY <2>1, <2>2 DEF h
<1>8. SampleAt(c, R + 2 * rg) = x
  <2> DEFINE h == R + 2 * rg
  <2>1. h \in ListIndex(c) /\ h >= (M + 2) * rg /\ h - (M + 2) * rg = 0
    BY <1>2, <1>12
  <2> HIDE DEF h
  <2>2. xbuffer[w][c][h] = Place(w, c, 0)
    <3>1. xbuffer[w][c][h] = Place(w, c, h - (M + 2) * rg)
      BY <1>1, <1>6, <2>1 DEF ListsRight, rg
    <3> QED BY <2>1, <3>1
  <2>3. Place(w, c, 0) \in BufferRow(c)
    <3>1. 0 \in 0 .. R + 2 * rg - 1
      BY <1>2
    <3> QED BY <1>1, <3>1, PlaceIs DEF R, rg
  <2>4. buffer[c][Place(w, c, 0)] = Real(c, x + 0)
    <3>1. 0 \in 0 .. R - 1
      BY <1>2
    <3> QED BY <1>6, <3>1 DEF SamplesRight, R, x
  <2> QED BY <2>2, <2>3, <2>4, <1>3 DEF SampleAt, Pointer, Real, h
<1>9. SampleAt(c, i) = s
  <2>1. rg + q \in 0 .. 2 * rg - 1 /\ R + (rg + q) = i /\ x - 2 * rg + (rg + q) = s
    BY <1>2, <1>3, <1>4, <1>5
  <2> DEFINE j == rg + q
  <2> HIDE DEF j
  <2>2. SampleAt(c, R + j) = x - 2 * rg + j
    BY <1>7, <2>1 DEF j
  <2> QED BY <2>1, <2>2 DEF j
<1>10. SampleAt(c, i - 1) = Clamped(c, s - 1)
  <2>1. rg + q - 1 \in 0 .. 2 * rg - 1 /\ R + (rg + q - 1) = i - 1
        /\ x - 2 * rg + (rg + q - 1) = s - 1
    BY <1>2, <1>3, <1>4, <1>5
  <2> DEFINE j == rg + q - 1
  <2> HIDE DEF j
  <2>2. SampleAt(c, R + j) = x - 2 * rg + j
    BY <1>7, <2>1 DEF j
  <2>3. Clamped(c, s - 1) = s - 1
    BY <1>2, <1>3, <1>4 DEF Clamped
  <2> QED BY <2>1, <2>2, <2>3 DEF j
<1>11. SampleAt(c, i + 1) = Clamped(c, s + 1)
  <2>1. Clamped(c, s + 1) = s + 1
    BY <1>2, <1>3, <1>4 DEF Clamped
  <2>2. CASE q = rg - 1
    <3>1. i + 1 = R + 2 * rg /\ s + 1 = x
      BY <2>2, <1>2, <1>3, <1>4, <1>5
    <3> QED BY <3>1, <2>1, <1>8
  <2>3. CASE q < rg - 1
    <3>1. rg + q + 1 \in 0 .. 2 * rg - 1 /\ R + (rg + q + 1) = i + 1
          /\ x - 2 * rg + (rg + q + 1) = s + 1
      BY <2>3, <1>2, <1>3, <1>4, <1>5
    <3> DEFINE j == rg + q + 1
    <3> HIDE DEF j
    <3>2. SampleAt(c, R + j) = x - 2 * rg + j
      BY <1>7, <3>1 DEF j
    <3> QED BY <3>1, <3>2, <2>1 DEF j
  <2> QED BY <2>2, <2>3, <1>2, <1>4
<1> QED BY <1>9, <1>10, <1>11 DEF Neighbours, i, s

\* The row groups of the iMCU row last delivered lie at the beginning of the list;
\* above them the list wraps around to the one before, or repeats the first sample
\* row of the image, and below them it repeats the last one.
LEMMA ReadsProcess ==
  ASSUME BInv, ListsRight, SamplesRight, Upsampling, NeedContext,
         context_state = "PROCESS_IMCU",
         NEW c \in Component, NEW k \in 0 .. V - 1, Done - Part + k < output_height
  PROVE  Neighbours(c, k)
<1> DEFINE n == output_iMCU_row - 1
           g == rowgroup_ctr
           rg == RowGroup[c]
           R == RowsPerIMCU(c)
           L == RowsLeft(c)
           w == whichptr
           q == (k * rg) \div V
           s == Behind(c, k)
           x == n * R
           i == SampleRow(c, rowgroup_ctr, k)
           dh == downsampled_height(c)
<1>0. image \in Images /\ output_height \in image.Heights
  BY NumberFacts
<1>1. /\ M \in Nat \ {0} /\ n \in Nat /\ total_iMCU_rows \in Nat \ {0}
      /\ n <= total_iMCU_rows - 1
      /\ g \in Nat /\ Done - Part = Above(n, g) /\ w \in {0, 1}
      /\ g < (IF n = total_iMCU_rows - 1 THEN LastGroups ELSE M - 1)
  <2>1. /\ output_iMCU_row >= 1 /\ rowgroup_ctr < rowgroups_avail
        /\ rowgroups_avail = IF output_iMCU_row = total_iMCU_rows THEN LastGroups ELSE M - 1
        /\ Done = Above(output_iMCU_row - 1, rowgroup_ctr) + Part
    BY DEF BInv, ContextPosition, Upsampling
  <2>2. Above(output_iMCU_row - 1, rowgroup_ctr) \in Int
    BY NumberFacts, AboveNext
  <2> QED BY <2>1, <2>2, NumberFacts DEF BInv, MoreTypes
<1>2. g <= M - 1 /\ (n < total_iMCU_rows - 1 => g <= M - 2)
  BY <1>0, <1>1, LastGroupsIs
<1>3. rg \in Nat \ {0} /\ R \in Nat \ {0} /\ R >= 2 * rg /\ BufferRow(c) = 0 .. R + 2 * rg - 1
  BY <1>0, ContextFacts
<1>4. M * rg = R /\ (M + 2) * rg = R + 2 * rg /\ ListIndex(c) = (-rg) .. R + 3 * rg - 1
  BY <1>0, BufferFacts
<1>5. L \in 1 .. R
  BY <1>0, BufferFacts
<1>6. dh \in Nat
  BY <1>0, SamplesInImage, 0 \in Int
<1>7. /\ x \in Int /\ x >= 0 /\ x < dh
      /\ n = total_iMCU_rows - 1 => L = dh - x
      /\ n < total_iMCU_rows - 1 => x + R < dh
  <2>1. n \in Int /\ n < total_iMCU_rows /\ n + 1 \in Int
    BY <1>1
  <2> HIDE DEF n
  <2>2. /\ x \in Int /\ x < dh /\ (n + 1) * R = x + R
        /\ n = total_iMCU_rows - 1 => L = dh - x
    BY <1>0, <2>1, SamplesOfIMCU
  <2>3. x >= 0
    BY <1>0, <1>1, <2>1, SamplesOfIMCU
  <2>4. n + 1 < total_iMCU_rows => (n + 1) * R < dh
    BY <1>0, <2>1, SamplesOfIMCU
  <2> HIDE DEF x
  <2> QED BY <2>1, <2>2, <2>3, <2>4, <1>1
<1>8. q \in 0 .. rg - 1 /\ s = x + i /\ s < dh /\ i \in 0 .. R - 1
      /\ (n < total_iMCU_rows - 1 => i + 1 \in 0 .. R - 1)
  <2> DEFINE y == g * rg
  <2>1. q \in 0 .. rg - 1 /\ s = x + y + q /\ s < dh
    <3>1. n \in Int /\ g \in Int
      BY <1>1
    <3>2. s = ((Above(n, g) + k) * rg) \div V /\ Above(n, g) + k < output_height
      BY <1>1 DEF Behind
    <3> HIDE DEF n, g
    <3> QED BY <1>0, <3>1, <3>2, SampleOfScanline
  <2>2. i = y + q
    BY DEF SampleRow
  <2>3. 0 * rg <= y /\ y <= (M - 1) * rg /\ (g <= M - 2 => y <= (M - 2) * rg)
    <3>1. g \in Int /\ 0 <= g /\ M - 1 \in Int /\ M - 2 \in Int /\ 0 \in Int
      BY <1>1
    <3>2. rg \in Nat \ {0}
      BY <1>3
    <3> HIDE DEF g, rg
    <3> QED BY <3>1, <3>2, <1>2, ProductOrder
  <2>4. 0 * rg = 0 /\ (M - 1) * rg = M * rg - rg /\ (M - 2) * rg = M * rg - 2 * rg /\ y \in Int
    <3>1. g \in Int /\ M \in Int /\ rg \in Int
      BY <1>1, <1>3
    <3> HIDE DEF g, rg
    <3> QED BY <3>1
  <2> DEFINE z == M * rg
  <2>5. z = R
    BY <1>4
  <2>6. y \in 0 .. R - rg /\ (g <= M - 2 => y <= R - 2 * rg)
    <3>1. 0 <= y /\ y <= z - rg /\ (g <= M - 2 => y <= z - 2 * rg) /\ y \in Int
      BY <2>3, <2>4
    <3> HIDE DEF y, z, R, rg
    <3> QED BY <3>1, <2>5, <1>3
  <2> HIDE DEF y, z, R, rg, x, q, i, s, n
  <2> QED BY <2>1, <2>2, <2>6, <1>2, <1>3, <1>7
<1>9. /\ BottomSet <=> n = total_iMCU_rows - 1
      /\ FirstIMCU <=> n = 0
      /\ Done < output_height /\ Decoding /\ buffer_full
  <2>1. BottomSet <=> n = total_iMCU_rows - 1
    BY NumberFacts DEF BottomSet
  <2>2. FirstIMCU <=> n = 0
    BY <1>1, NumberFacts DEF FirstIMCU
  <2>3. Done < output_height /\ Decoding /\ buffer_full
    BY DEF BInv, CallPhase, Upsampling, InProcess
  <2> QED BY <2>1, <2>2, <2>3
<1>10. ASSUME NEW j \in 0 .. R - 1, x + j < dh
       PROVE  SampleAt(c, j) = x + j
  <2>1. j \in 0 .. R + 2 * rg - 1 /\ j < R
    BY <1>3
  <2>2. BottomSet => j < L
    BY <1>7, <1>9, <1>10, <1>6
  <2>3. SampleAt(c, j) = Real(c, x + j)
    BY <2>1, <2>2, ListReads
  <2> QED BY <2>3, <1>10 DEF Real
<1>14. n \in Nat
  BY <1>1
<1> HIDE DEF q, s, i, R, rg, x, L, dh, n
<1>15. s \in Int
  BY <1>3, <1>7, <1>8
<1>11. SampleAt(c, i) = s
  BY <1>8, <1>10
<1>12. SampleAt(c, i - 1) = Clamped(c, s - 1)
  <2>1. CASE i >= 1
    <3>1. i - 1 \in 0 .. R - 1 /\ x + (i - 1) = s - 1 /\ x + (i - 1) < dh /\ s - 1 >= 0
      BY <2>1, <1>3, <1>6, <1>7, <1>8
    <3>2. SampleAt(c, i - 1) = x + (i - 1)
      BY <3>1, <1>10
    <3>3. Clamped(c, s - 1) = s - 1
      BY <3>1, <1>6, <1>8, <1>15 DEF Clamped, dh
    <3> QED BY <3>1, <3>2, <3>3
  <2>2. CASE i = 0 /\ n = 0
    <3>1. x = 0
      BY <2>2, <1>3 DEF x
    <3>2. w = 0 /\ xbuffer[w][c][i - 1] = 0
      <4>1. i - 1 \in ListIndex(c) /\ i - 1 < 0
        BY <2>2, <1>3, <1>4
      <4> QED BY <4>1, <2>2, <1>9 DEF ListsRight
    <3>3. 0 \in 0 .. R - 1 /\ 0 \in BufferRow(c)
      BY <1>3
    <3>4. Place(w, c, 0) = 0
      BY <3>2 DEF Place
    <3>5. buffer[c][Place(w, c, 0)] = Real(c, x + 0)
      BY <3>3, <1>9 DEF SamplesRight, R, x, n
    <3>6. SampleAt(c, i - 1) = 0
      BY <3>1, <3>2, <3>3, <3>4, <3>5, <1>6, <1>7 DEF SampleAt, Pointer, Real, dh
    <3>7. Clamped(c, s - 1) = 0
      BY <3>1, <2>2, <1>8 DEF Clamped
    <3> QED BY <3>6, <3>7
  <2>3. CASE i = 0 /\ n # 0
    <3> DEFINE h == R + (2 * rg - 1)
    <3>1. i - 1 \in ListIndex(c) /\ i - 1 < 0 /\ i - 1 + (M + 2) * rg = h
      BY <2>3, <1>3, <1>4
    <3>2. xbuffer[w][c][i - 1] = Place(w, c, h)
      <4>1. xbuffer[w][c][i - 1] = Place(w, c, i - 1 + (M + 2) * rg)
        BY <3>1, <2>3, <1>1, <1>9 DEF ListsRight, rg
      <4> QED BY <4>1, <3>1
    <3>3. h \in 0 .. R + 2 * rg - 1
      BY <1>3
    <3>4. Place(w, c, h) \in BufferRow(c)
      BY <3>3, <1>0, <1>1, PlaceIs DEF R, rg
    <3>5. buffer[c][Place(w, c, h)] = x - 2 * rg + (2 * rg - 1)
      <4>1. 2 * rg - 1 \in 0 .. 2 * rg - 1
        BY <1>3
      <4>2. output_iMCU_row - 1 >= 1
        <5>1. n >= 1
          BY <2>3, <1>14
        <5> QED BY <5>1 DEF n
      <4>3. \A j \in 0 .. 2 * rg - 1 : buffer[c][Place(w, c, R + j)] = x - 2 * rg + j
        BY <4>2, <1>9 DEF SamplesRight, R, rg, x, n
      <4> QED BY <4>1, <4>3
    <3>6. SampleAt(c, i - 1) = s - 1
      <4>1. x - 2 * rg + (2 * rg - 1) = s - 1
        BY <2>3, <1>3, <1>7, <1>8
      <4> HIDE DEF h
      <4> QED BY <4>1, <3>2, <3>4, <3>5 DEF SampleAt, Pointer
    <3>7. x >= 1
      <4>1. 1 * R <= n * R /\ 1 * R = R
        <5>1. n \in Int /\ 1 <= n /\ 1 \in Int
          BY <2>3, <1>14
        <5> QED BY <5>1, <1>3, ProductOrder
      <4>2. R <= x
        BY <4>1 DEF x
      <4> QED BY <4>2, <1>3, <1>7
    <3>8. Clamped(c, s - 1) = s - 1
      BY <3>7, <2>3, <1>6, <1>7, <1>8 DEF Clamped, dh
    <3> QED BY <3>6, <3>8
  <2> QED BY <2>1, <2>2, <2>3, <1>3, <1>8
<1>13. SampleAt(c, i + 1) = Clamped(c, s + 1)
  <2>1. CASE s + 1 < dh
    <3>1. i + 1 \in 0 .. R - 1 /\ x + (i + 1) = s + 1
      BY <2>1, <1>1, <1>3, <1>5, <1>6, <1>7, <1>8
    <3>2. SampleAt(c, i + 1) = s + 1
      BY <3>1, <2>1, <1>10
    <3>3. Clamped(c, s + 1) = s + 1
      BY <2>1, <1>6, <1>7, <1>8 DEF Clamped, dh
    <3> QED BY <3>2, <3>3
  <2>2. CASE s + 1 >= dh
    <3>1. s + 1 = dh /\ n = total_iMCU_rows - 1 /\ i + 1 = L
      <4>1. s + 1 = dh
        BY <2>2, <1>3, <1>6, <1>7, <1>8
      <4>2. n = total_iMCU_rows - 1
        BY <4>1, <1>1, <1>3, <1>6, <1>7, <1>8
      <4> QED BY <4>1, <4>2, <1>6, <1>7, <1>8, <1>3
    <3>2. L \in ListIndex(c) /\ 0 <= L /\ L < (M + 2) * rg /\ L < L + 2 * rg
      BY <1>3, <1>4, <1>5
    <3>3. xbuffer[w][c][L] = Place(w, c, L - 1)
      <4>1. xbuffer[w][c][L] = IF BottomSet /\ w = whichptr /\ RowsLeft(c) <= L
                                    /\ L < RowsLeft(c) + 2 * rg
                                 THEN Place(w, c, RowsLeft(c) - 1) ELSE Place(w, c, L)
        BY <3>2, <1>1, <1>9 DEF ListsRight, rg
      <4> QED BY <4>1, <3>1, <3>2, <1>5, <1>9 DEF L
    <3>4. L - 1 = i /\ i \in 0 .. R + 2 * rg - 1 /\ i < L
      BY <3>1, <1>3, <1>5, <1>8
    <3>5. SampleAt(c, i) = buffer[c][Place(w, c, i)] /\ Place(w, c, i) \in BufferRow(c)
      BY <3>4, <1>0, <1>1, ListReads, PlaceIs DEF R, rg, L
    <3>6. SampleAt(c, i + 1) = s
      BY <3>1, <3>3, <3>4, <3>5, <1>11 DEF SampleAt, Pointer
    <3>7. Clamped(c, s + 1) = s
      BY <3>1, <1>6, <1>7, <1>8, <1>3 DEF Clamped, dh
    <3> QED BY <3>6, <3>7
  <2> QED BY <2>1, <2>2, <1>15, <1>6
<1> QED BY <1>11, <1>12, <1>13 DEF Neighbours, i, s

-------------------------------------------------------------------------------
(* One call of the upsampler                                               *)

LEMMA BaseIs ==
  ASSUME BInv, Upsampling
  PROVE  Done - Part \in Nat /\ Done \in Nat /\ Part \in Nat /\ Done < output_height
<1>1. /\ image \in Images /\ output_height \in image.Heights /\ Done \in Nat /\ Part \in Nat
      /\ M \in Nat \ {0} /\ V \in Nat \ {0} /\ output_iMCU_row \in Nat /\ rowgroup_ctr \in Nat
  BY NumberFacts
<1>2. Done < output_height
  BY DEF BInv, CallPhase, Upsampling, InProcess
<1> DEFINE x == IF NeedContext /\ context_state = "POSTPONED_ROW"
                  THEN (output_iMCU_row - 1) * M - 1
                  ELSE (output_iMCU_row - 1) * M + rowgroup_ctr
<1>3. Done = x * V + Part
  <2>1. CASE ~NeedContext
    BY <2>1, <1>1 DEF BInv, SimplePosition, Upsampling, Above
  <2>2. CASE NeedContext /\ context_state = "POSTPONED_ROW"
    BY <2>2, <1>1 DEF BInv, ContextPosition, Upsampling, Above
  <2>3. CASE NeedContext /\ context_state = "PROCESS_IMCU"
    BY <2>3, <1>1 DEF BInv, ContextPosition, Upsampling, Above
  <2>4. context_state \in {"PREPARE_FOR_IMCU", "PROCESS_IMCU", "POSTPONED_ROW"}
        /\ (NeedContext => context_state # "PREPARE_FOR_IMCU")
    BY DEF BInv, MoreTypes, Upsampling
  <2> QED BY <2>1, <2>2, <2>3, <2>4
<1>4. x \in Nat
  <2>1. /\ output_iMCU_row - 1 >= 0
        /\ NeedContext /\ context_state = "POSTPONED_ROW" => output_iMCU_row - 1 >= 1
    <3>1. CASE ~NeedContext
      BY <3>1, <1>1 DEF BInv, SimplePosition, Upsampling
    <3>2. CASE NeedContext
      BY <3>2, <1>1 DEF BInv, ContextPosition, Upsampling, MoreTypes
    <3> QED BY <3>1, <3>2
  <2>2. /\ 0 * M <= (output_iMCU_row - 1) * M /\ 0 * M = 0 /\ 1 * M = M
        /\ output_iMCU_row - 1 >= 1 => 1 * M <= (output_iMCU_row - 1) * M
        /\ (output_iMCU_row - 1) * M \in Int
    <3> DEFINE n == output_iMCU_row - 1
    <3>1. n \in Int /\ 0 <= n
      BY <2>1, <1>1
    <3> HIDE DEF n
    <3>2. 0 * M <= n * M /\ 0 * M = 0 /\ 1 * M = M /\ n * M \in Int
      BY <3>1, <1>1, ProductOrder
    <3>3. n >= 1 => 1 * M <= n * M
      BY <3>1, <1>1, ProductOrder
    <3> QED BY <3>2, <3>3 DEF n
  <2> DEFINE y == (output_iMCU_row - 1) * M
  <2>3. y \in Nat /\ (NeedContext /\ context_state = "POSTPONED_ROW" => y >= 1)
    <3>1. 0 <= y /\ (output_iMCU_row - 1 >= 1 => M <= y) /\ y \in Int
      BY <2>2
    <3> HIDE DEF y
    <3> QED BY <3>1, <2>1, <1>1
  <2> HIDE DEF y
  <2>4. x = IF NeedContext /\ context_state = "POSTPONED_ROW" THEN y - 1 ELSE y + rowgroup_ctr
    BY DEF y
  <2> HIDE DEF x
  <2> QED BY <2>3, <2>4, <1>1
<1> HIDE DEF x
<1>5. x * V \in Nat
  <2>1. 0 * V <= x * V /\ 0 * V = 0 /\ x * V \in Int
    BY <1>1, <1>4, ProductOrder
  <2> QED BY <2>1
<1> QED BY <1>1, <1>2, <1>3, <1>5

\* What an upsampling method makes of the row group in progress is right.
LEMMA RowIsRight ==
  ASSUME BInv, ListsRight, SamplesRight, Upsampling,
         NEW c \in Component, NEW k \in 0 .. V - 1, Done - Part + k < output_height
  PROVE  Wanted[Done - Part + k][c] = IF Fullsize(c) THEN <<SampleAt(c, SampleRow(c, rowgroup_ctr, k))>>
                                      ELSE UpsampledRow(c, rowgroup_ctr, k)
<1> DEFINE m == Done - Part + k
           i == SampleRow(c, rowgroup_ctr, k)
           s == Behind(c, k)
<1>1. m \in 0 .. output_height - 1
  <2>1. V \in Nat /\ output_height \in Nat
    BY NumberFacts
  <2> QED BY <2>1, BaseIs
<1>2. Wanted[m] = Expected(m)
  <2> HIDE DEF m
  <2> QED BY <1>1 DEF Wanted
<1>3. Expected(m)[c] = IF NeedContext /\ ~Fullsize(c)
                         THEN <<Clamped(c, s - 1), s, Clamped(c, s + 1)>> ELSE <<s>>
  BY DEF Expected, Behind
<1>4. CASE NeedContext
  <2>1. context_state \in {"PROCESS_IMCU", "POSTPONED_ROW"}
    BY <1>4 DEF BInv, MoreTypes, Upsampling
  <2>2. Neighbours(c, k)
    BY <1>4, <2>1, ReadsProcess, ReadsPostponed
  <2>3. SampleAt(c, i) = s /\ SampleAt(c, i - 1) = Clamped(c, s - 1)
        /\ SampleAt(c, i + 1) = Clamped(c, s + 1)
    BY <2>2 DEF Neighbours
  <2>4. UpsampledRow(c, rowgroup_ctr, k) = <<SampleAt(c, i - 1), SampleAt(c, i), SampleAt(c, i + 1)>>
    BY <1>4 DEF UpsampledRow
  <2> HIDE DEF i, s, m
  <2>5. Wanted[m][c] = IF Fullsize(c) THEN <<SampleAt(c, i)>> ELSE UpsampledRow(c, rowgroup_ctr, k)
    BY <1>4, <1>2, <1>3, <2>3, <2>4
  <2> QED BY <2>5 DEF i, m
<1>5. CASE ~NeedContext
  <2>1. SampleAt(c, i) = s
    BY <1>5, ReadsSimple
  <2>2. UpsampledRow(c, rowgroup_ctr, k) = <<SampleAt(c, i)>>
    BY <1>5 DEF UpsampledRow
  <2> HIDE DEF i, s, m
  <2>3. Wanted[m][c] = IF Fullsize(c) THEN <<SampleAt(c, i)>> ELSE UpsampledRow(c, rowgroup_ctr, k)
    BY <1>5, <1>2, <1>3, <2>1, <2>2
  <2> QED BY <2>3 DEF i, m
<1> QED BY <1>4, <1>5

\* So is a merged row.
LEMMA MergedIsRight ==
  ASSUME BInv, ListsRight, SamplesRight, Upsampling, Merged,
         NEW k \in 0 .. V - 1, Done - Part + k < output_height
  PROVE  MergedRow(k) = Wanted[Done - Part + k]
<1> DEFINE m == Done - Part + k
<1>1. m \in 0 .. output_height - 1
  <2>1. V \in Nat /\ output_height \in Nat
    BY NumberFacts
  <2> QED BY <2>1, BaseIs
<1>2. ASSUME NEW c \in Component PROVE UpsampledRow(c, rowgroup_ctr, k) = Wanted[m][c]
  <2>1. ~Fullsize(c)
    BY DEF Fullsize
  <2> QED BY <2>1, RowIsRight
<1>3. \E f : Wanted[m] = [c \in Component |-> f[c]]
  <2>1. Wanted[m] = Expected(m)
    <3> HIDE DEF m
    <3> QED BY <1>1 DEF Wanted
  <2>2. Expected(m) = [c \in Component |-> Expected(m)[c]]
    BY DEF Expected
  <2> QED BY <2>1, <2>2
<1>4. Wanted[m] = [c \in Component |-> Wanted[m][c]]
  <2>1. PICK f : Wanted[m] = [c \in Component |-> f[c]]
    BY <1>3
  <2> HIDE DEF m
  <2> QED BY <2>1
<1>5. MergedRow(k) = [c \in Component |-> UpsampledRow(c, rowgroup_ctr, k)]
  BY DEF MergedRow
<1> HIDE DEF m
<1>6. MergedRow(k) = Wanted[m]
  BY <1>2, <1>4, <1>5
<1> QED BY <1>6 DEF m

\* What the upsampler keeps of a row group, when it has filled s scanlines more.
Keeps(u, s) ==
  /\ ~Merged =>
       \A c \in Component : \A k \in 0 .. V - 1 :
         Done - Part + k < output_height =>
           u.color_buf[c][k] = IF Fullsize(c) THEN SampleRow(c, rowgroup_ctr, k)
                               ELSE Wanted[Done - Part + k][c]
  /\ Merged /\ Done + s < output_height => u.spare_row = Wanted[Done + s]

\* The separate upsampler.
LEMMA SepIsRight ==
  ASSUME BInv, ListsRight, SamplesRight, KeptRight, Upsampling, ~Merged,
         NEW room \in Nat \ {0}
  PROVE  LET u == Upsample(room) IN
         /\ \A j \in 1 .. Len(u.rows) : u.rows[j] = Wanted[Done + j - 1]
         /\ Keeps(u, Len(u.rows))
<1> DEFINE u == Upsample(room)
           s == Len(u.rows)
           base == Done - Part
           empty == next_row_out >= V
           first == IF empty THEN 0 ELSE next_row_out
           buf == IF empty THEN UpsampledGroup(rowgroup_ctr) ELSE color_buf
           num == Min2(LimitedToImage(V - first), room)
<1>1. u = SepUpsample(room)
  BY DEF Upsample
<1>2. /\ u.rows = [k \in 1 .. num |-> Converted(buf, first + k - 1)]
      /\ u.color_buf = buf
  BY <1>1 DEF SepUpsample
<1>3. /\ V \in Nat \ {0} /\ output_height \in Nat /\ base \in Nat /\ Done \in Nat /\ Part \in Nat
      /\ Done < output_height /\ next_row_out \in 0 .. V /\ rows_to_go \in Nat
      /\ rows_to_go = output_height - Done
  BY NumberFacts, BaseIs DEF BInv, TypeOK, UpsamplerPhase, Upsampling
<1>4. Part = first /\ base + first = Done
  <2>1. Part = first
    BY <1>3 DEF Part, PartOf, BInv, UpsamplerPhase
  <2> HIDE DEF first
  <2> QED BY <2>1, <1>3
<1>5. num \in Nat /\ num <= V - first /\ Done + num <= output_height
  <2>1. first \in 0 .. V - 1
    BY <1>3
  <2> HIDE DEF first
  <2> QED BY <2>1, <1>3 DEF Min2, LimitedToImage
<1>6. first \in 0 .. V - 1
  BY <1>3
<1>7. ASSUME NEW c \in Component, NEW k \in 0 .. V - 1, base + k < output_height
      PROVE  buf[c][k] = IF Fullsize(c) THEN SampleRow(c, rowgroup_ctr, k)
                         ELSE Wanted[base + k][c]
  <2>1. CASE empty
    <3>1. buf[c][k] = IF Fullsize(c) THEN SampleRow(c, rowgroup_ctr, k)
                      ELSE UpsampledRow(c, rowgroup_ctr, k)
      BY <2>1 DEF UpsampledGroup
    <3>2. ~Fullsize(c) => UpsampledRow(c, rowgroup_ctr, k) = Wanted[base + k][c]
      BY <1>7, RowIsRight
    <3> HIDE DEF buf, base
    <3> QED BY <3>1, <3>2
  <2>2. CASE ~empty
    <3>1. Part > 0
      BY <2>2, <1>3, <1>4 DEF BInv, UpsamplerPhase
    <3> QED BY <3>1, <2>2, <1>7 DEF KeptRight, Upsampling
  <2> QED BY <2>1, <2>2
<1>8. ASSUME NEW k \in 0 .. V - 1, base + k < output_height
      PROVE  Converted(buf, k) = Wanted[base + k]
  <2>1. Converted(buf, k) = [c \in Component |-> IF Fullsize(c) THEN <<SampleAt(c, buf[c][k])>>
                                                ELSE buf[c][k]]
    BY DEF Converted
  <2>2. ASSUME NEW c \in Component
        PROVE  Wanted[base + k][c] = IF Fullsize(c) THEN <<SampleAt(c, buf[c][k])>> ELSE buf[c][k]
    <3>1. Wanted[base + k][c] = IF Fullsize(c) THEN <<SampleAt(c, SampleRow(c, rowgroup_ctr, k))>>
                                ELSE UpsampledRow(c, rowgroup_ctr, k)
      BY <1>8, RowIsRight
    <3>2. buf[c][k] = IF Fullsize(c) THEN SampleRow(c, rowgroup_ctr, k) ELSE Wanted[base + k][c]
      BY <1>7, <1>8
    <3> HIDE DEF buf, base
    <3> QED BY <3>1, <3>2
  <2>3. Wanted[base + k] = [c \in Component |-> Wanted[base + k][c]]
    <3> DEFINE m == base + k
    <3>1. m \in 0 .. output_height - 1
      BY <1>3, <1>8
    <3> HIDE DEF m
    <3>2. Wanted[m] = Expected(m)
      BY <3>1 DEF Wanted
    <3>3. Expected(m) = [c \in Component |-> Expected(m)[c]]
      BY DEF Expected
    <3>4. Wanted[m] = [c \in Component |-> Wanted[m][c]]
      BY <3>2, <3>3
    <3> QED BY <3>4 DEF m
  <2> HIDE DEF buf, base
  <2> QED BY <2>1, <2>2, <2>3
<1> HIDE DEF buf, first, num, empty
<1>9. s = num
  <2>1. u.rows = [k \in 1 .. num |-> u.rows[k]]
    BY <1>2
  <2> HIDE DEF u
  <2> QED BY <2>1, <1>5, LenIs
<1>10. ASSUME NEW j \in 1 .. s PROVE u.rows[j] = Wanted[Done + j - 1]
  <2> DEFINE k == first + j - 1
  <2>1. k \in 0 .. V - 1 /\ base + k = Done + j - 1 /\ base + k < output_height
    <3>1. j \in Nat /\ 1 <= j /\ j <= num
      BY <1>9, <1>5
    <3> HIDE DEF base
    <3> QED BY <3>1, <1>3, <1>4, <1>5, <1>6
  <2> HIDE DEF k
  <2>2. Converted(buf, k) = Wanted[base + k]
    BY <2>1, <1>8
  <2>3. u.rows[j] = Converted(buf, k)
    <3>1. j \in 1 .. num
      BY <1>9
    <3> HIDE DEF u
    <3> QED BY <3>1, <1>2 DEF k
  <2> QED BY <2>1, <2>2, <2>3
<1>11. Keeps(u, s)
  <2> HIDE DEF u, s
  <2> QED BY <1>2, <1>7 DEF Keeps
<1> QED BY <1>10, <1>11

\* The merged upsamplers.
LEMMA MergedUpsamplersRight ==
  ASSUME BInv, ListsRight, SamplesRight, KeptRight, Upsampling, Merged,
         NEW room \in Nat \ {0}
  PROVE  LET u == Upsample(room) IN
         /\ \A j \in 1 .. Len(u.rows) : u.rows[j] = Wanted[Done + j - 1]
         /\ u.consumed = 0 => Keeps(u, Len(u.rows))
<1> DEFINE u == Upsample(room)
<1> SUFFICES /\ \A j \in 1 .. Len(u.rows) : u.rows[j] = Wanted[Done + j - 1]
             /\ u.consumed = 0 => Keeps(u, Len(u.rows))
  OBVIOUS
<1>1. /\ V \in {1, 2} /\ output_height \in Nat /\ Done \in Nat /\ Part \in Nat
      /\ Done < output_height /\ rows_to_go \in Nat
      /\ V = 2 => rows_to_go = output_height - Done
      /\ spare_full \in BOOLEAN /\ (spare_full => V = 2)
  BY NumberFacts, BaseIs, ImageFacts DEF BInv, TypeOK, MoreTypes, UpsamplerPhase, Upsampling
<1>2. Part = IF spare_full THEN 1 ELSE 0
  BY <1>1 DEF Part, PartOf
<1>3. ASSUME NEW k \in 0 .. V - 1, Part = 0, Done + k < output_height
      PROVE  MergedRow(k) = Wanted[Done + k]
  <2>1. Done - Part + k = Done + k
    BY <1>1, <1>3
  <2> QED BY <2>1, <1>3, MergedIsRight
<1>4. CASE V = 1
  <2>1. u.rows = <<MergedRow(0)>> /\ u.consumed = 1
    BY <1>4 DEF Upsample, Merged1v
  <2>2. MergedRow(0) = Wanted[Done]
    <3>1. 0 \in 0 .. V - 1 /\ Part = 0 /\ Done + 0 = Done
      BY <1>1, <1>2, <1>4
    <3>2. MergedRow(0) = Wanted[Done + 0]
      BY <3>1, <1>1, <1>3
    <3> QED BY <3>1, <3>2
  <2> HIDE DEF u
  <2>3. Len(u.rows) = 1 /\ u.rows[1] = Wanted[Done + 1 - 1]
    BY <2>1, <2>2, <1>1
  <2> QED BY <2>1, <2>3
<1>5. CASE V = 2 /\ spare_full
  <2>1. u.rows = <<spare_row>> /\ u.consumed = 1
    BY <1>5 DEF Upsample, Merged2v, SpareNeeded
  <2>2. spare_row = Wanted[Done]
    BY <1>1, <1>2, <1>5 DEF KeptRight, Upsampling
  <2> HIDE DEF u
  <2>3. Len(u.rows) = 1 /\ u.rows[1] = Wanted[Done + 1 - 1]
    BY <2>1, <2>2, <1>1
  <2> QED BY <2>1, <2>3
<1>6. CASE V = 2 /\ ~spare_full
  <2> DEFINE num == Min2(LimitedToImage(2), room)
  <2>1. /\ u.rows = [k \in 1 .. num |-> MergedRow(k - 1)]
        /\ u.consumed = IF num < 2 THEN 0 ELSE 1
        /\ num < 2 => u.spare_row = MergedRow(1)
    BY <1>6 DEF Upsample, Merged2v, SpareNeeded
  <2>2. num \in 1 .. 2 /\ Done + num <= output_height
    BY <1>1, <1>6 DEF Min2, LimitedToImage
  <2> HIDE DEF num, u
  <2>3. Len(u.rows) = num
    <3>1. u.rows = [k \in 1 .. num |-> u.rows[k]]
      BY <2>1
    <3> QED BY <3>1, <2>2, LenIs
  <2>4. ASSUME NEW j \in 1 .. num PROVE u.rows[j] = Wanted[Done + j - 1]
    <3> DEFINE k == j - 1
    <3>1. k \in 0 .. V - 1 /\ Part = 0 /\ Done + k < output_height /\ Done + j - 1 = Done + k
      BY <2>2, <1>1, <1>2, <1>6
    <3>2. u.rows[j] = MergedRow(k)
      BY <2>1
    <3> HIDE DEF k
    <3>3. MergedRow(k) = Wanted[Done + k]
      BY <3>1, <1>3
    <3> QED BY <3>1, <3>2, <3>3
  <2>5. u.consumed = 0 => Keeps(u, num)
    <3> SUFFICES ASSUME num < 2, Done + num < output_height PROVE u.spare_row = Wanted[Done + num]
      BY <2>1 DEF Keeps
    <3>1. num = 1
      BY <2>2
    <3>2. 1 \in 0 .. V - 1 /\ Part = 0
      BY <1>1, <1>2, <1>6
    <3>3. MergedRow(1) = Wanted[Done + 1]
      BY <3>1, <3>2, <1>3
    <3> QED BY <3>1, <3>3, <2>1
  <2> QED BY <2>3, <2>4, <2>5
<1> QED BY <1>1, <1>4, <1>5, <1>6

-------------------------------------------------------------------------------
(* The steps                                                               *)

LEMMA Appended ==
  ASSUME NEW m \in Nat, NEW s \in Nat, NEW a, NEW b,
         a = [i \in 1 .. m |-> a[i]], b = [i \in 1 .. s |-> b[i]]
  PROVE  /\ a \o b = [i \in 1 .. (m + s) |-> (a \o b)[i]]
         /\ \A i \in 1 .. (m + s) : (a \o b)[i] = IF i <= m THEN a[i] ELSE b[i - m]
OBVIOUS

\* While the image is the same, so is what it is made from.
LEMMA SameWanted ==
  ASSUME UNCHANGED <<image, output_height>>
  PROVE  Wanted' = Wanted
BY DEF Wanted, Expected, Clamped, Fullsize, downsampled_height, Component, RowGroup, V,
       NeedContext, Merged

\* What the upsampler fills is right, and so is what it keeps.
LEMMA UpsampleContents ==
  ASSUME BInv, ListsRight, SamplesRight, KeptRight, LinesSoFar, Upsampling,
         PostProcess(Upsample(Room)),
         UNCHANGED <<image, output_height, process_data, output_scanline>>,
         pc' \in {"process", "return"},
         Consumed = 0 => rowgroup_ctr' = rowgroup_ctr
  PROVE  KeptRight' /\ LinesSoFar'
<1> DEFINE u == Upsample(Room)
           s == UpsampledRows
<1>1. InProcess /\ Decoding /\ Room \in Nat \ {0}
  BY RoomThere DEF Upsampling
<1>2. /\ s \in Nat \ {0} /\ Consumed \in {0, 1}
      /\ Part' = IF Consumed = 1 THEN 0 ELSE Part + s
      /\ Done' = Done + s /\ Done' <= output_height
  BY <1>1, PostCounts
<1>3. /\ \A j \in 1 .. s : u.rows[j] = Wanted[Done + j - 1]
      /\ Consumed = 0 => Keeps(u, s)
  BY <1>1, SepIsRight, MergedUpsamplersRight DEF UpsampledRows, Consumed
<1>4. u.rows = [j \in 1 .. s |-> u.rows[j]] /\ Len(u.rows) = s
  <2>1. Done < output_height
    BY BaseIs
  <2> QED BY <1>1, <2>1, UpsampleCounts DEF Counted, BInv, UpsampledRows
<1>5. /\ color_buf' = u.color_buf /\ spare_row' = u.spare_row
      /\ IF process_data = "prepass" THEN SaveRows(u.rows)
         ELSE Emit(u.rows) /\ UNCHANGED postVars
  BY DEF PostProcess
<1>6. /\ Done \in Nat /\ Part \in Nat /\ Done - Part \in Nat /\ output_height \in Nat
      /\ rows_in_array \in Nat /\ output_height <= rows_in_array
  BY BaseIs, NumberFacts, StripsInArray, 0 \in Int
<1>7. /\ Wanted' = Wanted /\ Merged' = Merged /\ V' = V /\ RowGroup' = RowGroup
      /\ Component' = Component /\ rows_in_array' = rows_in_array
      /\ output_height' = output_height /\ process_data' = process_data
  BY SameWanted, SameImage
<1> HIDE DEF u, s
<1>8. KeptRight'
  <2> SUFFICES ASSUME Part' > 0 PROVE KeptRight'
    BY DEF KeptRight
  <2>1. Consumed = 0 /\ Part' = Part + s /\ Done' - Part' = Done - Part /\ Keeps(u, s)
    BY <1>2, <1>3, <1>6
  <2>2. rowgroup_ctr' = rowgroup_ctr
    BY <2>1
  <2>3. ~Merged =>
          \A c \in Component : \A k \in 0 .. V - 1 :
            Done' - Part' + k < output_height =>
              color_buf'[c][k] = IF ~Merged /\ RowGroup[c] = V
                                   THEN rowgroup_ctr * RowGroup[c] + (k * RowGroup[c]) \div V
                                   ELSE Wanted[Done' - Part' + k][c]
    BY <2>1, <1>5 DEF Keeps, Fullsize, SampleRow
  <2>4. Merged /\ Done' < output_height => spare_row' = Wanted[Done']
    BY <2>1, <1>2, <1>5 DEF Keeps
  <2> QED BY <2>2, <2>3, <2>4, <1>7 DEF KeptRight, Fullsize, SampleRow
<1>9. CASE process_data = "prepass"
  <2>1. /\ SaveRows(u.rows) /\ lines' = lines
        /\ Done = starting_row + next_row /\ starting_row \in Nat /\ next_row \in Nat
    <3>1. SaveRows(u.rows)
      BY <1>5, <1>9
    <3>2. lines' = lines
      BY <3>1 DEF SaveRows
    <3>3. Done = starting_row + next_row
      BY <1>9 DEF BInv, StripPosition
    <3>4. starting_row \in Nat /\ next_row \in Nat
      BY NumberFacts
    <3> QED BY <3>1, <3>2, <3>3, <3>4
  <2>2. /\ lines = [n \in 1 .. 0 |-> lines[n]]
        /\ whole_image = [r \in 0 .. rows_in_array - 1 |-> whole_image[r]]
        /\ \A r \in 0 .. Done - 1 : whole_image[r] = Wanted[r]
    BY <1>9 DEF LinesSoFar
  <2>3. whole_image' = [r \in 0 .. rows_in_array - 1 |->
                          IF r - Done + 1 \in 1 .. s THEN u.rows[r - Done + 1] ELSE whole_image[r]]
    <3>1. DOMAIN whole_image = 0 .. rows_in_array - 1
      BY <2>2
    <3> QED BY <3>1, <2>1, <1>4 DEF SaveRows
  <2>4. ASSUME NEW r \in 0 .. Done' - 1 PROVE whole_image'[r] = Wanted[r]
    <3>1. r \in 0 .. rows_in_array - 1
      BY <1>2, <1>6
    <3>2. CASE r < Done
      <4>1. r \in 0 .. Done - 1 /\ r - Done + 1 \notin 1 .. s
        BY <3>2, <1>2, <1>6
      <4>2. whole_image'[r] = whole_image[r]
        BY <4>1, <3>1, <2>3
      <4> QED BY <4>1, <4>2, <2>2
    <3>3. CASE r >= Done
      <4> DEFINE j == r - Done + 1
      <4>1. j \in 1 .. s /\ Done + j - 1 = r
        BY <3>3, <1>2, <1>6
      <4> HIDE DEF j
      <4>2. u.rows[j] = Wanted[r]
        BY <4>1, <1>3
      <4>3. whole_image'[r] = u.rows[j]
        BY <4>1, <3>1, <2>3 DEF j
      <4> QED BY <4>2, <4>3
    <3> QED BY <3>2, <3>3, <1>2, <1>6
  <2>5. whole_image' = [r \in 0 .. rows_in_array - 1 |-> whole_image'[r]]
    BY <2>3
  <2> QED BY <2>1, <2>2, <2>4, <2>5, <1>7, <1>8, <1>9 DEF LinesSoFar
<1>10. CASE process_data # "prepass"
  <2>1. process_data \in {"thru", "onepass"}
    BY <1>1, <1>10 DEF Decoding
  <2>2. lines' = lines \o u.rows /\ whole_image' = whole_image
    BY <1>5, <1>10 DEF Emit, postVars
  <2>3. /\ lines = [n \in 1 .. Done |-> lines[n]]
        /\ whole_image = [r \in 0 .. rows_in_array - 1 |-> whole_image[r]]
        /\ \A n \in 1 .. Done : n <= output_height => lines[n] = Wanted[n - 1]
    BY <2>1 DEF LinesSoFar
  <2>4. /\ lines' = [n \in 1 .. Done' |-> lines'[n]]
        /\ \A n \in 1 .. Done' : lines'[n] = IF n <= Done THEN lines[n] ELSE u.rows[n - Done]
    <3> DEFINE b == u.rows
    <3>1. Done \in Nat /\ s \in Nat /\ lines = [n \in 1 .. Done |-> lines[n]]
          /\ b = [n \in 1 .. s |-> b[n]]
      BY <2>3, <1>2, <1>4, <1>6
    <3> HIDE DEF b
    <3>2. /\ lines \o b = [n \in 1 .. (Done + s) |-> (lines \o b)[n]]
          /\ \A n \in 1 .. (Done + s) : (lines \o b)[n] = IF n <= Done THEN lines[n] ELSE b[n - Done]
      BY <3>1, Appended
    <3>3. lines' = lines \o b
      BY <2>2 DEF b
    <3> QED BY <3>2, <3>3, <1>2 DEF b
  <2>5. ASSUME NEW n \in 1 .. Done' PROVE lines'[n] = Wanted[n - 1]
    <3>1. CASE n <= Done
      BY <3>1, <2>3, <2>4, <1>2, <1>6
    <3>2. CASE n > Done
      <4> DEFINE j == n - Done
      <4>1. j \in 1 .. s /\ Done + j - 1 = n - 1
        BY <3>2, <1>2, <1>6
      <4> HIDE DEF j
      <4>2. u.rows[j] = Wanted[n - 1]
        BY <4>1, <1>3
      <4> QED BY <4>2, <3>2, <2>4, <1>6 DEF j
    <3> QED BY <3>1, <3>2, <1>2, <1>6
  <2> QED BY <2>1, <2>2, <2>3, <2>4, <2>5, <1>7, <1>8 DEF LinesSoFar
<1> QED BY <1>9, <1>10

\* The lists stay right while nobody changes them.
LEMMA ListsKept ==
  ASSUME ListsRight, UNCHANGED <<image, output_height, xbuffer, whichptr>>,
         (Decoding /\ NeedContext /\ Done < output_height)' =>
           /\ Decoding /\ NeedContext /\ Done < output_height
           /\ FirstIMCU' <=> FirstIMCU
           /\ BottomSet' <=> BottomSet
  PROVE  ListsRight'
<1> SUFFICES ASSUME (Decoding /\ NeedContext /\ Done < output_height)' PROVE ListsRight'
  BY DEF ListsRight
<1>1. /\ Decoding /\ NeedContext /\ Done < output_height
      /\ FirstIMCU' <=> FirstIMCU
      /\ BottomSet' <=> BottomSet
  OBVIOUS
<1>2. M' = M /\ RowGroup' = RowGroup /\ V' = V /\ Component' = Component
  BY SameImage
<1>3. /\ whichptr' = whichptr /\ xbuffer' = xbuffer /\ output_height' = output_height
  OBVIOUS
<1> QED BY <1>1, <1>2, <1>3 DEF ListsRight, Place, RowsLeft, downsampled_height, CeilDiv, ListIndex

\* The samples stay right while nobody changes the buffer.
LEMMA SamplesKept ==
  ASSUME SamplesRight,
         UNCHANGED <<image, output_height, process_data, buffer, whichptr, output_iMCU_row>>,
         Done' >= Done, Done \in Int, Done' \in Int, output_height \in Int,
         NeedContext \/ buffer_full' => buffer_full' = buffer_full
  PROVE  SamplesRight'
<1> SUFFICES ASSUME (Decoding /\ Done < output_height)' PROVE SamplesRight'
  BY DEF SamplesRight
<1>1. M' = M /\ RowGroup' = RowGroup /\ Component' = Component /\ NeedContext' = NeedContext
      /\ V' = V
  BY SameImage
<1>2. Decoding /\ Done < output_height
  BY DEF Decoding
<1>3. /\ whichptr' = whichptr /\ output_height' = output_height /\ buffer' = buffer
      /\ output_iMCU_row' = output_iMCU_row
  OBVIOUS
<1> QED BY <1>1, <1>2, <1>3 DEF SamplesRight, Place, Real, RowsPerIMCU, downsampled_height, CeilDiv

\* What is kept and what was returned stay right while nobody adds to it.
LEMMA LinesKept ==
  ASSUME KeptRight, LinesSoFar,
         UNCHANGED <<image, output_height, process_data, color_buf, spare_row, spare_full,
                     next_row_out, lines, whole_image>>,
         Done' = Done, Part > 0 => rowgroup_ctr' = rowgroup_ctr
  PROVE  KeptRight' /\ LinesSoFar'
<1>1. V' = V /\ RowGroup' = RowGroup /\ Component' = Component /\ Merged' = Merged
      /\ rows_in_array' = rows_in_array /\ Wanted' = Wanted
  BY SameImage, SameWanted
<1>2. Part' = Part /\ Decoding' = Decoding
  BY <1>1 DEF Part, PartOf, Decoding
<1>3. KeptRight'
  <2> SUFFICES ASSUME Decoding', Part' > 0 PROVE KeptRight'
    BY DEF KeptRight
  <2> QED BY <1>1, <1>2 DEF KeptRight, Fullsize, SampleRow
<1>4. LinesSoFar'
  BY <1>1 DEF LinesSoFar
<1> QED BY <1>3, <1>4

\* decompress_data suspends, or calls come and go: nothing changes.
LEMMA CallContents ==
  ASSUME BInv, CInv,
         Suspend \/ ReadScanlines \/ CrankDummyPass \/ Return
  PROVE  CInv'
<1>1. /\ UNCHANGED <<image, output_height, process_data, mainVars, upsampleVars, lines,
                     whole_image>>
      /\ Done' = Done
  <2>1. output_scanline \in Nat /\ out_row_ctr \in Nat
    BY NumberFacts
  <2>2. CASE Suspend
    BY <2>1, <2>2 DEF Suspend, InProcess, Done, postVars
  <2>3. CASE Return
    BY <2>1, <2>3 DEF Return, Done, postVars
  <2>4. CASE ReadScanlines \/ CrankDummyPass
    <3>1. PICK n \in Nat : Call(n)
      BY <2>4, NumberFacts, ImageFacts DEF ReadScanlines, CrankDummyPass
    <3> QED BY <3>1, <2>1 DEF Call, Done, postVars
  <2> QED BY <2>2, <2>3, <2>4
<1>2. Done \in Int /\ output_height \in Int /\ NeedContext' = NeedContext
      /\ Decoding' = Decoding /\ FirstIMCU' = FirstIMCU
  BY <1>1, NumberFacts, SameImage DEF Decoding, FirstIMCU, mainVars
<1>3. BottomSet' = BottomSet
  BY <1>1, SameImage DEF BottomSet, mainVars
<1>4. ListsRight'
  BY <1>1, <1>2, <1>3, ListsKept DEF CInv, mainVars
<1>5. SamplesRight'
  BY <1>1, <1>2, SamplesKept DEF CInv, mainVars
<1>6. KeptRight' /\ LinesSoFar'
  BY <1>1, LinesKept DEF CInv, mainVars, upsampleVars
<1> QED BY <1>4, <1>5, <1>6 DEF CInv

\* The next iMCU row arrives where the list in use says.
LEMMA LoadContents ==
  ASSUME BInv, CInv, Load
  PROVE  CInv'
<1>1. /\ InProcess /\ Decoding /\ ~buffer_full /\ buffer_full' /\ Done < output_height
      /\ UNCHANGED <<image, output_height, process_data, callVars, output_scanline, xbuffer,
                     whichptr, rowgroup_ctr, context_state, upsampleVars, postVars, lines>>
      /\ output_iMCU_row' = output_iMCU_row + 1
  BY DEF Load, InProcess, Decoding, BInv, TypeOK, CallPhase
<1>2. /\ Done' = Done /\ Decoding' = Decoding /\ NeedContext' = NeedContext
  BY <1>1, SameImage DEF Done, Decoding, callVars
<1>3. /\ image \in Images /\ output_height \in image.Heights /\ whichptr \in {0, 1}
      /\ output_iMCU_row \in Nat /\ total_iMCU_rows \in Nat /\ M \in Nat
      /\ total_iMCU_rows' = total_iMCU_rows
      /\ context_state \in {"PREPARE_FOR_IMCU", "PROCESS_IMCU", "POSTPONED_ROW"}
  BY <1>1, NumberFacts, SameImage DEF BInv, MoreTypes
<1>4. NeedContext =>
        /\ ~BottomSet /\ ~BottomSet'
        /\ FirstIMCU' <=> FirstIMCU
  <2> SUFFICES ASSUME NeedContext
               PROVE  /\ ~BottomSet /\ ~BottomSet'
                      /\ FirstIMCU' <=> FirstIMCU
    OBVIOUS
  <2>1. CASE context_state = "PREPARE_FOR_IMCU"
    <3>1. output_iMCU_row = 0
      BY <2>1, <1>1 DEF BInv, ContextPosition
    <3> QED BY <3>1, <2>1, <1>1 DEF BottomSet, FirstIMCU
  <2>2. CASE context_state = "POSTPONED_ROW"
    <3>1. output_iMCU_row # total_iMCU_rows
      BY <2>2, <1>1, NumberFacts DEF BInv, ContextPosition
    <3> QED BY <3>1, <2>2, <1>1 DEF BottomSet, FirstIMCU
  <2>3. context_state # "PROCESS_IMCU"
    BY <1>1 DEF BInv, ContextPosition
  <2> QED BY <2>1, <2>2, <2>3, <1>3
<1>5. ListsRight'
  BY <1>1, <1>2, <1>4, ListsKept DEF CInv
<1> DEFINE n == output_iMCU_row
<1>6. ASSUME NEW c \in Component, NEW i \in 0 .. RowsPerIMCU(c) - 1
      PROVE  buffer'[c][IF NeedContext THEN Place(whichptr, c, i) ELSE i] =
               Real(c, n * RowsPerIMCU(c) + i)
  <2> DEFINE R == RowsPerIMCU(c)
             rg == RowGroup[c]
             b == IF NeedContext THEN Place(whichptr, c, i) ELSE i
  <2>1. /\ rg \in Nat \ {0} /\ R \in Nat \ {0}
        /\ BufferRow(c) = 0 .. (IF NeedContext THEN R + 2 * rg ELSE R) - 1
    BY <1>3, BufferFacts
  <2>2. M * rg = R
    BY <1>3, BufferFacts
  <2>3. b \in BufferRow(c)
    <3>1. CASE NeedContext
      <4>1. i \in 0 .. R + 2 * rg - 1
        BY <2>1
      <4> QED BY <3>1, <4>1, <1>3, PlaceIs
    <3>2. CASE ~NeedContext
      BY <3>2, <2>1
    <3> QED BY <3>1, <3>2
  <2>4. ASSUME NEW j \in 0 .. R - 1 PROVE Pointer(c, j) = b <=> j = i
    <3>1. CASE NeedContext
      <4>1. j \in 0 .. R + 2 * rg - 1 /\ i \in 0 .. R + 2 * rg - 1
        BY <2>1
      <4>2. xbuffer[whichptr][c][j] = Place(whichptr, c, j)
        <5>1. j \in ListIndex(c) /\ 0 <= j /\ j < (M + 2) * RowGroup[c]
          BY <4>1, <3>1, <1>3, PlaceInList
        <5>2. xbuffer[whichptr][c][j] =
                IF BottomSet /\ whichptr = whichptr /\ RowsLeft(c) <= j
                     /\ j < RowsLeft(c) + 2 * RowGroup[c]
                  THEN Place(whichptr, c, RowsLeft(c) - 1) ELSE Place(whichptr, c, j)
          BY <5>1, <3>1, <1>1, <1>3 DEF CInv, ListsRight
        <5> QED BY <5>2, <3>1, <1>4, Zenon
      <4>3. Place(whichptr, c, j) = Place(whichptr, c, i) => j = i
        BY <4>1, <3>1, <1>3, PlaceIs
      <4> QED BY <4>2, <4>3, <3>1 DEF Pointer
    <3>2. CASE ~NeedContext
      BY <3>2 DEF Pointer
    <3> QED BY <3>1, <3>2
  <2> DEFINE rows == {j \in 0 .. M * RowGroup[c] - 1 : Pointer(c, j) = b}
             Sample(j) == output_iMCU_row * M * RowGroup[c] + j
  <2>5. buffer'[c][b] = IF rows = {} THEN buffer[c][b]
                        ELSE LET j == CHOOSE h \in rows : TRUE
                             IN IF Sample(j) < downsampled_height(c) THEN Sample(j) ELSE Garbage
    <3> HIDE DEF b
    <3> QED BY <2>3 DEF Load
  <2>6. rows = {i}
    <3>1. M * RowGroup[c] - 1 = R - 1 /\ i \in 0 .. R - 1
      BY <2>2
    <3>2. rows = {j \in 0 .. R - 1 : Pointer(c, j) = b}
      BY <3>1
    <3> HIDE DEF b, R, rows
    <3> QED BY <3>1, <3>2, <2>4
  <2>7. (CHOOSE h \in rows : TRUE) = i /\ rows # {}
    <3> HIDE DEF rows
    <3> QED BY <2>6
  <2>8. Sample(i) = n * R + i
    BY <1>3, <2>1 DEF RowsPerIMCU
  <2> HIDE DEF rows, b, R
  <2>9. buffer'[c][b] = Real(c, n * R + i)
    BY <2>5, <2>7, <2>8 DEF Real
  <2> QED BY <2>9 DEF b, R
<1>7. ASSUME NeedContext, n >= 1, NEW c \in Component, NEW j \in 0 .. 2 * RowGroup[c] - 1
      PROVE  buffer'[c][Place(whichptr, c, RowsPerIMCU(c) + j)] =
               n * RowsPerIMCU(c) - 2 * RowGroup[c] + j
  <2> DEFINE R == RowsPerIMCU(c)
             rg == RowGroup[c]
             b == Place(whichptr, c, R + j)
  <2>1. rg \in Nat \ {0} /\ R \in Nat \ {0} /\ R + j \in 0 .. R + 2 * rg - 1
    BY <1>3, <1>7, ContextFacts
  <2>2. M * rg = R
    BY <1>3, BufferFacts
  <2>3. b \in BufferRow(c)
    BY <2>1, <1>3, <1>7, PlaceIs
  <2>4. ASSUME NEW i \in 0 .. R - 1 PROVE Pointer(c, i) # b
    <3>1. i \in 0 .. R + 2 * rg - 1 /\ i # R + j
      BY <2>1
    <3>2. xbuffer[whichptr][c][i] = Place(whichptr, c, i)
      <4>1. i \in ListIndex(c) /\ 0 <= i /\ i < (M + 2) * RowGroup[c]
        BY <3>1, <1>3, <1>7, PlaceInList
      <4>2. xbuffer[whichptr][c][i] =
              IF BottomSet /\ whichptr = whichptr /\ RowsLeft(c) <= i
                   /\ i < RowsLeft(c) + 2 * RowGroup[c]
                THEN Place(whichptr, c, RowsLeft(c) - 1) ELSE Place(whichptr, c, i)
        BY <4>1, <1>7, <1>1, <1>3 DEF CInv, ListsRight
      <4> QED BY <4>2, <1>7, <1>4, Zenon
    <3>3. Place(whichptr, c, i) # b
      BY <3>1, <2>1, <1>3, <1>7, PlaceIs
    <3> QED BY <3>2, <3>3, <1>7 DEF Pointer
  <2>5. {i \in 0 .. M * RowGroup[c] - 1 : Pointer(c, i) = b} = {}
    <3>1. M * RowGroup[c] - 1 = R - 1
      BY <2>2
    <3> HIDE DEF b, R
    <3> QED BY <3>1, <2>4
  <2>6. buffer'[c][b] = buffer[c][b]
    <3> HIDE DEF b
    <3> QED BY <2>3, <2>5 DEF Load
  <2>7. buffer[c][b] = n * R - 2 * rg + j
    BY <1>1, <1>7 DEF CInv, SamplesRight
  <2> QED BY <2>6, <2>7
<1>8. SamplesRight'
  <2>1. M' = M /\ V' = V /\ RowGroup' = RowGroup /\ Component' = Component
        /\ NeedContext' = NeedContext
    BY <1>1, SameImage
  <2>2. output_iMCU_row' - 1 = n
    BY <1>1, <1>3
  <2> HIDE DEF n
  <2> QED BY <2>1, <2>2, <1>1, <1>6, <1>7
          DEF SamplesRight, Place, Real, RowsPerIMCU, downsampled_height, CeilDiv
<1>9. KeptRight' /\ LinesSoFar'
  BY <1>1, <1>2, LinesKept DEF CInv, upsampleVars, postVars
<1> QED BY <1>5, <1>8, <1>9 DEF CInv

\* The bottom of the image is set in the last iMCU row's list.
LEMMA PrepareContents ==
  ASSUME BInv, CInv, PrepareForIMCU
  PROVE  CInv'
<1>1. /\ Decoding /\ NeedContext /\ buffer_full /\ context_state = "PREPARE_FOR_IMCU"
      /\ context_state' = "PROCESS_IMCU" /\ Done < output_height
      /\ UNCHANGED <<image, output_height, process_data, output_scanline, callVars,
                     output_iMCU_row, buffer, whichptr, buffer_full, upsampleVars,
                     postVars, lines>>
  BY DEF PrepareForIMCU, InContext, InProcess, Decoding, BInv, TypeOK, CallPhase
<1>2. Done' = Done /\ Decoding' = Decoding /\ Part = 0
  BY <1>1 DEF Done, Decoding, callVars, BInv, ContextPosition
<1>3. /\ image \in Images /\ output_height \in image.Heights /\ whichptr \in {0, 1}
      /\ Done \in Int /\ output_height \in Int /\ iMCU_row_ctr = output_iMCU_row
      /\ total_iMCU_rows' = total_iMCU_rows
  BY <1>1, NumberFacts, SameImage DEF BInv, MoreTypes, ContextPosition
<1>4. ~BottomSet /\ FirstIMCU' = FirstIMCU
      /\ (BottomSet' <=> output_iMCU_row = total_iMCU_rows)
  BY <1>1, <1>3 DEF BottomSet, FirstIMCU
<1>5. ListsRight'
  <2>1. CASE output_iMCU_row # total_iMCU_rows
    <3>1. xbuffer' = xbuffer
      BY <2>1, <1>3 DEF PrepareForIMCU
    <3> QED BY <3>1, <2>1, <1>1, <1>2, <1>4, ListsKept DEF CInv
  <2>2. CASE output_iMCU_row = total_iMCU_rows
    <3> DEFINE w == whichptr
    <3>1. xbuffer' = BottomPointers
      BY <2>2, <1>3 DEF PrepareForIMCU
    <3>2. /\ DOMAIN xbuffer = {0, 1} /\ (FirstIMCU => w = 0)
          /\ \A c \in Component : \A p \in {0, 1} : \A i \in ListIndex(c) :
               /\ 0 <= i /\ i < (M + 2) * RowGroup[c] => xbuffer[p][c][i] = Place(p, c, i)
               /\ FirstIMCU /\ p = 0 /\ i < 0 => xbuffer[p][c][i] = 0
               /\ ~FirstIMCU /\ i < 0 =>
                    xbuffer[p][c][i] = Place(p, c, i + (M + 2) * RowGroup[c])
               /\ ~FirstIMCU /\ i >= (M + 2) * RowGroup[c] =>
                    xbuffer[p][c][i] = Place(p, c, i - (M + 2) * RowGroup[c])
      BY <1>1, <1>4 DEF CInv, ListsRight
    <3>3. /\ DOMAIN xbuffer' = {0, 1}
          /\ \A p \in {0, 1} : p # w => xbuffer'[p] = xbuffer[p]
          /\ \A c \in Component : \A i \in ListIndex(c) :
               xbuffer'[w][c][i] =
                 IF RowsLeft(c) <= i /\ i < RowsLeft(c) + 2 * RowGroup[c]
                   THEN xbuffer[w][c][RowsLeft(c) - 1] ELSE xbuffer[w][c][i]
      BY <3>1, <3>2, <1>3 DEF BottomPointers
    <3>4. ASSUME NEW c \in Component
          PROVE  /\ RowsLeft(c) - 1 \in ListIndex(c)
                 /\ 0 <= RowsLeft(c) - 1 /\ RowsLeft(c) - 1 < (M + 2) * RowGroup[c]
                 /\ RowsLeft(c) + 2 * RowGroup[c] <= (M + 2) * RowGroup[c]
                 /\ RowsLeft(c) \in Nat /\ (M + 2) * RowGroup[c] \in Int /\ RowGroup[c] \in Nat
                 /\ ListIndex(c) \subseteq Int
      <4> DEFINE rg == RowGroup[c]
                 R == RowsPerIMCU(c)
                 L == RowsLeft(c)
                 T == (M + 2) * rg
      <4>1. rg \in Nat \ {0} /\ R \in Nat \ {0} /\ L \in 1 .. R
        BY <1>3, BufferFacts
      <4>2. T = R + 2 * rg /\ ListIndex(c) = (-rg) .. R + 3 * rg - 1
        BY <1>3, BufferFacts
      <4> HIDE DEF rg, R, L, T
      <4>3. /\ L - 1 \in ListIndex(c) /\ 0 <= L - 1 /\ L - 1 < T /\ L + 2 * rg <= T
            /\ L \in Nat /\ T \in Int /\ rg \in Nat /\ ListIndex(c) \subseteq Int
        BY <4>1, <4>2
      <4> QED BY <4>3 DEF rg, L, T
    <3>5. ASSUME NEW c \in Component, NEW p \in {0, 1}, NEW i \in ListIndex(c)
          PROVE  /\ 0 <= i /\ i < (M + 2) * RowGroup[c] =>
                      xbuffer'[p][c][i] =
                        IF p = w /\ RowsLeft(c) <= i /\ i < RowsLeft(c) + 2 * RowGroup[c]
                          THEN Place(p, c, RowsLeft(c) - 1)
                          ELSE Place(p, c, i)
                 /\ FirstIMCU /\ p = 0 /\ i < 0 => xbuffer'[p][c][i] = 0
                 /\ ~FirstIMCU /\ i < 0 =>
                      xbuffer'[p][c][i] = Place(p, c, i + (M + 2) * RowGroup[c])
                 /\ ~FirstIMCU /\ i >= (M + 2) * RowGroup[c] =>
                      xbuffer'[p][c][i] = Place(p, c, i - (M + 2) * RowGroup[c])
      <4>1. CASE p # w
        BY <4>1, <3>2, <3>3
      <4>2. CASE p = w /\ RowsLeft(c) <= i /\ i < RowsLeft(c) + 2 * RowGroup[c]
        <5>1. i \in Int /\ ~(i < 0) /\ ~(i >= (M + 2) * RowGroup[c])
          BY <4>2, <3>4
        <5>2. xbuffer'[p][c][i] = xbuffer[w][c][RowsLeft(c) - 1]
          BY <4>2, <3>3
        <5>3. xbuffer[w][c][RowsLeft(c) - 1] = Place(w, c, RowsLeft(c) - 1)
          BY <3>2, <3>4, <1>3
        <5> QED BY <4>2, <5>1, <5>2, <5>3
      <4>3. CASE p = w /\ ~(RowsLeft(c) <= i /\ i < RowsLeft(c) + 2 * RowGroup[c])
        <5>1. xbuffer'[p][c][i] = xbuffer[p][c][i]
          BY <4>3, <3>3
        <5> QED BY <4>3, <5>1, <3>2
      <4> QED BY <4>1, <4>2, <4>3
    <3>6. M' = M /\ RowGroup' = RowGroup /\ V' = V /\ Component' = Component
          /\ whichptr' = whichptr /\ output_height' = output_height
      BY <1>1, SameImage
    <3>7. BottomSet'
      BY <2>2, <1>4
    <3>8. ASSUME NEW c, NEW p, NEW i
          PROVE  Place(p, c, i)' = Place(p, c, i)
      BY <3>6 DEF Place
    <3>9. ASSUME NEW c
          PROVE  RowsLeft(c)' = RowsLeft(c) /\ ListIndex(c)' = ListIndex(c)
      BY <3>6 DEF RowsLeft, downsampled_height, CeilDiv, ListIndex
    <3> QED BY <3>2, <3>3, <3>5, <3>6, <3>7, <3>8, <3>9, <1>4 DEF ListsRight
  <2> QED BY <2>1, <2>2
<1>6. SamplesRight'
  BY <1>1, <1>2, <1>3, SamplesKept DEF CInv
<1>7. KeptRight' /\ LinesSoFar'
  BY <1>1, <1>2, LinesKept DEF CInv, upsampleVars, postVars
<1> QED BY <1>5, <1>6, <1>7 DEF CInv

\* An upsampler fills scanlines from the iMCU row that is there.
LEMMA SimpleContents ==
  ASSUME BInv, BInv', CInv, SimpleMain
  PROVE  CInv'
<1>1. /\ Upsampling /\ ~NeedContext /\ Done < output_height
      /\ PostProcess(Upsample(Room)) /\ pc' = "return"
      /\ UNCHANGED <<image, output_height, process_data, output_scanline, output_iMCU_row,
                     buffer, xbuffer, whichptr, context_state>>
  BY DEF SimpleMain, InProcess, Decoding, Upsampling, BInv, TypeOK, CallPhase
<1>2. /\ InProcess /\ Decoding /\ NeedContext' = NeedContext
      /\ UpsampledRows \in Nat /\ Consumed \in {0, 1} /\ Done' = Done + UpsampledRows
  <2>1. InProcess /\ Decoding
    BY <1>1 DEF Upsampling
  <2> QED BY <2>1, <1>1, PostCounts, SameImage
<1>3. Consumed = 0 => rowgroup_ctr' = rowgroup_ctr
  <2> SUFFICES ASSUME Consumed = 0 PROVE rowgroup_ctr' = rowgroup_ctr
    OBVIOUS
  <2>1. GroupsDone(Upsample(Room)) = rowgroup_ctr
    BY NumberFacts DEF GroupsDone, Consumed
  <2>2. rowgroup_ctr < M /\ rowgroup_ctr \in Nat /\ M \in Nat
    BY <1>1, NumberFacts DEF BInv, SimplePosition, Upsampling
  <2>3. ~(GroupsDone(Upsample(Room)) >= M)
    BY <2>1, <2>2
  <2>4. rowgroup_ctr' = GroupsDone(Upsample(Room))
    BY <2>3 DEF SimpleMain
  <2> QED BY <2>1, <2>4
<1>4. KeptRight' /\ LinesSoFar'
  BY <1>1, <1>3, UpsampleContents DEF CInv
<1>5. ListsRight'
  BY <1>1, <1>2 DEF ListsRight
<1>6. SamplesRight'
  <2>1. buffer_full' => buffer_full' = buffer_full
    BY <1>1 DEF SimpleMain
  <2>2. Done' >= Done /\ Done \in Int /\ Done' \in Int /\ output_height \in Int
    BY <1>2, NumberFacts
  <2> QED BY <2>1, <2>2, <1>1, SamplesKept DEF CInv
<1> QED BY <1>4, <1>5, <1>6 DEF CInv

\* With context rows an upsampler may have done all there is for now.
LEMMA ContextContents ==
  ASSUME BInv, CInv, PostponedRow \/ ProcessIMCU
  PROVE  /\ Upsampling /\ NeedContext /\ Done < output_height
         /\ UpsampledRows \in Nat /\ Done' = Done + UpsampledRows
         /\ rowgroup_ctr < rowgroups_avail
         /\ UNCHANGED <<image, output_height, process_data, output_scanline, output_iMCU_row,
                        buffer, iMCU_row_ctr>>
         /\ GroupsDone(Upsample(Room)) \in Nat /\ rowgroups_avail \in Nat
         /\ KeptRight' /\ LinesSoFar'
<1>1. /\ Upsampling /\ NeedContext /\ Done < output_height
      /\ PostProcess(Upsample(Room)) /\ pc' \in {"process", "return"}
      /\ UNCHANGED <<image, output_height, process_data, output_scanline, output_iMCU_row,
                     buffer, iMCU_row_ctr>>
  BY DEF PostponedRow, ProcessIMCU, InContext, InProcess, Decoding, Upsampling, BInv, TypeOK,
         CallPhase
<1>2. /\ InProcess /\ Decoding
      /\ UpsampledRows \in Nat /\ Consumed \in {0, 1} /\ Done' = Done + UpsampledRows
  <2>1. InProcess /\ Decoding
    BY <1>1 DEF Upsampling
  <2> QED BY <2>1, <1>1, PostCounts
<1>3. rowgroup_ctr < rowgroups_avail /\ rowgroup_ctr \in Nat /\ rowgroups_avail \in Nat
  <2>1. rowgroup_ctr \in Nat /\ rowgroups_avail \in Nat /\ M \in Nat
    BY NumberFacts DEF BInv, TypeOK
  <2>2. CASE PostponedRow
    BY <2>1, <2>2, <1>2 DEF PostponedRow, InContext, BInv, ContextPosition
  <2>3. CASE ProcessIMCU
    BY <2>1, <2>3, <1>2 DEF ProcessIMCU, InContext, BInv, ContextPosition
  <2> QED BY <2>1, <2>2, <2>3
<1>4. GroupsDone(Upsample(Room)) \in Nat
      /\ (Consumed = 0 => GroupsDone(Upsample(Room)) = rowgroup_ctr)
  BY <1>2, <1>3 DEF GroupsDone, Consumed
<1>5. Consumed = 0 => rowgroup_ctr' = rowgroup_ctr
  BY <1>3, <1>4 DEF PostponedRow, ProcessIMCU
<1>6. KeptRight' /\ LinesSoFar'
  BY <1>1, <1>5, UpsampleContents DEF CInv
<1> QED BY <1>1, <1>2, <1>3, <1>4, <1>6

\* The last row group of the iMCU row before.
LEMMA PostponedContents ==
  ASSUME BInv, CInv, PostponedRow
  PROVE  CInv'
<1>1. /\ NeedContext /\ Decoding /\ buffer_full /\ UpsampledRows \in Nat
      /\ Done' = Done + UpsampledRows /\ Done < output_height
      /\ UNCHANGED <<image, output_height, process_data, output_iMCU_row, buffer>>
      /\ KeptRight' /\ LinesSoFar'
  BY ContextContents DEF Upsampling
<1>2. /\ context_state = "POSTPONED_ROW"
      /\ context_state' \in {"POSTPONED_ROW", "PREPARE_FOR_IMCU"}
      /\ UNCHANGED <<xbuffer, whichptr, buffer_full>>
  BY DEF PostponedRow, InContext
<1>3. output_iMCU_row >= 2 /\ output_iMCU_row \in Nat
  BY <1>1, <1>2, NumberFacts DEF BInv, ContextPosition
<1>4. Done' >= Done /\ Done \in Int /\ Done' \in Int /\ output_height \in Int
  BY <1>1, NumberFacts
<1>5. ListsRight'
  <2>1. ~FirstIMCU /\ ~FirstIMCU' /\ ~BottomSet /\ ~BottomSet'
    BY <1>1, <1>2, <1>3 DEF FirstIMCU, BottomSet
  <2> QED BY <2>1, <1>1, <1>2, ListsKept DEF CInv
<1>6. SamplesRight'
  BY <1>1, <1>2, <1>4, SamplesKept DEF CInv
<1> QED BY <1>1, <1>5, <1>6 DEF CInv

\* The row groups of an iMCU row, but for the last; then the lists change places.
LEMMA ProcessContents ==
  ASSUME BInv, BInv', CInv, ProcessIMCU
  PROVE  CInv'
<1> DEFINE w == whichptr
           n == output_iMCU_row
<1>1. /\ NeedContext /\ Decoding /\ buffer_full /\ UpsampledRows \in Nat
      /\ Done' = Done + UpsampledRows /\ Done < output_height
      /\ UNCHANGED <<image, output_height, process_data, output_iMCU_row, buffer, iMCU_row_ctr>>
      /\ GroupsDone(Upsample(Room)) \in Nat /\ rowgroups_avail \in Nat
      /\ KeptRight' /\ LinesSoFar'
  BY ContextContents DEF Upsampling
<1>2. context_state = "PROCESS_IMCU"
  BY DEF ProcessIMCU, InContext
<1>3. /\ image \in Images /\ output_height \in image.Heights /\ w \in {0, 1}
      /\ n \in Nat /\ n >= 1 /\ iMCU_row_ctr = n /\ total_iMCU_rows \in Nat /\ n <= total_iMCU_rows
      /\ Done \in Int /\ Done' \in Int /\ output_height \in Int /\ Done' >= Done
  BY <1>1, <1>2, NumberFacts DEF BInv, MoreTypes, ContextPosition
<1>4. M' = M /\ RowGroup' = RowGroup /\ V' = V /\ Component' = Component
      /\ NeedContext' = NeedContext /\ total_iMCU_rows' = total_iMCU_rows
      /\ output_height' = output_height /\ Decoding' = Decoding
  BY <1>1, SameImage DEF Decoding
<1>5. CASE GroupsDone(Upsample(Room)) < rowgroups_avail
  <2>1. UNCHANGED <<xbuffer, whichptr, buffer_full, context_state>>
    BY <1>5 DEF ProcessIMCU
  <2>2. FirstIMCU' = FirstIMCU /\ BottomSet' = BottomSet
    BY <2>1, <1>1, <1>4 DEF FirstIMCU, BottomSet
  <2>3. ListsRight'
    BY <2>1, <2>2, <1>1, <1>3, <1>4, ListsKept DEF CInv
  <2>4. SamplesRight'
    BY <2>1, <1>1, <1>3, SamplesKept DEF CInv
  <2> QED BY <2>3, <2>4, <1>1 DEF CInv
<1>6. CASE ~(GroupsDone(Upsample(Room)) < rowgroups_avail)
  <2>1. /\ xbuffer' = IF iMCU_row_ctr = 1 THEN Wraparound ELSE xbuffer
        /\ whichptr' = 1 - w /\ ~buffer_full' /\ context_state' = "POSTPONED_ROW"
    BY <1>6 DEF ProcessIMCU
  <2>2. CASE n = total_iMCU_rows
    <3>1. Done' = output_height'
      BY <2>1, <2>2, <1>1, <1>4 DEF BInv, ContextPosition
    <3>2. ~(Done' < output_height')
      BY <3>1, <1>3, <1>4
    <3> QED BY <3>2, <1>1 DEF CInv, ListsRight, SamplesRight
  <2>3. CASE n # total_iMCU_rows
    <3>1. /\ ~BottomSet /\ ~BottomSet' /\ ~FirstIMCU' /\ (FirstIMCU <=> n = 1)
      BY <2>1, <2>3, <1>1, <1>2, <1>3, <1>4 DEF BottomSet, FirstIMCU
    <3>2. /\ DOMAIN xbuffer = {0, 1}
          /\ \A c \in Component : \A p \in {0, 1} : \A i \in ListIndex(c) :
               /\ 0 <= i /\ i < (M + 2) * RowGroup[c] => xbuffer[p][c][i] = Place(p, c, i)
               /\ ~FirstIMCU /\ i < 0 =>
                    xbuffer[p][c][i] = Place(p, c, i + (M + 2) * RowGroup[c])
               /\ ~FirstIMCU /\ i >= (M + 2) * RowGroup[c] =>
                    xbuffer[p][c][i] = Place(p, c, i - (M + 2) * RowGroup[c])
      BY <3>1, <1>1 DEF CInv, ListsRight
    <3>3. ASSUME NEW c \in Component, NEW p \in {0, 1}, NEW i \in ListIndex(c)
          PROVE  /\ 0 <= i /\ i < (M + 2) * RowGroup[c] => xbuffer'[p][c][i] = Place(p, c, i)
                 /\ i < 0 => xbuffer'[p][c][i] = Place(p, c, i + (M + 2) * RowGroup[c])
                 /\ i >= (M + 2) * RowGroup[c] =>
                      xbuffer'[p][c][i] = Place(p, c, i - (M + 2) * RowGroup[c])
      <4>1. CASE iMCU_row_ctr # 1
        BY <4>1, <2>1, <3>1, <3>2, <1>3
      <4>2. CASE iMCU_row_ctr = 1
        <5> DEFINE rg == RowGroup[c]
                   R == RowsPerIMCU(c)
                   T == (M + 2) * rg
        <5>1. rg \in Nat \ {0} /\ R \in Nat \ {0} /\ R >= 2 * rg
          BY <1>1, <1>3, ContextFacts
        <5>2. T = R + 2 * rg /\ ListIndex(c) = (-rg) .. R + 3 * rg - 1
          BY <1>3, BufferFacts
        <5>3. xbuffer'[p][c][i] = IF i < 0 THEN xbuffer[p][c][i + T]
                                  ELSE IF i >= T THEN xbuffer[p][c][i - T]
                                  ELSE xbuffer[p][c][i]
          BY <4>2, <2>1 DEF Wraparound
        <5>4. \A j \in ListIndex(c) : 0 <= j /\ j < T => xbuffer[p][c][j] = Place(p, c, j)
          BY <3>2
        <5>5. i \in ListIndex(c)
          OBVIOUS
        <5> HIDE DEF rg, R, T
        <5>6. /\ i \in Int /\ T > 0 /\ T \in Int
              /\ i < 0 => i + T \in ListIndex(c) /\ 0 <= i + T /\ i + T < T
              /\ i >= T => i - T \in ListIndex(c) /\ 0 <= i - T /\ i - T < T
          BY <5>1, <5>2, <5>5
        <5>7. /\ 0 <= i /\ i < T => xbuffer'[p][c][i] = Place(p, c, i)
              /\ i < 0 => xbuffer'[p][c][i] = Place(p, c, i + T)
              /\ i >= T => xbuffer'[p][c][i] = Place(p, c, i - T)
          BY <5>3, <5>4, <5>5, <5>6
        <5> QED BY <5>7 DEF T, rg
      <4> QED BY <4>1, <4>2
    <3>4. DOMAIN xbuffer' = {0, 1}
      BY <2>1, <3>2 DEF Wraparound
    <3>5. ListsRight'
      BY <3>1, <3>3, <3>4, <1>4
         DEF ListsRight, Place, RowsLeft, downsampled_height, CeilDiv, ListIndex
    <3>6. ASSUME NEW c \in Component, NEW j \in 0 .. 2 * RowGroup[c] - 1
          PROVE  buffer[c][Place(1 - w, c, RowsPerIMCU(c) + j)] =
                   n * RowsPerIMCU(c) - 2 * RowGroup[c] + j
      <4> DEFINE rg == RowGroup[c]
                 R == RowsPerIMCU(c)
                 i == R - 2 * rg + j
                 x == n * R
                 y == (n - 1) * R
      <4>1. rg \in Nat \ {0} /\ R \in Nat \ {0} /\ R >= 2 * rg
        BY <1>1, <1>3, ContextFacts
      <4>2. /\ x \in Int /\ y = x - R /\ x < downsampled_height(c)
            /\ downsampled_height(c) \in Int
        <5>1. n \in Int /\ n < total_iMCU_rows
          BY <2>3, <1>3
        <5> HIDE DEF n
        <5>2. x \in Int /\ y = x - R /\ x < downsampled_height(c)
          BY <5>1, <1>3, SamplesOfIMCU
        <5>3. downsampled_height(c) \in Int
          BY <1>3, SamplesInImage, 0 \in Int
        <5> QED BY <5>2, <5>3
      <4>3. i \in 0 .. R - 1 /\ R + j \in 0 .. R + 2 * rg - 1 /\ R + j >= R /\ R + j - 2 * rg = i
            /\ j \in Int /\ j < 2 * rg
        BY <4>1
      <4>4. buffer[c][Place(w, c, i)] = Real(c, y + i)
        <5> HIDE DEF i
        <5> QED BY <4>3, <1>1 DEF CInv, SamplesRight
      <4>5. Place(1 - w, c, R + j) = Place(w, c, i)
        <5> DEFINE h == R + j
        <5>1. h \in 0 .. R + 2 * rg - 1 /\ h >= R /\ h - 2 * rg = i
          <6> HIDE DEF R, rg, i
          <6> QED BY <4>1, <4>3
        <5> HIDE DEF h, i
        <5>2. Place(1 - w, c, h) = Place(w, c, h - 2 * rg)
          BY <5>1, <1>1, <1>3, PlaceIs
        <5> QED BY <5>1, <5>2 DEF h
      <4>6. y + i = x - 2 * rg + j /\ x - 2 * rg + j < downsampled_height(c)
        <5> HIDE DEF x, y, R, rg
        <5> QED BY <4>1, <4>2, <4>3 DEF i
      <4>7. buffer[c][Place(1 - w, c, R + j)] = x - 2 * rg + j
        <5> HIDE DEF x, y, R, rg, i
        <5> QED BY <4>4, <4>5, <4>6 DEF Real
      <4> QED BY <4>7
    <3>7. SamplesRight'
      <4>1. /\ buffer' = buffer /\ output_iMCU_row' = n /\ whichptr' = 1 - w /\ ~buffer_full'
        BY <1>1, <2>1
      <4> HIDE DEF n, w
      <4> QED BY <4>1, <3>6, <1>4 DEF SamplesRight, Place, RowsPerIMCU
    <3> QED BY <3>5, <3>7, <1>1 DEF CInv
  <2> QED BY <2>2, <2>3
<1> QED BY <1>5, <1>6

\* The second pass of two-pass quantization returns what the first one saved.
LEMMA CrankContents ==
  ASSUME BInv, CInv, CrankPost
  PROVE  CInv'
<1> DEFINE rows == [k \in 1 .. RowsInStrip |-> whole_image[starting_row + next_row + k - 1]]
           s == RowsInStrip
<1>1. /\ process_data = "crank" /\ process_data' = "crank" /\ pc = "process" /\ pc' = "return"
      /\ Emit(rows)
      /\ UNCHANGED <<image, output_height, output_scanline, whole_image>>
  BY DEF CrankPost, InProcess
<1>2. /\ V \in Nat \ {0} /\ next_row \in 0 .. V - 1 /\ starting_row \in Nat
      /\ Done = starting_row + next_row /\ Done < output_height /\ output_height \in Nat
      /\ out_row_ctr = 0 /\ out_rows_avail \in Nat /\ out_rows_avail > 0
      /\ output_scanline \in Nat /\ Done \in Nat
  BY <1>1, NumberFacts DEF BInv, StripPosition, CallPhase, Decoding
<1>3. s \in Nat
  <2>1. s = Min2(Min2(V - next_row, out_rows_avail), output_height - starting_row)
    BY <1>2 DEF RowsInStrip, strip_height
  <2> HIDE DEF s
  <2> QED BY <2>1, <1>2 DEF Min2
<1>4. rows = [k \in 1 .. s |-> rows[k]] /\ Len(rows) = s
  <2>1. rows = [k \in 1 .. s |-> rows[k]]
    OBVIOUS
  <2> HIDE DEF rows, s
  <2> QED BY <2>1, <1>3, LenIs
<1>5. \A k \in 1 .. s : rows[k] = whole_image[Done + k - 1]
  BY <1>2
<1> HIDE DEF rows, s
<1>6. Done' = Done + s /\ lines' = lines \o rows
  BY <1>1, <1>2, <1>3, <1>4 DEF Emit, Done
<1>7. /\ Wanted' = Wanted /\ rows_in_array' = rows_in_array /\ output_height' = output_height
  BY <1>1, SameWanted, SameImage
<1>8. /\ lines = [n \in 1 .. Done |-> lines[n]]
      /\ whole_image = [r \in 0 .. rows_in_array - 1 |-> whole_image[r]]
      /\ \A n \in 1 .. Done : n <= output_height => lines[n] = Wanted[n - 1]
      /\ \A r \in 0 .. output_height - 1 : whole_image[r] = Wanted[r]
  BY <1>1 DEF CInv, LinesSoFar
<1>9. /\ lines' = [n \in 1 .. Done' |-> lines'[n]]
      /\ \A n \in 1 .. Done' : lines'[n] = IF n <= Done THEN lines[n] ELSE rows[n - Done]
  <2>1. /\ lines \o rows = [n \in 1 .. (Done + s) |-> (lines \o rows)[n]]
        /\ \A n \in 1 .. (Done + s) :
             (lines \o rows)[n] = IF n <= Done THEN lines[n] ELSE rows[n - Done]
    <3>1. /\ Done \in Nat /\ s \in Nat /\ lines = [n \in 1 .. Done |-> lines[n]]
          /\ rows = [k \in 1 .. s |-> rows[k]]
      BY <1>2, <1>3, <1>4, <1>8
    <3> QED BY <3>1, Appended
  <2> QED BY <2>1, <1>6
<1>10. ASSUME NEW n \in 1 .. Done', n <= output_height PROVE lines'[n] = Wanted[n - 1]
  <2>1. CASE n <= Done
    <3>1. n \in 1 .. Done
      BY <2>1, <1>2, <1>3, <1>6
    <3>2. lines'[n] = lines[n]
      BY <2>1, <1>9
    <3> QED BY <3>1, <3>2, <1>8, <1>10
  <2>2. CASE n > Done
    <3> DEFINE k == n - Done
    <3>1. k \in 1 .. s /\ Done + k - 1 = n - 1 /\ n - 1 \in 0 .. output_height - 1
      BY <2>2, <1>2, <1>3, <1>6, <1>10
    <3> HIDE DEF k
    <3>2. rows[k] = Wanted[n - 1]
      <4>1. rows[k] = whole_image[Done + k - 1]
        BY <3>1, <1>5
      <4> QED BY <4>1, <3>1, <1>8
    <3>3. lines'[n] = rows[k]
      <4>1. ~(n <= Done)
        BY <2>2, <1>2, <1>3, <1>6
      <4> QED BY <4>1, <1>9 DEF k
    <3> QED BY <3>2, <3>3
  <2>3. n \in Int /\ Done \in Int
    BY <1>2
  <2> QED BY <2>1, <2>2, <2>3
<1>11. LinesSoFar'
  BY <1>1, <1>7, <1>8, <1>9, <1>10 DEF LinesSoFar
<1>12. ~Decoding'
  BY <1>1 DEF Decoding
<1> QED BY <1>11, <1>12 DEF CInv, ListsRight, SamplesRight, KeptRight

\* A pass starts from the top, with lists that are not used yet.
LEMMA StartContents ==
  ASSUME BInv, CInv, NEW kind \in image.PassKinds, StartPass(kind)
  PROVE  CInv'
<1>1. /\ pc = "idle" /\ pc' = "idle" /\ output_scanline' = 0 /\ output_iMCU_row' = 0
      /\ ~buffer_full' /\ lines' = <<>> /\ process_data' \in {"thru", "onepass", "prepass"}
      /\ IF Merged THEN ~spare_full' ELSE next_row_out' = V
      /\ NeedContext => xbuffer' = FunnyPointers /\ whichptr' = 0
                        /\ context_state' = "PREPARE_FOR_IMCU"
      /\ UNCHANGED <<image, output_height, whole_image>>
  <2>1. process_data' \in {"thru", "onepass", "prepass"}
    BY NumberFacts, ImageFacts DEF StartPass
  <2> QED BY <2>1 DEF StartPass, callVars, BufferFull
<1>2. /\ M' = M /\ RowGroup' = RowGroup /\ V' = V /\ Component' = Component /\ Merged' = Merged
      /\ NeedContext' = NeedContext /\ total_iMCU_rows' = total_iMCU_rows
      /\ rows_in_array' = rows_in_array /\ total_iMCU_rows \in Nat \ {0}
      /\ image \in Images /\ output_height \in image.Heights
  BY <1>1, NumberFacts, SameImage
<1>3. Done' = 0 /\ Part' = 0
  BY <1>1, <1>2 DEF Done, Part, PartOf
<1>4. ListsRight'
  <2> SUFFICES ASSUME NeedContext PROVE ListsRight'
    BY <1>2 DEF ListsRight
  <2>1. xbuffer' = FunnyPointers /\ whichptr' = 0 /\ context_state' = "PREPARE_FOR_IMCU"
    BY <1>1
  <2>2. FirstIMCU' /\ ~BottomSet'
    BY <1>1, <1>2, <2>1 DEF FirstIMCU, BottomSet
  <2>3. DOMAIN xbuffer' = {0, 1}
    BY <2>1 DEF FunnyPointers
  <2>4. ASSUME NEW c \in Component, NEW p \in {0, 1}, NEW i \in ListIndex(c)
        PROVE  /\ 0 <= i /\ i < (M + 2) * RowGroup[c] => xbuffer'[p][c][i] = Place(p, c, i)
               /\ p = 0 /\ i < 0 => xbuffer'[p][c][i] = 0
    <3> DEFINE rg == RowGroup[c]
               R == RowsPerIMCU(c)
    <3>1. rg \in Nat \ {0} /\ R \in Nat \ {0}
      BY <1>2, BufferFacts
    <3>2. /\ (M + 2) * rg = R + 2 * rg /\ (M - 2) * rg = R - 2 * rg /\ M * rg = R
          /\ ListIndex(c) = (-rg) .. R + 3 * rg - 1
      BY <1>2, BufferFacts
    <3>3. xbuffer'[p][c][i] =
            IF i < 0 THEN IF p = 0 THEN 0 ELSE NoPointer
            ELSE IF i >= (M + 2) * rg THEN NoPointer
            ELSE IF p = 0 \/ i < (M - 2) * rg THEN i
            ELSE IF i < M * rg THEN i + 2 * rg
            ELSE i - 2 * rg
      BY <2>1 DEF FunnyPointers
    <3>4. Place(p, c, i) = IF p = 0 \/ i < (M - 2) * rg THEN i
                           ELSE IF i < M * rg THEN i + 2 * rg ELSE i - 2 * rg
      BY DEF Place
    <3>5. i \in (-rg) .. R + 3 * rg - 1
      BY <3>2
    <3> HIDE DEF rg, R
    <3>6. /\ 0 <= i /\ i < (M + 2) * rg => xbuffer'[p][c][i] = Place(p, c, i)
          /\ p = 0 /\ i < 0 => xbuffer'[p][c][i] = 0
      <4> DEFINE T == (M + 2) * rg
                 A == (M - 2) * rg
                 B == M * rg
      <4>1. T = R + 2 * rg /\ A = R - 2 * rg /\ B = R
        BY <3>2
      <4>2. xbuffer'[p][c][i] =
              IF i < 0 THEN IF p = 0 THEN 0 ELSE NoPointer
              ELSE IF i >= T THEN NoPointer
              ELSE IF p = 0 \/ i < A THEN i
              ELSE IF i < B THEN i + 2 * rg
              ELSE i - 2 * rg
        BY <3>3
      <4>3. Place(p, c, i) = IF p = 0 \/ i < A THEN i
                             ELSE IF i < B THEN i + 2 * rg ELSE i - 2 * rg
        BY <3>4
      <4> HIDE DEF T, A, B
      <4>5. i \in Int /\ T \in Int
        BY <3>1, <4>1, <3>5
      <4>6. 0 <= i /\ i < T => xbuffer'[p][c][i] = Place(p, c, i)
        <5> SUFFICES ASSUME 0 <= i, i < T PROVE xbuffer'[p][c][i] = Place(p, c, i)
          OBVIOUS
        <5>1. ~(i < 0) /\ ~(i >= T)
          BY <4>5
        <5> QED BY <5>1, <4>2, <4>3, Zenon
      <4>4. /\ 0 <= i /\ i < T => xbuffer'[p][c][i] = Place(p, c, i)
            /\ p = 0 /\ i < 0 => xbuffer'[p][c][i] = 0
        BY <4>2, <4>6, Zenon
      <4> QED BY <4>4 DEF T
    <3> QED BY <3>6 DEF rg
  <2> QED BY <2>1, <2>2, <2>3, <2>4, <1>1, <1>2
          DEF ListsRight, Place, RowsLeft, downsampled_height, CeilDiv, ListIndex
<1>5. SamplesRight'
  BY <1>1 DEF SamplesRight
<1>6. KeptRight'
  BY <1>3 DEF KeptRight
<1>7. LinesSoFar'
  <2>1. whole_image = [r \in 0 .. rows_in_array - 1 |-> whole_image[r]]
    BY DEF CInv, LinesSoFar
  <2>2. <<>> = [n \in 1 .. 0 |-> <<>>[n]]
    OBVIOUS
  <2> QED BY <2>1, <2>2, <1>1, <1>2, <1>3 DEF LinesSoFar
<1> QED BY <1>4, <1>5, <1>6, <1>7 DEF CInv

\* The rows the first pass of two-pass quantization saved are all there.
LEMMA StartCrankContents ==
  ASSUME BInv, CInv, StartCrankPass
  PROVE  CInv'
<1>1. /\ process_data = "prepass" /\ process_data' = "crank" /\ pc = "idle" /\ pc' = "idle"
      /\ output_scanline >= output_height /\ output_scanline' = 0
      /\ UNCHANGED <<image, output_height, whole_image, lines>>
  BY DEF StartCrankPass, callVars
<1>2. /\ Wanted' = Wanted /\ rows_in_array' = rows_in_array
  BY <1>1, SameWanted, SameImage
<1>3. Done' = 0 /\ Done >= output_height /\ Done \in Nat /\ output_height \in Nat
  BY <1>1, NumberFacts DEF Done
<1>4. LinesSoFar'
  <2>1. /\ lines = [n \in 1 .. 0 |-> lines[n]]
        /\ whole_image = [r \in 0 .. rows_in_array - 1 |-> whole_image[r]]
        /\ \A r \in 0 .. Done - 1 : whole_image[r] = Wanted[r]
    BY <1>1 DEF CInv, LinesSoFar
  <2>2. \A r \in 0 .. output_height - 1 : whole_image[r] = Wanted[r]
    <3>1. \A r \in 0 .. output_height - 1 : r \in 0 .. Done - 1
      BY <1>3
    <3> QED BY <2>1, <3>1
  <2>3. \A n \in 1 .. Done' : FALSE
    BY <1>3
  <2>4. lines' = [n \in 1 .. Done' |-> lines'[n]]
    BY <2>1, <1>1, <1>3
  <2>5. output_height' = output_height /\ whole_image' = whole_image
    BY <1>1
  <2>6. process_data' = "crank"
    BY <1>1
  <2> QED BY <2>1, <2>2, <2>3, <2>4, <2>5, <2>6, <1>2 DEF LinesSoFar
<1>5. ~Decoding'
  BY <1>1 DEF Decoding
<1> QED BY <1>4, <1>5 DEF CInv, ListsRight, SamplesRight, KeptRight

-------------------------------------------------------------------------------
(* The theorem                                                             *)

LEMMA InitContents == Init => CInv
<1> SUFFICES ASSUME Init PROVE CInv
  OBVIOUS
<1>1. ~Decoding
  BY DEF Init, Decoding
<1>2. LinesSoFar
  <2>1. <<>> = [n \in 1 .. 0 |-> <<>>[n]]
    OBVIOUS
  <2>2. whole_image = [r \in 0 .. rows_in_array - 1 |-> whole_image[r]]
    BY DEF Init
  <2> QED BY <2>1, <2>2 DEF Init, LinesSoFar
<1> QED BY <1>1, <1>2 DEF CInv, ListsRight, SamplesRight, KeptRight

LEMMA NextContents ==
  ASSUME BInv, BInv', CInv, [Next]_vars
  PROVE  CInv'
<1>1. CASE UNCHANGED vars
  <2>1. /\ UNCHANGED <<image, output_height, process_data, mainVars, upsampleVars, lines,
                       whole_image, output_scanline, pc, out_row_ctr>>
    BY <1>1 DEF vars, callVars, postVars
  <2>2. Done' = Done /\ Done \in Int /\ output_height \in Int /\ Decoding' = Decoding
        /\ NeedContext' = NeedContext /\ FirstIMCU' = FirstIMCU
    BY <2>1, NumberFacts, SameImage DEF Done, Decoding, FirstIMCU, mainVars
  <2>3. BottomSet' = BottomSet
    BY <2>1, SameImage DEF BottomSet, mainVars
  <2>4. ListsRight'
    BY <2>1, <2>2, <2>3, ListsKept DEF CInv, mainVars
  <2>5. SamplesRight'
    BY <2>1, <2>2, SamplesKept DEF CInv, mainVars
  <2>6. KeptRight' /\ LinesSoFar'
    BY <2>1, <2>2, LinesKept DEF CInv, mainVars, upsampleVars
  <2> QED BY <2>4, <2>5, <2>6 DEF CInv
<1>2. CASE Suspend \/ ReadScanlines \/ CrankDummyPass \/ Return
  BY <1>2, CallContents
<1>3. CASE Process
  BY <1>3, LoadContents, SimpleContents, PostponedContents, PrepareContents, ProcessContents,
     CrankContents DEF Process
<1>4. CASE \E kind \in image.PassKinds : StartPass(kind)
  BY <1>4, StartContents
<1>5. CASE StartCrankPass
  BY <1>5, StartCrankContents
<1> QED BY <1>1, <1>2, <1>3, <1>4, <1>5 DEF Next

\* Scanlines are returned in order, each made from its own sample rows with the
\* right neighbours, whatever the image, the passes, the calls and the
\* suspensions.
THEOREM LinesRightTheorem == Spec => []LinesRight
<1>1. BInv /\ CInv => LinesRight
  <2> SUFFICES ASSUME BInv, CInv, NEW n \in 1 .. Len(lines), n <= output_height
               PROVE  lines[n] = Expected(n - 1)
    BY DEF LinesRight
  <2> DEFINE m == IF process_data \in {"none", "prepass"} THEN 0 ELSE Done
  <2>1. lines = [k \in 1 .. m |-> lines[k]] /\ m \in Nat /\ output_height \in Nat
    BY NumberFacts DEF CInv, LinesSoFar
  <2>2. Len(lines) = m
    <3> HIDE DEF m
    <3> QED BY <2>1, LenIs
  <2>3. n \in 1 .. Done /\ process_data \notin {"none", "prepass"}
    BY <2>1, <2>2
  <2>4. lines[n] = Wanted[n - 1]
    BY <2>3 DEF CInv, LinesSoFar
  <2>5. n - 1 \in 0 .. output_height - 1
    BY <2>1, <2>2
  <2> QED BY <2>4, <2>5 DEF Wanted
<1>2. BInv /\ BInv' /\ CInv /\ [Next]_vars => CInv'
  BY NextContents
<1> QED BY <1>1, <1>2, InitContents, Bounds, PTL DEF Spec
===============================================================================
