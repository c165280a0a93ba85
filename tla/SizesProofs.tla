----------------------------- MODULE SizesProofs -----------------------------
(***************************************************************************)
(* Every buffer is large enough, and a transformed file is what it should  *)
(* be, for images, sampling factors, block sizes, scales and crop regions  *)
(* of any size: theorems about ComponentSizes and LosslessTransform.       *)
(***************************************************************************)
EXTENDS LosslessTransform, NumberLemmas

-------------------------------------------------------------------------------
(* Rounding up *)

\* jdiv_round_up covers a number with as few divisors as it takes.
LEMMA RoundUpIs ==
  ASSUME NEW a \in Nat \ {0}, NEW b \in Nat \ {0}
  PROVE  /\ jdiv_round_up(a, b) \in Nat \ {0}
         /\ (jdiv_round_up(a, b) - 1) * b < a
         /\ a <= jdiv_round_up(a, b) * b
         /\ jdiv_round_up(a, b) * b \in Nat \ {0}
<1>1. jdiv_round_up(a, b) * b \in Nat \ {0}
  BY RoundedUp, PositiveProduct DEF jdiv_round_up
<1> QED BY <1>1, RoundedUp DEF jdiv_round_up

LEMMA RoundUpLeast ==
  ASSUME NEW a \in Nat \ {0}, NEW b \in Nat \ {0}, NEW n \in Int
  PROVE  /\ a <= n * b => jdiv_round_up(a, b) <= n
         /\ n * b < a => n < jdiv_round_up(a, b)
<1> DEFINE q == jdiv_round_up(a, b)
<1>1. q \in Nat \ {0} /\ (q - 1) * b < a /\ a <= q * b
  BY RoundUpIs
<1> HIDE DEF q
<1>2. q - 1 \in Int /\ q \in Int /\ (q - 1) * b \in Int /\ q * b \in Int /\ n * b \in Int
  BY <1>1
<1>3. ASSUME a <= n * b  PROVE q <= n
  <2>1. (q - 1) * b < n * b
    BY <1>1, <1>2, <1>3
  <2> QED BY <1>2, <2>1, ProductOrder
<1>4. ASSUME n * b < a  PROVE n < q
  <2>1. n * b < q * b
    BY <1>1, <1>2, <1>4
  <2> QED BY <1>2, <2>1, ProductOrder
<1> QED BY <1>3, <1>4 DEF q

\* Rounding up keeps the order.
LEMMA RoundUpOrder ==
  ASSUME NEW a \in Nat \ {0}, NEW c \in Nat \ {0}, NEW b \in Nat \ {0}, a <= c
  PROVE  jdiv_round_up(a, b) <= jdiv_round_up(c, b)
<1> DEFINE q == jdiv_round_up(c, b)
<1>1. q \in Nat \ {0} /\ c <= q * b
  BY RoundUpIs
<1> HIDE DEF q
<1>2. a <= q * b
  BY <1>1
<1> QED BY <1>1, <1>2, RoundUpLeast DEF q

\* What follows is said of products, so a common factor is dropped first.
LEMMA DropFactor ==
  ASSUME NEW a \in Int, NEW b \in Int, NEW c \in Nat \ {0}
  PROVE  /\ a * c <= b * c => a <= b
         /\ a * c < b * c => a < b
         /\ a * c = b * c => a = b
<1>1. a * c \in Int /\ b * c \in Int
  OBVIOUS
<1> QED BY <1>1, ProductOrder

LEMMA ExactQuotient ==
  ASSUME NEW a \in Int, NEW b \in Nat \ {0}
  PROVE  (a * b) \div b = a
<1>1. a * b \in Int /\ a * b <= a * b /\ a * b < a * b + b
  OBVIOUS
<1> QED BY <1>1, DivUnique

-------------------------------------------------------------------------------
(* One direction of the encoder and of the decoder *)

\* W pixels are scaled to n samples of the file, whose blocks have b samples: the
\* blocks of a component with sampling factor h cover its pixels, and its samples.
\* The component is coded with a DCT of k times the size, and M = m * (h * k).
LEMMA BlocksCover ==
  ASSUME NEW n \in Nat \ {0}, NEW h \in Nat \ {0}, NEW M \in Nat \ {0}, NEW b \in Nat \ {0},
         NEW d \in Nat \ {0}
  PROVE  LET blocks == Blocks(n, h, M, b)
             samples == jdiv_round_up(n * h * d, M * b)
         IN /\ blocks \in Nat \ {0} /\ samples \in Nat \ {0}
            /\ n * h <= blocks * (M * b)
            /\ (blocks - 1) * (M * b) < n * h
            /\ samples <= blocks * d
            /\ samples > (blocks - 1) * d
<1> DEFINE blocks == Blocks(n, h, M, b)
           samples == jdiv_round_up(n * h * d, M * b)
           a == n * h
           B == M * b
<1>1. a \in Nat \ {0} /\ B \in Nat \ {0} /\ a * d \in Nat \ {0}
  BY PositiveProduct
<1>2. blocks \in Nat \ {0} /\ (blocks - 1) * B < a /\ a <= blocks * B
  BY <1>1, RoundUpIs DEF Blocks
<1>3. samples \in Nat \ {0}
  BY <1>1, RoundUpIs
<1> HIDE DEF a, B, blocks
<1>4. a * d <= (blocks * d) * B
  <2>1. a * d <= (blocks * B) * d
    BY <1>1, <1>2, ProductOrder, blocks * B \in Int
  <2>2. (blocks * B) * d = (blocks * d) * B
    BY <1>1, <1>2
  <2> QED BY <2>1, <2>2
<1>5. ((blocks - 1) * d) * B < a * d
  <2>1. ((blocks - 1) * B) * d < a * d
    BY <1>1, <1>2, ProductOrder, (blocks - 1) * B \in Int
  <2>2. ((blocks - 1) * B) * d = ((blocks - 1) * d) * B
    BY <1>1, <1>2
  <2> QED BY <2>1, <2>2
<1>6. blocks * d \in Int /\ (blocks - 1) * d \in Int
  BY <1>2
<1>7. samples <= blocks * d /\ (blocks - 1) * d < samples
  BY <1>1, <1>4, <1>5, <1>6, RoundUpLeast DEF a, B
<1> QED BY <1>2, <1>3, <1>6, <1>7 DEF a, B, blocks

LEMMA PixelsCovered ==
  ASSUME NEW W \in Nat \ {0}, NEW b \in Nat \ {0}, NEW size \in Nat \ {0},
         NEW h \in Nat \ {0}, NEW k \in Nat \ {0}, NEW m \in Nat \ {0},
         NEW M \in Nat \ {0}, M = m * (h * k)
  PROVE  LET n == jdiv_round_up(W * b, size)
             blocks == Blocks(n, h, M, b)
         IN /\ (blocks * size * M) \div h = blocks * (size * k) * m
            /\ W <= blocks * (size * k) * m
<1> DEFINE n == jdiv_round_up(W * b, size)
           blocks == Blocks(n, h, M, b)
           e == blocks * (size * k) * m
<1>1. n \in Nat \ {0} /\ W * b <= n * size
  BY PositiveProduct, RoundUpIs
<1>2. blocks \in Nat \ {0} /\ n * h <= blocks * (M * b)
  BY <1>1, BlocksCover
<1> HIDE DEF n, blocks
<1>3. e \in Int /\ blocks * size * M = e * h
  BY <1>2
<1>4. (blocks * size * M) \div h = e
  BY <1>3, ExactQuotient
<1>5. n <= blocks * (m * k) * b
  <2>1. blocks * (M * b) = (blocks * (m * k) * b) * h
    BY <1>2
  <2>2. blocks * (m * k) * b \in Int
    BY <1>2
  <2> QED BY <1>1, <1>2, <2>1, <2>2, DropFactor
<1>6. W <= e
  <2>1. blocks * (m * k) * b \in Int
    BY <1>2
  <2>2. n * size <= (blocks * (m * k) * b) * size
    BY <1>1, <1>5, <2>1, ProductOrder
  <2>3. (blocks * (m * k) * b) * size = e * b
    BY <1>2
  <2>4. W * b <= e * b
    BY <1>1, <1>3, <2>2, <2>3, n * size \in Int, e * b \in Int, W * b \in Int
  <2> QED BY <1>3, <2>4, DropFactor
<1> QED BY <1>4, <1>6 DEF n, blocks

\* n samples of the file are decoded to "out", and a component of it to "samples",
\* which the upsampler expands by m.
LEMMA SamplesSuffice ==
  ASSUME NEW n \in Nat \ {0}, NEW b \in Nat \ {0}, NEW size \in Nat \ {0},
         NEW h \in Nat \ {0}, NEW k \in Nat \ {0}, NEW m \in Nat \ {0},
         NEW M \in Nat \ {0}, M = m * (h * k)
  PROVE  LET out == jdiv_round_up(n * size, b)
             samples == jdiv_round_up(n * h * (size * k), M * b)
             consumed == jdiv_round_up(out, m)
         IN /\ out \in Nat \ {0}
            /\ consumed <= samples
            /\ consumed * m <= jround_up(out, M)
<1> DEFINE out == jdiv_round_up(n * size, b)
           samples == jdiv_round_up(n * h * (size * k), M * b)
           consumed == jdiv_round_up(out, m)
           whole == jdiv_round_up(out, M)
<1>1. out \in Nat \ {0}
  BY PositiveProduct, RoundUpIs
<1>2. n * h * (size * k) \in Nat \ {0} /\ M * b \in Nat \ {0}
  BY PositiveProduct
<1>3. samples \in Nat \ {0} /\ n * h * (size * k) <= samples * (M * b)
  BY <1>2, RoundUpIs
<1>4. whole \in Nat \ {0} /\ out <= whole * M
  BY <1>1, RoundUpIs
<1> HIDE DEF samples, whole
<1>5. n * size <= (samples * m) * b
  <2>1. n * h * (size * k) = (n * size) * (h * k)
    OBVIOUS
  <2>2. samples * (M * b) = ((samples * m) * b) * (h * k)
    BY <1>3
  <2>3. h * k \in Nat \ {0} /\ n * size \in Int /\ (samples * m) * b \in Int
    BY <1>3, PositiveProduct
  <2> QED BY <1>3, <2>1, <2>2, <2>3, DropFactor
<1>6. out <= samples * m
  BY <1>3, <1>5, RoundUpLeast, PositiveProduct, samples * m \in Int
<1> HIDE DEF out
<1>7. consumed <= samples
  BY <1>1, <1>3, <1>6, RoundUpLeast
<1>8. consumed * m <= whole * M
  <2>1. out <= (whole * (h * k)) * m
    <3>1. whole * M = (whole * (h * k)) * m
      BY <1>4
    <3> QED BY <1>4, <3>1
  <2>2. whole * (h * k) \in Int
    BY <1>4
  <2>3. consumed <= whole * (h * k) /\ consumed \in Int
    BY <1>1, <2>1, <2>2, RoundUpLeast, RoundUpIs
  <2> HIDE DEF consumed
  <2>4. consumed * m <= (whole * (h * k)) * m
    BY <2>2, <2>3, ProductOrder
  <2>5. (whole * (h * k)) * m = whole * M
    BY <1>4
  <2> QED BY <2>4, <2>5
<1> QED BY <1>1, <1>7, <1>8 DEF out, samples, whole, jround_up

\* A file transcoded to another block size has as many MCUs, and its blocks are
\* among those of the source, padded to whole MCUs.
LEMMA SameMCUs ==
  ASSUME NEW n \in Nat \ {0}, NEW b \in Nat \ {0}, NEW size \in Nat \ {0},
         NEW h \in Nat \ {0}, NEW M \in Nat \ {0}
  PROVE  LET out == jdiv_round_up(n * size, b)
             MCUs == jdiv_round_up(n, M * b)
         IN /\ out \in Nat \ {0}
            /\ jdiv_round_up(out, M * size) = MCUs
            /\ jround_up(Blocks(n, h, M, b), h) = MCUs * h
            /\ Blocks(out, h, M, size) <= MCUs * h
<1> DEFINE out == jdiv_round_up(n * size, b)
           MCUs == jdiv_round_up(n, M * b)
           wide == Blocks(n, h, M, b)
<1>1. M * b \in Nat \ {0} /\ M * size \in Nat \ {0} /\ n * size \in Nat \ {0}
  BY PositiveProduct
<1>2. out \in Nat \ {0} /\ (out - 1) * b < n * size /\ n * size <= out * b
  BY <1>1, RoundUpIs
<1>3. MCUs \in Nat \ {0} /\ (MCUs - 1) * (M * b) < n /\ n <= MCUs * (M * b)
  BY <1>1, RoundUpIs
<1> HIDE DEF out, MCUs
<1>4. out <= MCUs * (M * size)
  <2>1. n * size <= (MCUs * (M * b)) * size
    BY <1>3, ProductOrder, MCUs * (M * b) \in Int
  <2>2. (MCUs * (M * b)) * size = (MCUs * (M * size)) * b
    BY <1>3
  <2>3. MCUs * (M * size) \in Int
    BY <1>3
  <2> QED BY <1>1, <2>1, <2>2, <2>3, RoundUpLeast DEF out
<1>5. (MCUs - 1) * (M * size) < out
  <2>1. ((MCUs - 1) * (M * b)) * size < n * size
    BY <1>3, ProductOrder, (MCUs - 1) * (M * b) \in Int
  <2>2. ((MCUs - 1) * (M * b)) * size = ((MCUs - 1) * (M * size)) * b
    BY <1>3
  <2>3. (MCUs - 1) * (M * size) \in Int
    BY <1>3
  <2> QED BY <1>1, <2>1, <2>2, <2>3, RoundUpLeast DEF out
<1>6. jdiv_round_up(out, M * size) = MCUs
  <2>1. jdiv_round_up(out, M * size) <= MCUs /\ MCUs - 1 < jdiv_round_up(out, M * size)
    BY <1>1, <1>2, <1>3, <1>4, <1>5, RoundUpLeast, MCUs - 1 \in Int
  <2> QED BY <1>1, <1>2, <1>3, <2>1, RoundUpIs
<1>7. wide \in Nat \ {0} /\ n * h <= wide * (M * b) /\ (wide - 1) * (M * b) < n * h
  BY BlocksCover
<1> HIDE DEF wide
<1>8. jdiv_round_up(wide, h) = MCUs
  <2>1. wide <= MCUs * h
    <3>1. n * h <= (MCUs * (M * b)) * h
      BY <1>3, ProductOrder, MCUs * (M * b) \in Int
    <3>2. (MCUs * (M * b)) * h = (MCUs * h) * (M * b)
      BY <1>3
    <3>3. MCUs * h \in Int /\ n * h \in Nat \ {0}
      BY <1>3, PositiveProduct
    <3> QED BY <1>1, <3>1, <3>2, <3>3, RoundUpLeast DEF wide, Blocks
  <2>2. (MCUs - 1) * h < wide
    <3>1. ((MCUs - 1) * (M * b)) * h < n * h
      BY <1>3, ProductOrder, (MCUs - 1) * (M * b) \in Int
    <3>2. ((MCUs - 1) * (M * b)) * h = ((MCUs - 1) * h) * (M * b)
      BY <1>3
    <3>3. (MCUs - 1) * h \in Int /\ n * h \in Nat \ {0}
      BY <1>3, PositiveProduct
    <3> QED BY <1>1, <3>1, <3>2, <3>3, RoundUpLeast DEF wide, Blocks
  <2>3. jdiv_round_up(wide, h) <= MCUs /\ MCUs - 1 < jdiv_round_up(wide, h)
    BY <1>3, <1>7, <2>1, <2>2, RoundUpLeast, MCUs - 1 \in Int
  <2> QED BY <1>3, <1>7, <2>3, RoundUpIs
<1>9. Blocks(out, h, M, size) <= MCUs * h
  <2>1. out * h <= (MCUs * (M * size)) * h
    BY <1>2, <1>3, <1>4, ProductOrder, MCUs * (M * size) \in Int
  <2>2. (MCUs * (M * size)) * h = (MCUs * h) * (M * size)
    BY <1>3
  <2>3. MCUs * h \in Int /\ out * h \in Nat \ {0}
    BY <1>2, <1>3, PositiveProduct
  <2> QED BY <1>1, <2>1, <2>2, <2>3, RoundUpLeast DEF Blocks
<1> QED BY <1>2, <1>6, <1>8, <1>9 DEF out, MCUs, wide, jround_up

-------------------------------------------------------------------------------
(* The DCT of a component *)

Component == [h : 1 .. MAX_SAMP_FACTOR, v : 1 .. MAX_SAMP_FACTOR, q : 0 .. NUM_QUANT_TBLS - 1]

ComponentSeqs == Seq(Component) \ {<<>>}

LEMMA AdmittedComponents ==
  ASSUME NEW comps \in Components
  PROVE  comps \in ComponentSeqs
BY SizesAssumption DEF ComponentSeqs, Component

\* The greatest sampling factors exist.
LEMMA GreatestFactors ==
  ASSUME NEW comps \in ComponentSeqs
  PROVE  /\ MaxH(comps) \in 1 .. 4 /\ MaxV(comps) \in 1 .. 4
         /\ \A i \in DOMAIN comps : /\ comps[i] \in Component
                                    /\ comps[i].h \in 1 .. MaxH(comps)
                                    /\ comps[i].v \in 1 .. MaxV(comps)
<1>1. /\ DOMAIN comps = 1 .. Len(comps) /\ Len(comps) \in Nat /\ Len(comps) # 0
      /\ \A i \in DOMAIN comps : comps[i] \in Component
  BY DEF ComponentSeqs
<1>2. 1 \in DOMAIN comps
  BY <1>1
<1>3. ASSUME NEW T \in SUBSET (1 .. 4), T # {}
      PROVE  Max(T) \in T /\ \A n \in T : n <= Max(T)
  <2>1. \E m \in T : \A n \in T : n <= m
    <3>1. T \in SUBSET Nat /\ \A n \in T : n <= 4
      BY <1>3
    <3> QED BY <1>3, <3>1, GreatestNat, 4 \in Nat
  <2>2. \E m \in T : \A n \in T : m >= n
    BY <1>3, <2>1
  <2>3. Max(T) \in T /\ \A n \in T : Max(T) >= n
    BY <2>2 DEF Max
  <2> QED BY <1>3, <2>3
<1>4. /\ \A i \in DOMAIN comps : comps[i].h \in 1 .. 4 /\ comps[i].v \in 1 .. 4
  BY <1>1 DEF Component, MAX_SAMP_FACTOR
<1> DEFINE H == {comps[i].h : i \in DOMAIN comps}
           V == {comps[i].v : i \in DOMAIN comps}
<1>5. H \in SUBSET (1 .. 4) /\ H # {} /\ V \in SUBSET (1 .. 4) /\ V # {}
  BY <1>2, <1>4
<1>6. \A i \in DOMAIN comps : comps[i].h \in H /\ comps[i].v \in V
  OBVIOUS
<1> HIDE DEF H, V
<1>7. /\ Max(H) \in H /\ \A n \in H : n <= Max(H)
      /\ Max(V) \in V /\ \A n \in V : n <= Max(V)
  BY <1>3, <1>5
<1>8. MaxH(comps) = Max(H) /\ MaxV(comps) = Max(V)
  BY DEF MaxH, MaxV, H, V
<1>9. \A i \in DOMAIN comps : /\ comps[i].h \in 1 .. 4 /\ comps[i].h <= MaxH(comps)
                              /\ comps[i].v \in 1 .. 4 /\ comps[i].v <= MaxV(comps)
  BY <1>4, <1>6, <1>7, <1>8
<1>10. MaxH(comps) \in 1 .. 4 /\ MaxV(comps) \in 1 .. 4
  BY <1>5, <1>7, <1>8
<1> QED BY <1>1, <1>9, <1>10

\* The block is scaled k times, and k times the sampling factor goes into the
\* greatest, unless nothing is scaled.
Whole(max, samp, k) == k = 1 \/ max % (samp * k) = 0

\* The loop ends after two turns at most, as no sampling factor is above 4.
LEMMA ScaledSizeIs ==
  ASSUME NEW size \in 1 .. 16, NEW fancy \in BOOLEAN, NEW max \in 1 .. 4, NEW samp \in 1 .. 4
  PROVE  \E k \in {1, 2, 4} : /\ ScaledSize(size, fancy, max, samp) = size * k
                              /\ size * k <= 16
                              /\ Whole(max, samp, k)
<1> DEFINE limit == IF fancy THEN DCTSIZE ELSE DCTSIZE \div 2
           D == {1, 2, 4, 8, 16}
           Grows(s) == size * s <= limit /\ max % (samp * s * 2) = 0
           G(f) == [s \in D |-> IF Grows(s) THEN f[s * 2] ELSE size * s]
           grow == CHOOSE f : f = G(f)
           two == IF Grows(2) THEN size * 4 ELSE size * 2
           g == [s \in D |-> IF s = 1 THEN (IF Grows(1) THEN two ELSE size * 1)
                             ELSE IF s = 2 THEN two ELSE size * s]
<1>1. limit \in {4, 8}
  BY DEF DCTSIZE
<1>2. ~Grows(4) /\ ~Grows(8) /\ ~Grows(16)
  BY <1>1
<1>3. ScaledSize(size, fancy, max, samp) = grow[1]
  BY DEF ScaledSize
<1>a. Grows(1) => size * 2 <= 16 /\ Whole(max, samp, 2)
  BY <1>1 DEF Whole
<1>b. Grows(2) => size * 4 <= 16 /\ Whole(max, samp, 4)
  <2>1. samp * 2 * 2 = samp * 4
    OBVIOUS
  <2> QED BY <1>1, <2>1 DEF Whole
<1> HIDE DEF Grows, limit
<1>4. g = G(g)
  BY <1>2
<1>5. grow = G(grow)
  <2> HIDE DEF G, g
  <2> QED BY <1>4
<1>6. /\ grow[1] = IF Grows(1) THEN grow[2] ELSE size * 1
      /\ grow[2] = IF Grows(2) THEN grow[4] ELSE size * 2
      /\ grow[4] = IF Grows(4) THEN grow[8] ELSE size * 4
  <2> HIDE DEF grow
  <2> QED BY <1>5
<1> HIDE DEF grow
<1>7. grow[1] \in {size * 1, size * 2, size * 4}
  BY <1>2, <1>6
<1> DEFINE k == IF ~Grows(1) THEN 1 ELSE IF Grows(2) THEN 4 ELSE 2
<1>8. k \in {1, 2, 4} /\ grow[1] = size * k
  BY <1>2, <1>6
<1>9. size * k <= 16 /\ Whole(max, samp, k)
  <2>1. CASE ~Grows(1)
    BY <2>1 DEF Whole
  <2>2. CASE Grows(1) /\ Grows(2)
    BY <2>2, <1>b
  <2>3. CASE Grows(1) /\ ~Grows(2)
    BY <2>3, <1>a
  <2> QED BY <2>1, <2>2, <2>3
<1> HIDE DEF k
<1> QED BY <1>3, <1>8, <1>9

Doublings == {1, 2, 4}

\* A DCT of these sizes exists, and makes no new factors.
Regular(dct, c, size, maxh, maxv) ==
  \E kh \in Doublings, kv \in Doublings :
    /\ dct.h = size * kh /\ dct.v = size * kv
    /\ Supported(dct.h, dct.v)
    /\ Whole(maxh, c.h, kh) /\ Whole(maxv, c.v, kv)

\* That is what the masters choose.
LEMMA DctSizesAre ==
  ASSUME NEW c \in Component, NEW size \in 1 .. 16, NEW fancy \in BOOLEAN,
         NEW maxh \in 1 .. 4, NEW maxv \in 1 .. 4
  PROVE  Regular(DctSizes(c, size, fancy, maxh, maxv), c, size, maxh, maxv)
<1> DEFINE h == ScaledSize(size, fancy, maxh, c.h)
           v == ScaledSize(size, fancy, maxv, c.v)
           dct == DctSizes(c, size, fancy, maxh, maxv)
<1>1. c.h \in 1 .. 4 /\ c.v \in 1 .. 4
  BY DEF Component, MAX_SAMP_FACTOR
<1>2. PICK a \in {1, 2, 4} : h = size * a /\ size * a <= 16 /\ Whole(maxh, c.h, a)
  BY <1>1, ScaledSizeIs
<1>3. PICK e \in {1, 2, 4} : v = size * e /\ size * e <= 16 /\ Whole(maxv, c.v, e)
  BY <1>1, ScaledSizeIs
<1>4. dct = [h |-> Min({h, v * 2}), v |-> Min({v, h * 2})]
  BY DEF DctSizes
<1> HIDE DEF h, v, dct
<1>5. ASSUME NEW x \in Int, NEW y \in Int
      PROVE  Min({x, y}) = IF x <= y THEN x ELSE y
  <2>1. \E m \in {x, y} : \A n \in {x, y} : m =< n
    BY <1>5
  <2>2. Min({x, y}) \in {x, y} /\ \A n \in {x, y} : Min({x, y}) =< n
    BY <2>1 DEF Min
  <2> QED BY <1>5, <2>2
<1> DEFINE kh == IF a <= 2 * e THEN a ELSE 2 * e
           kv == IF e <= 2 * a THEN e ELSE 2 * a
<1>6. kh \in {1, 2, 4} /\ kv \in {1, 2, 4} /\ kh <= 2 * kv /\ kv <= 2 * kh
  OBVIOUS
<1>7. h \in Int /\ v \in Int /\ v * 2 \in Int /\ h * 2 \in Int
  BY <1>2, <1>3
<1>8. dct.h = (IF h <= v * 2 THEN h ELSE v * 2) /\ dct.v = (IF v <= h * 2 THEN v ELSE h * 2)
  BY <1>4, <1>5, <1>7
<1>9. dct.h = size * kh /\ dct.v = size * kv
  BY <1>2, <1>3, <1>8
<1>10. Whole(maxh, c.h, kh) /\ Whole(maxv, c.v, kv)
  <2>1. ASSUME NEW max \in 1 .. 4, NEW samp \in 1 .. 4,
               NEW k \in {1, 2, 4}, NEW l \in {1, 2, 4}, l <= k, Whole(max, samp, k)
        PROVE  Whole(max, samp, l)
    <3>1. CASE k = 1 \/ l = k
      BY <2>1, <3>1 DEF Whole
    <3>2. CASE k = 2 /\ l = 1
      BY <3>2 DEF Whole
    <3>3. CASE k = 4 /\ l = 1
      BY <3>3 DEF Whole
    <3>4. CASE k = 4 /\ l = 2
      BY <2>1, <3>4 DEF Whole
    <3> QED BY <2>1, <3>1, <3>2, <3>3, <3>4
  <2>2. kh <= a /\ kv <= e
    OBVIOUS
  <2> QED BY <1>1, <1>2, <1>3, <1>6, <2>1, <2>2
<1>11. Supported(dct.h, dct.v)
  <2>1. kh <= a /\ kv <= e
    OBVIOUS
  <2>2. size * kh \in 1 .. 16 /\ size * kv \in 1 .. 16
    BY <1>2, <1>3, <1>6, <2>1
  <2>3. kh = kv \/ kh = 2 * kv \/ kv = 2 * kh
    BY <1>6
  <2> HIDE DEF kh, kv
  <2>4. size * kh = size * kv \/ size * kh = 2 * (size * kv) \/ size * kv = 2 * (size * kh)
    BY <1>6, <2>3
  <2> QED BY <1>9, <2>2, <2>4 DEF Supported
<1> HIDE DEF kh, kv
<1>12. Regular(dct, c, size, maxh, maxv)
  BY <1>6, <1>9, <1>10, <1>11 DEF Regular, Doublings
<1> QED BY <1>12 DEF dct

\* A routine that is not fractional takes the group to the greatest factors, and
\* only factors that do not divide these need one that is.
Fitting(m, c, kh, kv, maxh, maxv) ==
  /\ m.name = "fractional" => ~(maxh % c.h = 0 /\ maxv % c.v = 0)
  /\ m.name # "fractional" => /\ m.h \in 1 .. 4 /\ m.v \in 1 .. 4
                              /\ maxh = m.h * (c.h * kh)
                              /\ maxv = m.v * (c.v * kv)
  /\ m.name = "fullsize" => m.h = 1 /\ m.v = 1

\* Component c has a DCT of kh and kv times the size.
ScaledBy(s, c, size, kh, kv, maxh, maxv) ==
  /\ s.DCT_h_scaled_size = size * kh /\ s.DCT_v_scaled_size = size * kv
  /\ Whole(maxh, c.h, kh) /\ Whole(maxv, c.v, kv)
  /\ c.h <= maxh /\ c.v <= maxv

LEMMA RoutineIs ==
  ASSUME NEW c \in Component, NEW size \in 1 .. 16,
         NEW maxh \in 1 .. 4, NEW maxv \in 1 .. 4,
         NEW kh \in Doublings, NEW kv \in Doublings,
         NEW s, ScaledBy(s, c, size, kh, kv, maxh, maxv)
  PROVE  /\ Group(c, s, size) = [h |-> c.h * kh, v |-> c.v * kv]
         /\ Fitting(SamplingRoutine(Group(c, s, size), maxh, maxv), c, kh, kv, maxh, maxv)
<1> DEFINE group == Group(c, s, size)
           m == SamplingRoutine(group, maxh, maxv)
           gh == c.h * kh
           gv == c.v * kv
<1>0. /\ s.DCT_h_scaled_size = size * kh /\ s.DCT_v_scaled_size = size * kv
      /\ Whole(maxh, c.h, kh) /\ Whole(maxv, c.v, kv)
  BY DEF ScaledBy
<1>1. c.h \in 1 .. 4 /\ c.v \in 1 .. 4 /\ kh \in {1, 2, 4} /\ kv \in {1, 2, 4}
  BY DEF Component, MAX_SAMP_FACTOR, Doublings
<1>2. gh \in 1 .. 16 /\ gv \in 1 .. 16
  BY <1>1
<1>3. group = [h |-> gh, v |-> gv]
  <2>1. c.h * (size * kh) = gh * size /\ c.v * (size * kv) = gv * size
    BY <1>1
  <2> HIDE DEF gh, gv
  <2>2. (gh * size) \div size = gh /\ (gv * size) \div size = gv
    BY <1>2, ExactQuotient
  <2>3. group = [h |-> (c.h * (size * kh)) \div size, v |-> (c.v * (size * kv)) \div size]
    BY <1>0 DEF Group
  <2> HIDE DEF group
  <2> QED BY <2>1, <2>2, <2>3
<1> HIDE DEF group
<1>4. ASSUME NEW max \in 1 .. 4, NEW samp \in 1 .. 4, NEW k \in {1, 2, 4}, Whole(max, samp, k),
             max % samp = 0
      PROVE  max % (samp * k) = 0
  BY <1>4 DEF Whole
<1>5. ASSUME NEW max \in 1 .. 4, NEW g \in 1 .. 16, max % g = 0
      PROVE  max \div g \in 1 .. 4 /\ max = (max \div g) * g
  <2>1. g <= 4
    BY <1>5
  <2> QED BY <1>5, <2>1
<1>6. maxh % c.h = 0 /\ maxv % c.v = 0 => maxh % gh = 0 /\ maxv % gv = 0
  BY <1>0, <1>1, <1>4
<1> HIDE DEF gh, gv, m
<1>7. group.h = gh /\ group.v = gv
  BY <1>3
<1>8. CASE maxh = gh /\ maxv = gv
  <2>1. m = [name |-> "fullsize", h |-> 1, v |-> 1]
    BY <1>7, <1>8 DEF m, SamplingRoutine
  <2> QED BY <1>2, <1>3, <1>8, <2>1 DEF group, m, gh, gv, Fitting
<1>9. CASE ~(maxh = gh /\ maxv = gv) /\ maxh = gh * 2 /\ maxv = gv
  <2>1. m = [name |-> "h2v1", h |-> 2, v |-> 1]
    <3>1. ~(maxh = gh * 2 /\ maxv = gv * 2)
      BY <1>2, <1>9
    <3> QED BY <1>7, <1>9, <3>1 DEF m, SamplingRoutine
  <2>2. maxh = 2 * gh /\ maxv = 1 * gv
    BY <1>2, <1>9
  <2> QED BY <1>3, <2>1, <2>2 DEF group, m, gh, gv, Fitting
<1>10. CASE maxh = gh * 2 /\ maxv = gv * 2
  <2>1. m = [name |-> "h2v2", h |-> 2, v |-> 2]
    <3>1. ~(maxh = gh /\ maxv = gv) /\ ~(maxh = gh * 2 /\ maxv = gv)
      BY <1>2, <1>10
    <3> QED BY <1>7, <1>10, <3>1 DEF m, SamplingRoutine
  <2>2. maxh = 2 * gh /\ maxv = 2 * gv
    BY <1>2, <1>10
  <2> QED BY <1>3, <2>1, <2>2 DEF group, m, gh, gv, Fitting
<1>11. CASE /\ ~(maxh = gh /\ maxv = gv) /\ ~(maxh = gh * 2 /\ maxv = gv)
            /\ ~(maxh = gh * 2 /\ maxv = gv * 2)
  <2>1. m = IF maxh % gh = 0 /\ maxv % gv = 0
            THEN [name |-> "int", h |-> maxh \div gh, v |-> maxv \div gv]
            ELSE [name |-> "fractional", h |-> 0, v |-> 0]
    BY <1>7, <1>11 DEF m, SamplingRoutine
  <2>2. CASE maxh % gh = 0 /\ maxv % gv = 0
    <3>1. m.name = "int" /\ m.h = maxh \div gh /\ m.v = maxv \div gv
      BY <2>1, <2>2
    <3>2. m.h \in 1 .. 4 /\ maxh = m.h * gh /\ m.v \in 1 .. 4 /\ maxv = m.v * gv
      BY <1>2, <1>5, <2>2, <3>1
    <3> QED BY <1>3, <3>1, <3>2 DEF group, m, gh, gv, Fitting
  <2>3. CASE ~(maxh % gh = 0 /\ maxv % gv = 0)
    <3>1. m.name = "fractional"
      BY <2>1, <2>3
    <3> QED BY <1>3, <1>6, <2>3, <3>1 DEF group, m, gh, gv, Fitting
  <2> QED BY <2>2, <2>3
<1> QED BY <1>8, <1>9, <1>10, <1>11

-------------------------------------------------------------------------------
(* The inductive invariant *)

\* What the sizes of component i follow from: the size of the image, the block size
\* of the file and the size of the DCT.
SizedFor(s, comps, i, width, height, b, size) ==
  \E kh \in Doublings, kv \in Doublings :
    LET h == comps[i].h
        v == comps[i].v
        maxh == MaxH(comps)
        maxv == MaxV(comps)
    IN /\ s.DCT_h_scaled_size = size * kh /\ s.DCT_v_scaled_size = size * kv
       /\ Supported(s.DCT_h_scaled_size, s.DCT_v_scaled_size)
       /\ Whole(maxh, h, kh) /\ Whole(maxv, v, kv)
       /\ s.width_in_blocks = Blocks(width, h, maxh, b)
       /\ s.height_in_blocks = Blocks(height, v, maxv, b)
       /\ s.downsampled_width = jdiv_round_up(width * h * s.DCT_h_scaled_size, maxh * b)
       /\ s.downsampled_height = jdiv_round_up(height * v * s.DCT_v_scaled_size, maxv * b)

\* The sampling routine of a component, given its sizes.
RoutineFor(s, comps, i, size) ==
  SamplingRoutine(Group(comps[i], s, size), MaxH(comps), MaxV(comps))

Positive == Nat \ {0}

SizedRecord ==
  [DCT_h_scaled_size : Positive, DCT_v_scaled_size : Positive,
   width_in_blocks : Positive, height_in_blocks : Positive,
   downsampled_width : Positive, downsampled_height : Positive]

\* A set of one element says of a field no more than that the record has it.
ParamsRecord(p) ==
  [image : Images, comp_info : Components, block_size : BlockSizes,
   scale_num : {p.scale_num}, scale_denom : {p.scale_denom},
   do_fancy_downsampling : BOOLEAN, dct_method : {p.dct_method}]

EncoderRecord(e) ==
  [jpeg_width : Positive, jpeg_height : Positive, block_size : 1 .. 16,
   min_DCT_scaled_size : 1 .. 16, sized : {e.sized}, methods : {e.methods},
   do_dct : {e.do_dct}, divisors : {e.divisors}, float_divisors : {e.float_divisors}]

DecoderRecord(d) ==
  [image_width : Positive, image_height : Positive, block_size : 1 .. 16,
   scale_num : {d.scale_num}, scale_denom : {d.scale_denom}, fancy : {d.fancy},
   min_DCT_scaled_size : 1 .. 16, output_width : Nat, output_height : Nat,
   sized : [DOMAIN params.comp_info -> SizedRecord], methods : {d.methods}, merged : {d.merged}]

Original == {"encoder", "downsampler", "file"}
Dimensioned == {"dimensions", "upsampler", "decoder"}
Turning == {"workspace", "adjusted", "transformed"}
Decoding == {"header", "transcoded"} \cup Dimensioned \cup Turning

SizesTypeOK ==
  /\ params \in ParamsRecord(params)
  /\ stage \notin {"params", "adjusted", "transformed"} => enc \in EncoderRecord(enc)
  /\ stage \in Decoding => dec \in DecoderRecord(dec)

\* The file has the sizes that follow from those of the image.
FileFollowsImage ==
  stage \in Original =>
    /\ enc.jpeg_width = jdiv_round_up(params.image.width * enc.block_size,
                                      enc.min_DCT_scaled_size)
    /\ enc.jpeg_height = jdiv_round_up(params.image.height * enc.block_size,
                                       enc.min_DCT_scaled_size)

\* The components of the file have the sizes that follow from its own.
FileSized ==
  stage \in Original \cup {"foreign", "header", "transcoded", "workspace"} \cup Dimensioned =>
    \A i \in DOMAIN params.comp_info :
      SizedFor(enc.sized[i], params.comp_info, i, enc.jpeg_width, enc.jpeg_height,
               enc.block_size, enc.min_DCT_scaled_size)

DownsamplersChosen ==
  stage \in {"downsampler", "file"} =>
    \A i \in DOMAIN params.comp_info :
      /\ enc.methods[i] = RoutineFor(enc.sized[i], params.comp_info, i, enc.min_DCT_scaled_size)
      /\ enc.methods[i].name # "fractional"

\* The decoder works from the sizes in the file.
DecoderFollowsFile ==
  stage \in {"header", "workspace"} \cup Dimensioned =>
    /\ dec.image_width = enc.jpeg_width /\ dec.image_height = enc.jpeg_height
    /\ dec.block_size = enc.block_size

SourceBlocks ==
  stage \in Decoding =>
    \A i \in DOMAIN params.comp_info :
      /\ dec.sized[i].width_in_blocks = Blocks(dec.image_width, params.comp_info[i].h,
                                               MaxH(params.comp_info), dec.block_size)
      /\ dec.sized[i].height_in_blocks = Blocks(dec.image_height, params.comp_info[i].v,
                                                MaxV(params.comp_info), dec.block_size)

OutputFollows ==
  stage \in Decoding \ {"header"} =>
    /\ dec.output_width = jdiv_round_up(dec.image_width * dec.min_DCT_scaled_size,
                                        dec.block_size)
    /\ dec.output_height = jdiv_round_up(dec.image_height * dec.min_DCT_scaled_size,
                                         dec.block_size)

OutputSized ==
  stage \in Dimensioned =>
    /\ dec.merged => use_merged_upsample(params.comp_info, dec)
    /\ \A i \in DOMAIN params.comp_info :
         SizedFor(dec.sized[i], params.comp_info, i, dec.image_width, dec.image_height,
                  dec.block_size, dec.min_DCT_scaled_size)

UpsamplersChosen ==
  stage \in {"upsampler", "decoder"} =>
    \A i \in DOMAIN params.comp_info :
      /\ dec.methods[i] = RoutineFor(dec.sized[i], params.comp_info, i, dec.min_DCT_scaled_size)
      /\ ~dec.merged => dec.methods[i].name # "fractional"

\* A transcoder makes a file of the size of the output.
FileFollowsOutput ==
  stage = "transcoded" =>
    /\ enc.jpeg_width = dec.output_width /\ enc.jpeg_height = dec.output_height
    /\ enc.block_size = dec.min_DCT_scaled_size

SizesInv ==
  /\ SizesTypeOK
  /\ FileFollowsImage /\ FileSized /\ DownsamplersChosen
  /\ DecoderFollowsFile /\ SourceBlocks /\ OutputFollows /\ OutputSized /\ UpsamplersChosen
  /\ FileFollowsOutput
  /\ IntegralFactorsWork

LEMMA SizesHold ==
  ASSUME NEW comps \in ComponentSeqs, NEW width \in Positive, NEW height \in Positive,
         NEW b \in 1 .. 16, NEW size \in 1 .. 16, NEW fancy \in BOOLEAN
  PROVE  LET sized == SizedComponents(comps, width, height, b, size, fancy)
         IN /\ sized \in [DOMAIN comps -> SizedRecord]
            /\ \A i \in DOMAIN comps : SizedFor(sized[i], comps, i, width, height, b, size)
<1> DEFINE sized == SizedComponents(comps, width, height, b, size, fancy)
           maxh == MaxH(comps)
           maxv == MaxV(comps)
           dct(i) == DctSizes(comps[i], size, fancy, maxh, maxv)
           s(i) == [DCT_h_scaled_size |-> dct(i).h,
                    DCT_v_scaled_size |-> dct(i).v,
                    width_in_blocks |-> Blocks(width, comps[i].h, maxh, b),
                    height_in_blocks |-> Blocks(height, comps[i].v, maxv, b),
                    downsampled_width |->
                      jdiv_round_up(width * comps[i].h * dct(i).h, maxh * b),
                    downsampled_height |->
                      jdiv_round_up(height * comps[i].v * dct(i).v, maxv * b)]
<1>1. sized = [i \in DOMAIN comps |-> s(i)]
  BY DEF SizedComponents
<1>2. ASSUME NEW i \in DOMAIN comps
      PROVE  s(i) \in SizedRecord /\ SizedFor(s(i), comps, i, width, height, b, size)
  <2>1. /\ comps[i] \in Component /\ maxh \in 1 .. 4 /\ maxv \in 1 .. 4
        /\ comps[i].h \in Positive /\ comps[i].v \in Positive
    <3>1. /\ comps[i] \in Component /\ maxh \in 1 .. 4 /\ maxv \in 1 .. 4
          /\ comps[i].h \in 1 .. maxh /\ comps[i].v \in 1 .. maxv
      BY <1>2, GreatestFactors
    <3> HIDE DEF maxh, maxv
    <3> QED BY <3>1 DEF Positive
  <2> HIDE DEF maxh, maxv
  <2>2. PICK kh \in Doublings, kv \in Doublings :
          /\ dct(i).h = size * kh /\ dct(i).v = size * kv
          /\ Supported(dct(i).h, dct(i).v)
          /\ Whole(maxh, comps[i].h, kh) /\ Whole(maxv, comps[i].v, kv)
    <3>1. Regular(dct(i), comps[i], size, maxh, maxv)
      BY <2>1, DctSizesAre
    <3> HIDE DEF dct
    <3> QED BY <3>1 DEF Regular
  <2>3. dct(i).h \in Positive /\ dct(i).v \in Positive
    BY <2>2 DEF Positive, Doublings
  <2>4. maxh \in Positive /\ maxv \in Positive /\ b \in Positive
    BY <2>1 DEF Positive
  <2> HIDE DEF dct
  <2>5. /\ Blocks(width, comps[i].h, maxh, b) \in Positive
        /\ jdiv_round_up(width * comps[i].h * dct(i).h, maxh * b) \in Positive
        /\ Blocks(height, comps[i].v, maxv, b) \in Positive
        /\ jdiv_round_up(height * comps[i].v * dct(i).v, maxv * b) \in Positive
    BY <2>1, <2>3, <2>4, BlocksCover DEF Positive
  <2>6. s(i) \in SizedRecord
    BY <2>3, <2>5 DEF SizedRecord
  <2>7. SizedFor(s(i), comps, i, width, height, b, size)
    BY <2>2 DEF SizedFor, maxh, maxv
  <2> QED BY <2>6, <2>7
<1> HIDE DEF s
<1> QED BY <1>1, <1>2 DEF sized

-------------------------------------------------------------------------------
(* The steps of the encoder *)

LEMMA Admitted ==
  ASSUME SizesTypeOK
  PROVE  /\ params.comp_info \in ComponentSeqs
         /\ params.image.width \in Positive /\ params.image.height \in Positive
         /\ params.block_size \in 1 .. 16
<1>1. params.image \in Images /\ params.comp_info \in Components /\ params.block_size \in BlockSizes
  BY DEF SizesTypeOK, ParamsRecord
<1>2. {params.image.width, params.image.height} \subseteq 1 .. 2^24 - 1
  BY <1>1, SizesAssumption
<1>3. \A e : \A n \in 1 .. e : n \in Positive
  BY DEF Positive
<1> QED BY <1>1, <1>2, <1>3, AdmittedComponents, SizesAssumption

LEMMA LeastSize ==
  ASSUME NEW T \in SUBSET (1 .. 16), T # {}
  PROVE  Min(T) \in T /\ Min(T) \in 1 .. 16
<1>1. \E m \in T : \A n \in T : m <= n
  <2>1. T \in SUBSET Nat
    OBVIOUS
  <2> QED BY <2>1, LeastNat
<1> QED BY <1>1 DEF Min

LEMMA ScalePositive ==
  ASSUME NEW width \in Positive, NEW m \in 1 .. 16, NEW n \in 1 .. 16
  PROVE  jdiv_round_up(width * m, n) \in Positive
<1>1. m \in Nat \ {0} /\ n \in Nat \ {0}
  OBVIOUS
<1> QED BY <1>1, PositiveProduct, RoundUpIs DEF Positive

LEMMA InitSizes == Init => SizesInv
<1> SUFFICES ASSUME Init  PROVE SizesInv
  OBVIOUS
<1>1. PICK picture \in Images, comps \in Components, b \in BlockSizes, s \in Scales,
           fancy \in BOOLEAN, m \in DctMethods :
        params = [image |-> picture, comp_info |-> comps, block_size |-> b,
                  scale_num |-> s[1], scale_denom |-> s[2],
                  do_fancy_downsampling |-> fancy, dct_method |-> m]
  BY DEF Init
<1>2. params \in ParamsRecord(params)
  BY <1>1 DEF ParamsRecord
<1>3. stage = "params"
  BY DEF Init
<1> QED BY <1>2, <1>3 DEF SizesInv, SizesTypeOK, FileFollowsImage, FileSized, DownsamplersChosen,
              DecoderFollowsFile, SourceBlocks, OutputFollows, OutputSized, UpsamplersChosen,
              FileFollowsOutput, IntegralFactorsWork, Original, Dimensioned, Decoding, Turning

\* What the sizes of a component say of its sampling routine.
LEMMA RoutineChosen ==
  ASSUME NEW comps \in ComponentSeqs, NEW i \in DOMAIN comps, NEW s, NEW size \in 1 .. 16,
         NEW width, NEW height, NEW b,
         SizedFor(s, comps, i, width, height, b, size)
  PROVE  \E kh \in Doublings, kv \in Doublings :
           /\ s.DCT_h_scaled_size = size * kh /\ s.DCT_v_scaled_size = size * kv
           /\ Group(comps[i], s, size) = [h |-> comps[i].h * kh, v |-> comps[i].v * kv]
           /\ Fitting(RoutineFor(s, comps, i, size), comps[i], kh, kv, MaxH(comps), MaxV(comps))
<1> DEFINE c == comps[i]
<1>1. PICK kh \in Doublings, kv \in Doublings :
        /\ s.DCT_h_scaled_size = size * kh /\ s.DCT_v_scaled_size = size * kv
        /\ Whole(MaxH(comps), c.h, kh) /\ Whole(MaxV(comps), c.v, kv)
  BY DEF SizedFor
<1>2. /\ c \in Component /\ MaxH(comps) \in 1 .. 4 /\ MaxV(comps) \in 1 .. 4
      /\ c.h <= MaxH(comps) /\ c.v <= MaxV(comps)
  <2>1. /\ c \in Component /\ MaxH(comps) \in 1 .. 4 /\ MaxV(comps) \in 1 .. 4
        /\ c.h \in 1 .. MaxH(comps) /\ c.v \in 1 .. MaxV(comps)
    BY GreatestFactors
  <2> HIDE DEF c
  <2> QED BY <2>1
<1>3. RoutineFor(s, comps, i, size) = SamplingRoutine(Group(c, s, size), MaxH(comps), MaxV(comps))
  BY DEF RoutineFor
<1> HIDE DEF c
<1>4. /\ Group(c, s, size) = [h |-> c.h * kh, v |-> c.v * kv]
      /\ Fitting(SamplingRoutine(Group(c, s, size), MaxH(comps), MaxV(comps)), c, kh, kv,
                 MaxH(comps), MaxV(comps))
  <2>1. ScaledBy(s, c, size, kh, kv, MaxH(comps), MaxV(comps))
    BY <1>1, <1>2 DEF ScaledBy
  <2> QED BY <1>2, <2>1, RoutineIs
<1> QED BY <1>1, <1>3, <1>4 DEF c

LEMMA FractionalIsNot ==
  ASSUME NEW comps \in ComponentSeqs, NEW i \in DOMAIN comps, NEW s, NEW size \in 1 .. 16,
         NEW width, NEW height, NEW b,
         SizedFor(s, comps, i, width, height, b, size),
         RoutineFor(s, comps, i, size).name = "fractional"
  PROVE  ~Integral(comps)
<1>1. PICK kh \in Doublings, kv \in Doublings :
        Fitting(RoutineFor(s, comps, i, size), comps[i], kh, kv, MaxH(comps), MaxV(comps))
  BY RoutineChosen
<1> QED BY <1>1 DEF Fitting, Integral

LEMMA InitialSetupKeeps == SizesInv /\ InitialSetup => SizesInv'
<1> SUFFICES ASSUME SizesInv, InitialSetup  PROVE SizesInv'
  OBVIOUS
<1> DEFINE size == EncoderScale(params)
           width == jdiv_round_up(params.image.width * params.block_size, size)
           height == jdiv_round_up(params.image.height * params.block_size, size)
           comps == params.comp_info
           sized == SizedComponents(comps, width, height, params.block_size, size,
                                    params.do_fancy_downsampling)
<1>1. /\ stage' = "encoder" /\ params' = params
      /\ enc' = [jpeg_width |-> width, jpeg_height |-> height,
                 block_size |-> params.block_size, min_DCT_scaled_size |-> size,
                 sized |-> sized, methods |-> <<>>, do_dct |-> <<>>, divisors |-> <<>>,
                 float_divisors |-> <<>>]
  BY DEF InitialSetup
<1>2. /\ comps \in ComponentSeqs /\ params.block_size \in 1 .. 16
      /\ params.image.width \in Positive /\ params.image.height \in Positive
  BY Admitted DEF SizesInv
<1>3. size \in 1 .. 16
  <2> DEFINE T == {d \in 1 .. 16 : params.scale_num * d >= params.scale_denom * params.block_size}
                    \cup {16}
  <2>1. T \in SUBSET (1 .. 16) /\ T # {}
    OBVIOUS
  <2> HIDE DEF T
  <2>2. Min(T) \in 1 .. 16
    BY <2>1, LeastSize
  <2> QED BY <2>2 DEF EncoderScale, T
<1> HIDE DEF size
<1>4. width \in Positive /\ height \in Positive
  BY <1>2, <1>3, ScalePositive
<1> HIDE DEF width, height, comps
<1>5. \A fancy \in BOOLEAN :
        LET sd == SizedComponents(comps, width, height, params.block_size, size, fancy)
        IN \A i \in DOMAIN comps :
             SizedFor(sd[i], comps, i, width, height, params.block_size, size)
  BY <1>2, <1>3, <1>4, SizesHold
<1>6. params.do_fancy_downsampling \in BOOLEAN
  BY DEF SizesInv, SizesTypeOK, ParamsRecord
<1>7. sized = SizedComponents(comps, width, height, params.block_size, size,
                              params.do_fancy_downsampling)
  BY DEF comps
<1> HIDE DEF sized
<1>8. \A i \in DOMAIN comps : SizedFor(sized[i], comps, i, width, height, params.block_size, size)
  BY <1>5, <1>6, <1>7
<1>9. /\ enc'.jpeg_width = width /\ enc'.jpeg_height = height /\ enc'.sized = sized
      /\ enc'.block_size = params.block_size /\ enc'.min_DCT_scaled_size = size
  BY <1>1
<1>10. SizesTypeOK'
  <2>1. enc' \in EncoderRecord(enc')
    BY <1>1, <1>2, <1>3, <1>4 DEF EncoderRecord
  <2> QED BY <1>1, <2>1 DEF SizesInv, SizesTypeOK, Decoding, Dimensioned, Turning, ParamsRecord
<1>11. FileFollowsImage'
  BY <1>1, <1>9 DEF FileFollowsImage, width, height
<1>12. FileSized'
  BY <1>1, <1>8, <1>9 DEF FileSized, comps
<1> QED BY <1>1, <1>10, <1>11, <1>12 DEF SizesInv, DownsamplersChosen,
              DecoderFollowsFile, SourceBlocks, OutputFollows, OutputSized, UpsamplersChosen,
              FileFollowsOutput, IntegralFactorsWork, Original, Dimensioned, Decoding, Turning

LEMMA InitDownsamplerKeeps == SizesInv /\ InitDownsampler => SizesInv'
<1> SUFFICES ASSUME SizesInv, InitDownsampler  PROVE SizesInv'
  OBVIOUS
<1> DEFINE comps == params.comp_info
           method(i) == SamplingRoutine(
                          Group(comps[i], enc.sized[i], enc.min_DCT_scaled_size),
                          MaxH(comps), MaxV(comps))
           methods == [i \in DOMAIN comps |-> method(i)]
<1>1. stage = "encoder" /\ params' = params /\ dec' = dec
  BY DEF InitDownsampler
<1>2. enc \in EncoderRecord(enc)
  BY <1>1 DEF SizesInv, SizesTypeOK
<1>3. CASE \E i \in DOMAIN comps : methods[i].name = "fractional"
  <2>1. stage' = "error" /\ error' = "FRACT_SAMPLE_NOTIMPL" /\ enc' = enc
    BY <1>3 DEF InitDownsampler, Fail
  <2>2. PICK i \in DOMAIN comps : methods[i].name = "fractional"
    BY <1>3
  <2>3. method(i).name = "fractional"
    BY <2>2
  <2>4. SizedFor(enc.sized[i], comps, i, enc.jpeg_width, enc.jpeg_height,
                 enc.block_size, enc.min_DCT_scaled_size)
    BY <1>1, <2>2 DEF SizesInv, FileSized, Original
  <2>5. ~Integral(comps)
    <3>1. RoutineFor(enc.sized[i], comps, i, enc.min_DCT_scaled_size).name = "fractional"
      BY <2>3 DEF RoutineFor
    <3>2. comps \in ComponentSeqs /\ enc.min_DCT_scaled_size \in 1 .. 16
      BY <1>2, Admitted DEF SizesInv, EncoderRecord
    <3> HIDE DEF comps
    <3> QED BY <2>2, <2>4, <3>1, <3>2, FractionalIsNot
  <2>6. IntegralFactorsWork'
    BY <1>1, <2>1, <2>5 DEF IntegralFactorsWork
  <2>7. SizesTypeOK'
    BY <1>1, <1>2, <2>1 DEF SizesInv, SizesTypeOK, Decoding, Dimensioned, Turning, ParamsRecord
  <2> QED BY <2>1, <2>6, <2>7 DEF SizesInv, FileFollowsImage, FileSized, DownsamplersChosen,
                DecoderFollowsFile, SourceBlocks, OutputFollows, OutputSized, UpsamplersChosen,
                FileFollowsOutput, Original, Dimensioned, Decoding, Turning
<1>4. CASE ~\E i \in DOMAIN comps : methods[i].name = "fractional"
  <2>1. stage' = "downsampler" /\ enc' = [enc EXCEPT !.methods = methods]
    BY <1>4 DEF InitDownsampler
  <2>2. \A i \in DOMAIN comps :
           /\ methods[i] = RoutineFor(enc.sized[i], comps, i, enc.min_DCT_scaled_size)
           /\ methods[i].name # "fractional"
    BY <1>4 DEF RoutineFor
  <2> HIDE DEF methods
  <2>3. /\ enc'.jpeg_width = enc.jpeg_width /\ enc'.jpeg_height = enc.jpeg_height
        /\ enc'.sized = enc.sized /\ enc'.methods = methods
        /\ enc'.block_size = enc.block_size
        /\ enc'.min_DCT_scaled_size = enc.min_DCT_scaled_size
        /\ enc' \in EncoderRecord(enc')
    BY <1>2, <2>1 DEF EncoderRecord
  <2>4. SizesTypeOK'
    BY <1>1, <2>1, <2>3 DEF SizesInv, SizesTypeOK, Decoding, Dimensioned, Turning, ParamsRecord
  <2>5. FileFollowsImage'
    BY <1>1, <2>3 DEF SizesInv, FileFollowsImage, Original
  <2>6. FileSized'
    BY <1>1, <2>3 DEF SizesInv, FileSized, Original
  <2>7. DownsamplersChosen'
    BY <1>1, <2>2, <2>3 DEF DownsamplersChosen
  <2> QED BY <2>1, <2>4, <2>5, <2>6, <2>7 DEF SizesInv,
                DecoderFollowsFile, SourceBlocks, OutputFollows, OutputSized, UpsamplersChosen,
                FileFollowsOutput, IntegralFactorsWork, Original, Dimensioned, Decoding, Turning
<1> QED BY <1>3, <1>4

LEMMA StartForwardKeeps == SizesInv /\ StartForward => SizesInv'
<1> SUFFICES ASSUME SizesInv, StartForward  PROVE SizesInv'
  OBVIOUS
<1> DEFINE comps == params.comp_info
           size(i) == <<enc.sized[i].DCT_h_scaled_size, enc.sized[i].DCT_v_scaled_size>>
<1>1. stage = "downsampler" /\ params' = params /\ dec' = dec
  BY DEF StartForward
<1>2. enc \in EncoderRecord(enc)
  BY <1>1 DEF SizesInv, SizesTypeOK
<1>3. ~\E i \in DOMAIN comps : ~Supported(size(i)[1], size(i)[2])
  <2>1. ASSUME NEW i \in DOMAIN comps
        PROVE  Supported(enc.sized[i].DCT_h_scaled_size, enc.sized[i].DCT_v_scaled_size)
    BY <1>1, <2>1 DEF SizesInv, FileSized, Original, SizedFor
  <2> QED BY <2>1
<1>4. \E d, t, f : /\ stage' = "file"
                   /\ enc' = [enc EXCEPT !.do_dct = d, !.divisors = t, !.float_divisors = f]
  BY <1>3 DEF StartForward
<1>5. /\ enc'.jpeg_width = enc.jpeg_width /\ enc'.jpeg_height = enc.jpeg_height
      /\ enc'.sized = enc.sized /\ enc'.methods = enc.methods
      /\ enc'.block_size = enc.block_size
      /\ enc'.min_DCT_scaled_size = enc.min_DCT_scaled_size
      /\ enc' \in EncoderRecord(enc')
  BY <1>2, <1>4 DEF EncoderRecord
<1>6. SizesTypeOK'
  BY <1>1, <1>4, <1>5 DEF SizesInv, SizesTypeOK, Decoding, Dimensioned, Turning, ParamsRecord
<1>7. FileFollowsImage' /\ DownsamplersChosen'
  BY <1>1, <1>5 DEF SizesInv, FileFollowsImage, DownsamplersChosen, Original
<1>8. FileSized'
  BY <1>1, <1>5 DEF SizesInv, FileSized, Original
<1> QED BY <1>4, <1>6, <1>7, <1>8 DEF SizesInv,
              DecoderFollowsFile, SourceBlocks, OutputFollows, OutputSized, UpsamplersChosen,
              FileFollowsOutput, IntegralFactorsWork, Original, Dimensioned, Decoding, Turning

-------------------------------------------------------------------------------
(* The steps of the decoder *)

LEMMA ForeignFileKeeps == SizesInv /\ ForeignFile => SizesInv'
<1> SUFFICES ASSUME SizesInv, ForeignFile  PROVE SizesInv'
  OBVIOUS
<1> DEFINE b == params.block_size
           width == params.image.width
           height == params.image.height
           comps == params.comp_info
           sized == SizedComponents(comps, width, height, b, b, TRUE)
<1>1. /\ stage' = "foreign"
      /\ params' = [params EXCEPT !.scale_num = 1, !.scale_denom = 1,
                                  !.do_fancy_downsampling = TRUE, !.dct_method = "islow"]
      /\ enc' = [jpeg_width |-> width, jpeg_height |-> height, block_size |-> b,
                 min_DCT_scaled_size |-> b, sized |-> sized, methods |-> <<>>,
                 do_dct |-> <<>>, divisors |-> <<>>, float_divisors |-> <<>>]
  BY DEF ForeignFile
<1>2. /\ comps \in ComponentSeqs /\ b \in 1 .. 16 /\ width \in Positive /\ height \in Positive
  BY Admitted DEF SizesInv
<1>3. params \in ParamsRecord(params)
  BY DEF SizesInv, SizesTypeOK
<1>4. params' \in ParamsRecord(params') /\ params'.comp_info = comps
  BY <1>1, <1>3 DEF ParamsRecord
<1> HIDE DEF b, width, height, comps
<1>5. \A i \in DOMAIN comps : SizedFor(sized[i], comps, i, width, height, b, b)
  BY <1>2, SizesHold
<1> HIDE DEF sized
<1>6. /\ enc'.jpeg_width = width /\ enc'.jpeg_height = height /\ enc'.sized = sized
      /\ enc'.block_size = b /\ enc'.min_DCT_scaled_size = b /\ enc' \in EncoderRecord(enc')
  BY <1>1, <1>2 DEF EncoderRecord
<1>7. SizesTypeOK'
  BY <1>1, <1>4, <1>6 DEF SizesTypeOK, Decoding, Dimensioned, Turning
<1>8. FileSized'
  BY <1>1, <1>4, <1>5, <1>6 DEF FileSized
<1> QED BY <1>1, <1>7, <1>8 DEF SizesInv, FileFollowsImage, DownsamplersChosen,
              DecoderFollowsFile, SourceBlocks, OutputFollows, OutputSized, UpsamplersChosen,
              FileFollowsOutput, IntegralFactorsWork, Original, Dimensioned, Decoding, Turning

LEMMA ReadHeaderKeeps == SizesInv /\ ReadHeader => SizesInv'
<1> SUFFICES ASSUME SizesInv, ReadHeader  PROVE SizesInv'
  OBVIOUS
<1> DEFINE b == enc.block_size
           comps == params.comp_info
           maxh == MaxH(comps)
           maxv == MaxV(comps)
           s(i) == [DCT_h_scaled_size |-> b,
                    DCT_v_scaled_size |-> b,
                    width_in_blocks |-> Blocks(enc.jpeg_width, comps[i].h, maxh, b),
                    height_in_blocks |-> Blocks(enc.jpeg_height, comps[i].v, maxv, b),
                    downsampled_width |-> jdiv_round_up(enc.jpeg_width * comps[i].h, maxh),
                    downsampled_height |-> jdiv_round_up(enc.jpeg_height * comps[i].v, maxv)]
           sized == [i \in DOMAIN comps |-> s(i)]
<1>1. /\ stage \in {"file", "foreign"} /\ stage' = "header" /\ params' = params /\ enc' = enc
      /\ dec' = [image_width |-> enc.jpeg_width, image_height |-> enc.jpeg_height,
                 block_size |-> b, scale_num |-> b, scale_denom |-> b, fancy |-> TRUE,
                 min_DCT_scaled_size |-> b, output_width |-> 0, output_height |-> 0,
                 sized |-> sized, methods |-> <<>>, merged |-> FALSE]
  BY DEF ReadHeader
<1>2. enc \in EncoderRecord(enc) /\ comps \in ComponentSeqs
  BY <1>1, Admitted DEF SizesInv, SizesTypeOK
<1>3. /\ b \in 1 .. 16 /\ b \in Positive /\ enc.jpeg_width \in Positive
      /\ enc.jpeg_height \in Positive
  <2>1. b \in 1 .. 16 /\ enc.jpeg_width \in Positive /\ enc.jpeg_height \in Positive
    BY <1>2 DEF EncoderRecord
  <2> HIDE DEF b
  <2> QED BY <2>1 DEF Positive
<1>4. ASSUME NEW i \in DOMAIN comps
      PROVE  s(i) \in SizedRecord
  <2>1. /\ maxh \in Positive /\ maxv \in Positive
        /\ comps[i].h \in Positive /\ comps[i].v \in Positive
    <3>1. /\ maxh \in 1 .. 4 /\ maxv \in 1 .. 4
          /\ comps[i].h \in 1 .. maxh /\ comps[i].v \in 1 .. maxv
      BY <1>2, <1>4, GreatestFactors
    <3> HIDE DEF maxh, maxv
    <3> QED BY <3>1 DEF Positive
  <2> HIDE DEF maxh, maxv
  <2>2. /\ Blocks(enc.jpeg_width, comps[i].h, maxh, b) \in Positive
        /\ Blocks(enc.jpeg_height, comps[i].v, maxv, b) \in Positive
    BY <1>3, <2>1, BlocksCover, 1 \in Nat \ {0} DEF Positive
  <2>3. /\ jdiv_round_up(enc.jpeg_width * comps[i].h, maxh) \in Positive
        /\ jdiv_round_up(enc.jpeg_height * comps[i].v, maxv) \in Positive
    BY <1>3, <2>1, PositiveProduct, RoundUpIs DEF Positive
  <2> QED BY <1>3, <2>2, <2>3 DEF SizedRecord
<1>5. /\ dec'.image_width = enc.jpeg_width /\ dec'.image_height = enc.jpeg_height
      /\ dec'.block_size = b /\ dec'.sized = sized
  BY <1>1
<1>6. \A i \in DOMAIN comps :
        /\ sized[i].width_in_blocks = Blocks(enc.jpeg_width, comps[i].h, maxh, b)
        /\ sized[i].height_in_blocks = Blocks(enc.jpeg_height, comps[i].v, maxv, b)
  OBVIOUS
<1>7. sized \in [DOMAIN comps -> SizedRecord]
  <2> HIDE DEF s
  <2> QED BY <1>4
<1> HIDE DEF sized, s
<1>8. SizesTypeOK'
  <2>1. dec' \in DecoderRecord(dec)'
    BY <1>1, <1>3, <1>7 DEF DecoderRecord
  <2> QED BY <1>1, <1>2, <2>1 DEF SizesInv, SizesTypeOK, ParamsRecord, EncoderRecord
<1>9. FileSized'
  BY <1>1 DEF SizesInv, FileSized, Original
<1>10. DecoderFollowsFile'
  BY <1>1, <1>5 DEF DecoderFollowsFile
<1>11. SourceBlocks'
  BY <1>1, <1>5, <1>6 DEF SourceBlocks
<1> QED BY <1>1, <1>8, <1>9, <1>10, <1>11 DEF SizesInv, FileFollowsImage, DownsamplersChosen,
              OutputFollows, OutputSized, UpsamplersChosen,
              FileFollowsOutput, IntegralFactorsWork, Original, Dimensioned, Decoding, Turning

\* Output sizes are computed for a record of the decompression object, and change
\* nothing else of it.
SameSource(e, d) ==
  /\ e \in DecoderRecord(e)
  /\ e.image_width = d.image_width /\ e.image_height = d.image_height
  /\ e.block_size = d.block_size /\ e.sized = d.sized

HasOutput(d) ==
  /\ d.output_width = jdiv_round_up(d.image_width * d.min_DCT_scaled_size, d.block_size)
  /\ d.output_height = jdiv_round_up(d.image_height * d.min_DCT_scaled_size, d.block_size)

LEMMA CoreOutputIs ==
  ASSUME NEW d, d \in DecoderRecord(d)
  PROVE  SameSource(CoreOutput(d), d) /\ HasOutput(CoreOutput(d))
<1> DEFINE T == {k \in 1 .. 16 : d.scale_num * d.block_size <= d.scale_denom * k} \cup {16}
           size == Min(T)
           width == jdiv_round_up(d.image_width * size, d.block_size)
           height == jdiv_round_up(d.image_height * size, d.block_size)
           out == [d EXCEPT !.min_DCT_scaled_size = size, !.output_width = width,
                            !.output_height = height]
<1>1. CoreOutput(d) = out
  BY DEF CoreOutput
<1>2. size \in 1 .. 16
  <2>1. T \in SUBSET (1 .. 16) /\ T # {}
    OBVIOUS
  <2> HIDE DEF T
  <2> QED BY <2>1, LeastSize
<1> HIDE DEF size
<1>3. d.image_width \in Positive /\ d.image_height \in Positive /\ d.block_size \in 1 .. 16
  BY DEF DecoderRecord
<1>4. width \in Positive /\ height \in Positive
  BY <1>2, <1>3, ScalePositive
<1>5. width \in Nat /\ height \in Nat
  <2> HIDE DEF width, height
  <2> QED BY <1>4 DEF Positive
<1>6. HasOutput(out)
  <2>1. /\ out.output_width = width /\ out.output_height = height
        /\ out.image_width = d.image_width /\ out.image_height = d.image_height
        /\ out.block_size = d.block_size /\ out.min_DCT_scaled_size = size
    <3> HIDE DEF width, height
    <3> QED BY DEF DecoderRecord
  <2> HIDE DEF out
  <2> QED BY <2>1 DEF HasOutput
<1> HIDE DEF width, height
<1>7. SameSource(out, d)
  BY <1>2, <1>5 DEF DecoderRecord, SameSource
<1> QED BY <1>1, <1>6, <1>7

LEMMA AskedIs ==
  ASSUME dec \in DecoderRecord(dec), NEW n, NEW m, NEW f
  PROVE  LET asked == [dec EXCEPT !.scale_num = n, !.fancy = f, !.scale_denom = m]
             same == [dec EXCEPT !.scale_num = n, !.scale_denom = m]
         IN SameSource(asked, dec) /\ SameSource(same, dec)
BY DEF SameSource, DecoderRecord

LEMMA CalcOutputKeeps == SizesInv /\ CalcOutputDimensions => SizesInv'
<1> SUFFICES ASSUME SizesInv, CalcOutputDimensions  PROVE SizesInv'
  OBVIOUS
<1> DEFINE comps == params.comp_info
           asked(s, f) == CoreOutput([dec EXCEPT !.scale_num = s[1], !.fancy = f,
                                                 !.scale_denom = s[2]])
           resized(a, f) == SizedComponents(comps, dec.image_width, dec.image_height,
                              dec.block_size, a.min_DCT_scaled_size, f)
           sized(r) == [i \in DOMAIN r |->
                          [r[i] EXCEPT !.width_in_blocks = dec.sized[i].width_in_blocks,
                                       !.height_in_blocks = dec.sized[i].height_in_blocks]]
<1>1. /\ stage \in {"header", "dimensions"} /\ stage' = "dimensions"
      /\ params' = params /\ enc' = enc
  BY DEF CalcOutputDimensions
<1>2. PICK s \in Outputs, f \in BOOLEAN :
        LET done == [asked(s, f) EXCEPT !.sized = sized(resized(asked(s, f), f))]
        IN dec' = [done EXCEPT !.merged = use_merged_upsample(comps, done)]
  BY DEF CalcOutputDimensions
<1> DEFINE a == asked(s, f)
           r == resized(a, f)
           z == sized(r)
           done == [a EXCEPT !.sized = z]
           merged == use_merged_upsample(comps, done)
<1>3. dec' = [done EXCEPT !.merged = merged]
  BY <1>2
<1>4. dec \in DecoderRecord(dec) /\ comps \in ComponentSeqs
  BY <1>1, Admitted DEF SizesInv, SizesTypeOK, Decoding, Dimensioned
<1>5. SameSource(a, dec) /\ HasOutput(a)
  <2> DEFINE d == [dec EXCEPT !.scale_num = s[1], !.fancy = f, !.scale_denom = s[2]]
  <2>1. SameSource(d, dec)
    BY <1>4, AskedIs
  <2> HIDE DEF d
  <2>2. SameSource(CoreOutput(d), d) /\ HasOutput(CoreOutput(d))
    BY <2>1, CoreOutputIs DEF SameSource
  <2>3. SameSource(CoreOutput(d), dec)
    BY <2>1, <2>2 DEF SameSource
  <2> QED BY <2>2, <2>3 DEF d
<1> HIDE DEF a
<1>6. /\ a \in DecoderRecord(a) /\ a.image_width = dec.image_width
      /\ a.image_height = dec.image_height /\ a.block_size = dec.block_size
      /\ dec.image_width \in Positive /\ dec.image_height \in Positive
      /\ dec.block_size \in 1 .. 16 /\ a.min_DCT_scaled_size \in 1 .. 16
  BY <1>4, <1>5 DEF SameSource, DecoderRecord
<1>7. /\ r \in [DOMAIN comps -> SizedRecord]
      /\ \A i \in DOMAIN comps :
           SizedFor(r[i], comps, i, dec.image_width, dec.image_height, dec.block_size,
                    a.min_DCT_scaled_size)
  <2> HIDE DEF comps
  <2> QED BY <1>4, <1>6, SizesHold
<1> HIDE DEF r
<1>8. \A i \in DOMAIN comps :
        /\ dec.sized[i].width_in_blocks = Blocks(dec.image_width, comps[i].h, MaxH(comps),
                                                 dec.block_size)
        /\ dec.sized[i].height_in_blocks = Blocks(dec.image_height, comps[i].v, MaxV(comps),
                                                  dec.block_size)
        /\ dec.sized[i] \in SizedRecord
  BY <1>1, <1>4 DEF SizesInv, SourceBlocks, Decoding, Dimensioned, DecoderRecord
<1>9. z = r
  <2>1. ASSUME NEW i \in DOMAIN comps
        PROVE  [r[i] EXCEPT !.width_in_blocks = dec.sized[i].width_in_blocks,
                            !.height_in_blocks = dec.sized[i].height_in_blocks] = r[i]
    <3>1. /\ r[i].width_in_blocks = dec.sized[i].width_in_blocks
          /\ r[i].height_in_blocks = dec.sized[i].height_in_blocks
      BY <1>7, <1>8, <2>1 DEF SizedFor
    <3>2. r[i] \in SizedRecord
      BY <1>7
    <3> QED BY <3>1, <3>2 DEF SizedRecord
  <2>2. DOMAIN r = DOMAIN comps /\ r = [i \in DOMAIN comps |-> r[i]]
    BY <1>7
  <2> QED BY <2>1, <2>2
<1> HIDE DEF z
<1>10. /\ dec' \in DecoderRecord(dec)' /\ HasOutput(dec') /\ dec'.merged = merged
       /\ dec'.sized = r /\ dec'.min_DCT_scaled_size = a.min_DCT_scaled_size
       /\ dec'.fancy = a.fancy /\ dec'.image_width = dec.image_width
       /\ dec'.image_height = dec.image_height /\ dec'.block_size = dec.block_size
       /\ done.sized = r /\ done.min_DCT_scaled_size = a.min_DCT_scaled_size
       /\ done.fancy = a.fancy
  <2> HIDE DEF merged, comps
  <2>1. a.output_width = jdiv_round_up(a.image_width * a.min_DCT_scaled_size, a.block_size)
        /\ a.output_height = jdiv_round_up(a.image_height * a.min_DCT_scaled_size, a.block_size)
    BY <1>5 DEF HasOutput
  <2> QED BY <1>1, <1>3, <1>4, <1>6, <1>7, <1>9, <2>1 DEF DecoderRecord, HasOutput, comps
<1>11. merged => use_merged_upsample(params.comp_info, dec')
  <2> HIDE DEF done
  <2> QED BY <1>10 DEF use_merged_upsample, merged
<1> HIDE DEF merged, done
<1>12. SizesTypeOK'
  BY <1>1, <1>10 DEF SizesInv, SizesTypeOK, ParamsRecord, EncoderRecord
<1>13. FileSized'
  BY <1>1 DEF SizesInv, FileSized, Original, Dimensioned
<1>14. DecoderFollowsFile'
  BY <1>1, <1>10 DEF SizesInv, DecoderFollowsFile, Dimensioned
<1>15. SourceBlocks'
  BY <1>1, <1>7, <1>10 DEF SourceBlocks, SizedFor
<1>16. OutputFollows'
  BY <1>10 DEF OutputFollows, HasOutput
<1>17. OutputSized'
  BY <1>1, <1>7, <1>10, <1>11 DEF OutputSized
<1> QED BY <1>1, <1>12, <1>13, <1>14, <1>15, <1>16, <1>17 DEF SizesInv, FileFollowsImage,
              DownsamplersChosen, UpsamplersChosen,
              FileFollowsOutput, IntegralFactorsWork, Original, Dimensioned, Decoding, Turning

LEMMA InitUpsamplerKeeps == SizesInv /\ InitUpsampler => SizesInv'
<1> SUFFICES ASSUME SizesInv, InitUpsampler  PROVE SizesInv'
  OBVIOUS
<1> DEFINE comps == params.comp_info
           routine(i) == SamplingRoutine(
                           Group(comps[i], dec.sized[i], dec.min_DCT_scaled_size),
                           MaxH(comps), MaxV(comps))
           methods == [i \in DOMAIN comps |-> routine(i)]
<1>1. stage = "dimensions" /\ params' = params /\ enc' = enc
  BY DEF InitUpsampler
<1>2. dec \in DecoderRecord(dec) /\ comps \in ComponentSeqs
  BY <1>1, Admitted DEF SizesInv, SizesTypeOK, Decoding, Dimensioned
<1>3. CASE ~dec.merged /\ \E i \in DOMAIN comps : methods[i].name = "fractional"
  <2>1. stage' = "error" /\ error' = "FRACT_SAMPLE_NOTIMPL" /\ dec' = dec
    BY <1>3 DEF InitUpsampler, Fail
  <2>2. PICK i \in DOMAIN comps : methods[i].name = "fractional"
    BY <1>3
  <2>3. SizedFor(dec.sized[i], comps, i, dec.image_width, dec.image_height,
                 dec.block_size, dec.min_DCT_scaled_size)
    BY <1>1, <2>2 DEF SizesInv, OutputSized, Dimensioned
  <2>4. ~Integral(comps)
    <3>1. RoutineFor(dec.sized[i], comps, i, dec.min_DCT_scaled_size).name = "fractional"
      BY <2>2 DEF RoutineFor
    <3>2. dec.min_DCT_scaled_size \in 1 .. 16
      BY <1>2 DEF DecoderRecord
    <3> HIDE DEF comps
    <3> QED BY <1>2, <2>2, <2>3, <3>1, <3>2, FractionalIsNot
  <2>5. IntegralFactorsWork'
    BY <1>1, <2>1, <2>4 DEF IntegralFactorsWork
  <2>6. SizesTypeOK'
    BY <1>1, <2>1 DEF SizesInv, SizesTypeOK, Decoding, Dimensioned, Turning, ParamsRecord,
                      EncoderRecord
  <2> QED BY <2>1, <2>5, <2>6 DEF SizesInv, FileFollowsImage, FileSized, DownsamplersChosen,
                DecoderFollowsFile, SourceBlocks, OutputFollows, OutputSized, UpsamplersChosen,
                FileFollowsOutput, Original, Dimensioned, Decoding, Turning
<1>4. CASE dec.merged \/ ~\E i \in DOMAIN comps : methods[i].name = "fractional"
  <2>1. stage' = "upsampler" /\ dec' = [dec EXCEPT !.methods = methods]
    BY <1>4 DEF InitUpsampler
  <2>2. \A i \in DOMAIN comps :
           /\ methods[i] = RoutineFor(dec.sized[i], comps, i, dec.min_DCT_scaled_size)
           /\ ~dec.merged => methods[i].name # "fractional"
    BY <1>4 DEF RoutineFor
  <2> HIDE DEF methods
  <2>3. /\ dec'.image_width = dec.image_width /\ dec'.image_height = dec.image_height
        /\ dec'.sized = dec.sized /\ dec'.methods = methods /\ dec'.fancy = dec.fancy
        /\ dec'.block_size = dec.block_size /\ dec'.merged = dec.merged
        /\ dec'.output_width = dec.output_width /\ dec'.output_height = dec.output_height
        /\ dec'.min_DCT_scaled_size = dec.min_DCT_scaled_size
        /\ dec' \in DecoderRecord(dec)'
    BY <1>1, <1>2, <2>1 DEF DecoderRecord
  <2>4. SizesTypeOK'
    BY <1>1, <2>1, <2>3 DEF SizesInv, SizesTypeOK, ParamsRecord, EncoderRecord
  <2>5. FileSized'
    BY <1>1 DEF SizesInv, FileSized, Original, Dimensioned
  <2>6. DecoderFollowsFile'
    BY <1>1, <2>3 DEF SizesInv, DecoderFollowsFile, Dimensioned
  <2>7. SourceBlocks'
    BY <1>1, <2>3 DEF SizesInv, SourceBlocks, Decoding, Dimensioned
  <2>8. OutputFollows'
    BY <1>1, <2>3 DEF SizesInv, OutputFollows, Decoding, Dimensioned
  <2>9. OutputSized'
    <3>1. dec'.merged => use_merged_upsample(comps, dec)
      BY <1>1, <2>3 DEF SizesInv, OutputSized, Dimensioned
    <3>2. use_merged_upsample(comps, dec) => use_merged_upsample(comps, dec')
      BY <2>3 DEF use_merged_upsample
    <3>3. \A i \in DOMAIN comps :
            SizedFor(dec.sized[i], comps, i, dec.image_width, dec.image_height,
                     dec.block_size, dec.min_DCT_scaled_size)
      BY <1>1 DEF SizesInv, OutputSized, Dimensioned
    <3> QED BY <1>1, <2>3, <3>1, <3>2, <3>3 DEF OutputSized
  <2>10. UpsamplersChosen'
    BY <1>1, <2>2, <2>3 DEF UpsamplersChosen
  <2> QED BY <2>1, <2>4, <2>5, <2>6, <2>7, <2>8, <2>9, <2>10 DEF SizesInv, FileFollowsImage,
                DownsamplersChosen,
                FileFollowsOutput, IntegralFactorsWork, Original, Dimensioned, Decoding, Turning
<1> QED BY <1>3, <1>4

LEMMA StartInverseKeeps == SizesInv /\ StartInverse => SizesInv'
<1> SUFFICES ASSUME SizesInv, StartInverse  PROVE SizesInv'
  OBVIOUS
<1>1. stage = "upsampler" /\ params' = params /\ enc' = enc /\ dec' = dec
  BY DEF StartInverse
<1>2. ASSUME NEW i \in DOMAIN params.comp_info
      PROVE  Supported(dec.sized[i].DCT_h_scaled_size, dec.sized[i].DCT_v_scaled_size)
  BY <1>1, <1>2 DEF SizesInv, OutputSized, Dimensioned, SizedFor
<1>3. stage' = "decoder"
  BY <1>2 DEF StartInverse
<1>4. SizesTypeOK'
  BY <1>1, <1>3 DEF SizesInv, SizesTypeOK, Decoding, Dimensioned, ParamsRecord, EncoderRecord,
                    DecoderRecord
<1>5. FileSized' /\ DecoderFollowsFile' /\ SourceBlocks' /\ OutputFollows' /\ UpsamplersChosen'
  BY <1>1, <1>3 DEF SizesInv, FileSized, Original, Decoding, Dimensioned, DecoderFollowsFile,
                    SourceBlocks, OutputFollows, UpsamplersChosen
<1>6. OutputSized'
  BY <1>1, <1>3 DEF SizesInv, Dimensioned, OutputSized
<1> QED BY <1>3, <1>4, <1>5, <1>6 DEF SizesInv, FileFollowsImage, DownsamplersChosen,
              FileFollowsOutput, IntegralFactorsWork, Original, Dimensioned, Decoding, Turning

LEMMA TranscodeKeeps == SizesInv /\ Transcode => SizesInv'
<1> SUFFICES ASSUME SizesInv, Transcode  PROVE SizesInv'
  OBVIOUS
<1> DEFINE comps == params.comp_info
           core(s) == CoreOutput([dec EXCEPT !.scale_num = s[1], !.scale_denom = s[2]])
<1>1. stage = "header" /\ stage' = "transcoded" /\ params' = params
  BY DEF Transcode
<1>2. dec \in DecoderRecord(dec) /\ enc \in EncoderRecord(enc) /\ comps \in ComponentSeqs
  BY <1>1, Admitted DEF SizesInv, SizesTypeOK, Decoding
<1>3. PICK s \in Outputs :
        LET size == core(s).min_DCT_scaled_size
        IN /\ dec' = [core(s) EXCEPT !.sized = [i \in DOMAIN @ |->
                        [@[i] EXCEPT !.DCT_h_scaled_size = size, !.DCT_v_scaled_size = size]]]
           /\ enc' = [enc EXCEPT
                        !.jpeg_width = core(s).output_width, !.jpeg_height = core(s).output_height,
                        !.block_size = size, !.min_DCT_scaled_size = size,
                        !.sized = SizedComponents(comps, core(s).output_width,
                                    core(s).output_height, size, size, TRUE)]
  BY DEF Transcode
<1> DEFINE a == core(s)
           size == a.min_DCT_scaled_size
           z == [i \in DOMAIN a.sized |->
                   [a.sized[i] EXCEPT !.DCT_h_scaled_size = size, !.DCT_v_scaled_size = size]]
           sized == SizedComponents(comps, a.output_width, a.output_height, size, size, TRUE)
<1>4. SameSource(a, dec) /\ HasOutput(a)
  <2> DEFINE d == [dec EXCEPT !.scale_num = s[1], !.scale_denom = s[2]]
  <2>1. SameSource(d, dec)
    BY <1>2, AskedIs
  <2> HIDE DEF d
  <2>2. SameSource(CoreOutput(d), d) /\ HasOutput(CoreOutput(d))
    BY <2>1, CoreOutputIs DEF SameSource
  <2>3. SameSource(CoreOutput(d), dec)
    BY <2>1, <2>2 DEF SameSource
  <2> QED BY <2>2, <2>3 DEF d
<1>5. dec' = [a EXCEPT !.sized = z]
  BY <1>3
<1>6. enc' = [enc EXCEPT !.jpeg_width = a.output_width, !.jpeg_height = a.output_height,
                         !.block_size = size, !.min_DCT_scaled_size = size, !.sized = sized]
  BY <1>3
<1> HIDE DEF a
<1>7. a \in DecoderRecord(a) /\ size \in 1 .. 16 /\ a.image_width \in Positive
      /\ a.image_height \in Positive /\ a.block_size \in 1 .. 16
  BY <1>4 DEF SameSource, DecoderRecord
<1> HIDE DEF size
<1>8. a.output_width \in Positive /\ a.output_height \in Positive
  <2>1. /\ a.output_width = jdiv_round_up(a.image_width * size, a.block_size)
        /\ a.output_height = jdiv_round_up(a.image_height * size, a.block_size)
    BY <1>4 DEF HasOutput, size
  <2> QED BY <1>7, <2>1, ScalePositive
<1>9. \A i \in DOMAIN comps : SizedFor(sized[i], comps, i, a.output_width, a.output_height, size, size)
  <2> HIDE DEF comps
  <2> QED BY <1>2, <1>7, <1>8, SizesHold
<1> HIDE DEF sized
<1>10. /\ enc'.jpeg_width = a.output_width /\ enc'.jpeg_height = a.output_height
       /\ enc'.block_size = size /\ enc'.min_DCT_scaled_size = size /\ enc'.sized = sized
       /\ enc' \in EncoderRecord(enc')
  BY <1>2, <1>6, <1>7, <1>8 DEF EncoderRecord
<1>11. /\ z \in [DOMAIN comps -> SizedRecord]
       /\ \A i \in DOMAIN comps : /\ z[i].width_in_blocks = dec.sized[i].width_in_blocks
                                  /\ z[i].height_in_blocks = dec.sized[i].height_in_blocks
  <2>1. a.sized = dec.sized /\ dec.sized \in [DOMAIN comps -> SizedRecord]
    BY <1>2, <1>4 DEF SameSource, DecoderRecord
  <2>2. size \in Positive
    BY <1>7 DEF Positive
  <2>3. ASSUME NEW t \in SizedRecord
        PROVE  LET u == [t EXCEPT !.DCT_h_scaled_size = size, !.DCT_v_scaled_size = size]
               IN /\ u \in SizedRecord /\ u.width_in_blocks = t.width_in_blocks
                  /\ u.height_in_blocks = t.height_in_blocks
    BY <2>2 DEF SizedRecord
  <2> HIDE DEF comps
  <2>4. z = [i \in DOMAIN comps |-> [dec.sized[i] EXCEPT !.DCT_h_scaled_size = size,
                                                         !.DCT_v_scaled_size = size]]
    BY <2>1
  <2> HIDE DEF z
  <2> QED BY <2>1, <2>3, <2>4
<1> HIDE DEF z
<1>12. /\ dec' \in DecoderRecord(dec)' /\ dec'.sized = z
       /\ dec'.image_width = dec.image_width /\ dec'.image_height = dec.image_height
       /\ dec'.block_size = dec.block_size /\ dec'.min_DCT_scaled_size = size
       /\ dec'.output_width = a.output_width /\ dec'.output_height = a.output_height
       /\ HasOutput(dec')
  BY <1>1, <1>2, <1>4, <1>5, <1>7, <1>11 DEF DecoderRecord, SameSource, HasOutput, size
<1>13. SizesTypeOK'
  BY <1>1, <1>10, <1>12 DEF SizesInv, SizesTypeOK, ParamsRecord
<1>14. FileSized'
  BY <1>1, <1>9, <1>10 DEF FileSized
<1>15. SourceBlocks'
  BY <1>1, <1>11, <1>12 DEF SizesInv, SourceBlocks, Decoding
<1>16. OutputFollows' /\ FileFollowsOutput'
  BY <1>10, <1>12 DEF OutputFollows, HasOutput, FileFollowsOutput
<1> QED BY <1>1, <1>13, <1>14, <1>15, <1>16 DEF SizesInv, FileFollowsImage,
              DownsamplersChosen, DecoderFollowsFile, OutputSized, UpsamplersChosen,
              IntegralFactorsWork, Original, Dimensioned, Decoding, Turning

-------------------------------------------------------------------------------
(* Sizes and transformations *)

LEMMA RequestKeepsSizes == SizesInv /\ RequestWorkspace => SizesInv'
<1> SUFFICES ASSUME SizesInv, RequestWorkspace  PROVE SizesInv'
  OBVIOUS
<1>1. /\ stage = "header" /\ params' = params /\ enc' = enc
      /\ stage' \in {"workspace", "imperfect", "refused"}
  BY DEF RequestWorkspace, Refuse
<1>2. dec \in DecoderRecord(dec)
  BY <1>1 DEF SizesInv, SizesTypeOK, Decoding
<1>3. PICK s \in TransformScales :
        dec' = CoreOutput([dec EXCEPT !.scale_num = s[1], !.scale_denom = s[2]])
  BY DEF RequestWorkspace
<1>4. SameSource(dec', dec) /\ HasOutput(dec')
  <2> DEFINE d == [dec EXCEPT !.scale_num = s[1], !.scale_denom = s[2]]
  <2>1. SameSource(d, dec)
    BY <1>2, AskedIs
  <2>2. dec' = CoreOutput(d)
    BY <1>3
  <2> HIDE DEF d
  <2>3. SameSource(CoreOutput(d), d) /\ HasOutput(CoreOutput(d))
    BY <2>1, CoreOutputIs DEF SameSource
  <2> QED BY <2>1, <2>2, <2>3 DEF SameSource
<1>5. /\ dec' \in DecoderRecord(dec') /\ dec'.sized = dec.sized
      /\ dec'.image_width = dec.image_width /\ dec'.image_height = dec.image_height
      /\ dec'.block_size = dec.block_size
  BY <1>4 DEF SameSource
<1>6. SizesTypeOK'
  BY <1>1, <1>5 DEF SizesInv, SizesTypeOK, ParamsRecord, EncoderRecord, DecoderRecord
<1>7. FileSized' /\ DecoderFollowsFile' /\ SourceBlocks'
  BY <1>1, <1>5 DEF SizesInv, FileSized, Original, Dimensioned, Decoding, Turning,
                    DecoderFollowsFile, SourceBlocks
<1>8. OutputFollows'
  BY <1>4 DEF OutputFollows, HasOutput
<1> QED BY <1>1, <1>6, <1>7, <1>8 DEF SizesInv, FileFollowsImage,
              DownsamplersChosen, OutputSized, UpsamplersChosen, FileFollowsOutput,
              IntegralFactorsWork, Original, Dimensioned, Decoding, Turning

LEMMA AdjustKeepsSizes == SizesInv /\ AdjustParameters => SizesInv'
<1> SUFFICES ASSUME SizesInv, AdjustParameters  PROVE SizesInv'
  OBVIOUS
<1>1. stage = "workspace" /\ params' = params /\ dec' = dec
  BY DEF AdjustParameters
<1>2. stage' = "adjusted" \/ (stage' = "refused" /\ enc' = enc)
  <2> DEFINE illegal == /\ info.request.force_grayscale
                        /\ ~( /\ Len(params.comp_info) \in {1, 3}
                              /\ params.comp_info[1].h = MaxH(params.comp_info)
                              /\ params.comp_info[1].v = MaxV(params.comp_info))
  <2>1. CASE illegal
    BY <2>1 DEF AdjustParameters, Refuse
  <2>2. CASE ~illegal
    BY <2>2 DEF AdjustParameters
  <2> QED BY <2>1, <2>2
<1>3. SizesTypeOK'
  BY <1>1, <1>2 DEF SizesInv, SizesTypeOK, ParamsRecord, EncoderRecord, DecoderRecord,
                    Decoding, Dimensioned, Turning
<1>4. SourceBlocks' /\ OutputFollows'
  BY <1>1, <1>2 DEF SizesInv, SourceBlocks, OutputFollows, Decoding, Dimensioned, Turning
<1> QED BY <1>2, <1>3, <1>4 DEF SizesInv, FileFollowsImage, FileSized, DecoderFollowsFile,
              DownsamplersChosen, OutputSized, UpsamplersChosen, FileFollowsOutput,
              IntegralFactorsWork, Original, Dimensioned, Decoding, Turning

LEMMA ExecuteKeepsSizes == SizesInv /\ ExecuteTransform => SizesInv'
<1> SUFFICES ASSUME SizesInv, ExecuteTransform  PROVE SizesInv'
  OBVIOUS
<1>1. stage = "adjusted" /\ stage' = "transformed" /\ params' = params /\ enc' = enc /\ dec' = dec
  BY DEF ExecuteTransform
<1>2. SizesTypeOK'
  BY <1>1 DEF SizesInv, SizesTypeOK, ParamsRecord, DecoderRecord, Decoding, Dimensioned, Turning
<1>3. SourceBlocks' /\ OutputFollows'
  BY <1>1 DEF SizesInv, SourceBlocks, OutputFollows, Decoding, Dimensioned, Turning
<1> QED BY <1>1, <1>2, <1>3 DEF SizesInv, FileFollowsImage, FileSized, DecoderFollowsFile,
              DownsamplersChosen, OutputSized, UpsamplersChosen, FileFollowsOutput,
              IntegralFactorsWork, Original, Dimensioned, Decoding, Turning

LEMMA SizesStep == SizesInv /\ [TNext]_tvars => SizesInv'
<1> SUFFICES ASSUME SizesInv, [TNext]_tvars  PROVE SizesInv'
  OBVIOUS
<1>1. CASE InitialSetup
  BY <1>1, InitialSetupKeeps
<1>2. CASE InitDownsampler
  BY <1>2, InitDownsamplerKeeps
<1>3. CASE StartForward
  BY <1>3, StartForwardKeeps
<1>4. CASE ForeignFile
  BY <1>4, ForeignFileKeeps
<1>5. CASE ReadHeader
  BY <1>5, ReadHeaderKeeps
<1>6. CASE CalcOutputDimensions
  BY <1>6, CalcOutputKeeps
<1>7. CASE InitUpsampler
  BY <1>7, InitUpsamplerKeeps
<1>8. CASE StartInverse
  BY <1>8, StartInverseKeeps
<1>9. CASE Transcode
  BY <1>9, TranscodeKeeps
<1>10. CASE RequestWorkspace
  BY <1>10, RequestKeepsSizes
<1>11. CASE AdjustParameters
  BY <1>11, AdjustKeepsSizes
<1>12. CASE ExecuteTransform
  BY <1>12, ExecuteKeepsSizes
<1>13. CASE UNCHANGED tvars
  <2>1. /\ stage' = stage /\ error' = error /\ params' = params /\ enc' = enc /\ dec' = dec
    BY <1>13 DEF tvars, vars
  <2> QED BY <2>1 DEF SizesInv, SizesTypeOK, ParamsRecord, EncoderRecord, DecoderRecord,
                FileFollowsImage, FileSized, DecoderFollowsFile, SourceBlocks, OutputFollows,
                DownsamplersChosen, OutputSized, UpsamplersChosen, FileFollowsOutput,
                IntegralFactorsWork
<1> QED BY <1>1, <1>2, <1>3, <1>4, <1>5, <1>6, <1>7, <1>8, <1>9, <1>10, <1>11, <1>12, <1>13
        DEF TNext, Next

\* The sizes, scales and routines of every stage, from the image to the file and to the
\* output, follow from those before it, whatever the image and its factors are
\* (initial_setup of jcmaster.c and jdinput.c, jpeg_calc_output_dimensions, jctrans.c).
THEOREM SizesCorrect == TSpec => []SizesInv
<1>1. TInit => SizesInv
  BY InitSizes DEF TInit
<1>2. SizesInv /\ [TNext]_tvars => SizesInv'
  BY SizesStep
<1> QED BY <1>1, <1>2, PTL DEF TSpec

\* Scaling in the DCT never makes sampling factors illegal (jcmaster.c:301-324,
\* jdmaster.c:114-134): an image is refused only if its own factors do not divide
\* its greatest.
THEOREM FactorsWork == TSpec => []IntegralFactorsWork
<1>1. SizesInv => IntegralFactorsWork
  BY DEF SizesInv
<1> QED BY <1>1, SizesCorrect, PTL

-------------------------------------------------------------------------------
(* Buffers of the encoder, the decoder and the transcoder *)

\* The numbers a component's sizes are made of.
LEMMA ComponentNumbers ==
  ASSUME NEW comps \in ComponentSeqs, NEW i \in DOMAIN comps
  PROVE  /\ comps[i].h \in Nat \ {0} /\ comps[i].v \in Nat \ {0}
         /\ MaxH(comps) \in Nat \ {0} /\ MaxV(comps) \in Nat \ {0}
<1> DEFINE maxh == MaxH(comps)
           maxv == MaxV(comps)
<1>1. /\ maxh \in 1 .. 4 /\ maxv \in 1 .. 4
      /\ comps[i].h \in 1 .. maxh /\ comps[i].v \in 1 .. maxv
  BY GreatestFactors
<1> HIDE DEF maxh, maxv
<1>2. /\ comps[i].h \in Nat \ {0} /\ comps[i].v \in Nat \ {0}
      /\ maxh \in Nat \ {0} /\ maxv \in Nat \ {0}
  BY <1>1
<1> QED BY <1>2 DEF maxh, maxv

LEMMA EncoderHasRoom == SizesInv => EncoderFits
<1> SUFFICES ASSUME SizesInv, stage = "file", NEW i \in DOMAIN params.comp_info
             PROVE  LET c == params.comp_info[i]
                        s == enc.sized[i]
                    IN /\ params.image.width <= PrepWidth(i)
                       /\ s.width_in_blocks * s.DCT_h_scaled_size * enc.methods[i].h = PrepWidth(i)
                       /\ c.v * s.DCT_v_scaled_size * enc.methods[i].v
                            = MaxV(params.comp_info) * enc.min_DCT_scaled_size
                       /\ s.downsampled_width <= s.width_in_blocks * s.DCT_h_scaled_size
                       /\ s.downsampled_width > (s.width_in_blocks - 1) * s.DCT_h_scaled_size
                       /\ s.downsampled_height <= s.height_in_blocks * s.DCT_v_scaled_size
                       /\ s.downsampled_height > (s.height_in_blocks - 1) * s.DCT_v_scaled_size
  BY DEF EncoderFits
<1> DEFINE comps == params.comp_info
           c == comps[i]
           h == c.h
           v == c.v
           maxh == MaxH(comps)
           maxv == MaxV(comps)
           s == enc.sized[i]
           m == enc.methods[i]
           b == enc.block_size
           size == enc.min_DCT_scaled_size
           W == params.image.width
           nw == enc.jpeg_width
           nh == enc.jpeg_height
<1>1. /\ comps \in ComponentSeqs /\ b \in 1 .. 16 /\ size \in 1 .. 16
      /\ W \in Positive /\ nw \in Positive /\ nh \in Positive
  BY Admitted DEF SizesInv, SizesTypeOK, EncoderRecord
<1>2. SizedFor(s, comps, i, nw, nh, b, size)
  BY DEF SizesInv, FileSized, Original
<1>3. m = RoutineFor(s, comps, i, size) /\ m.name # "fractional"
  BY DEF SizesInv, DownsamplersChosen
<1>4. nw = jdiv_round_up(W * b, size)
  BY DEF SizesInv, FileFollowsImage, Original
<1>5. /\ h \in Nat \ {0} /\ v \in Nat \ {0} /\ maxh \in Nat \ {0} /\ maxv \in Nat \ {0}
  BY <1>1, ComponentNumbers
<1> HIDE DEF comps, m, s, b, size, W, nw, nh, maxh, maxv
<1>6. PICK kh \in Doublings, kv \in Doublings :
        /\ s.DCT_h_scaled_size = size * kh /\ s.DCT_v_scaled_size = size * kv
        /\ Fitting(m, c, kh, kv, maxh, maxv)
  BY <1>1, <1>2, <1>3, RoutineChosen DEF comps, maxh, maxv
<1> HIDE DEF h, v, c
<1>7. /\ m.h \in Nat \ {0} /\ m.v \in Nat \ {0} /\ kh \in Nat \ {0} /\ kv \in Nat \ {0}
      /\ maxh = m.h * (h * kh) /\ maxv = m.v * (v * kv)
      /\ b \in Nat \ {0} /\ size \in Nat \ {0}
      /\ W \in Nat \ {0} /\ nw \in Nat \ {0} /\ nh \in Nat \ {0}
  <2>1. m.h \in 1 .. 4 /\ m.v \in 1 .. 4 /\ maxh = m.h * (h * kh) /\ maxv = m.v * (v * kv)
    BY <1>3, <1>6 DEF Fitting, h, v
  <2>2. m.h \in Nat \ {0} /\ m.v \in Nat \ {0} /\ kh \in Nat \ {0} /\ kv \in Nat \ {0}
    BY <2>1 DEF Doublings
  <2> QED BY <1>1, <2>1, <2>2 DEF Positive
<1>8. /\ s.width_in_blocks = Blocks(nw, h, maxh, b)
      /\ s.height_in_blocks = Blocks(nh, v, maxv, b)
      /\ s.downsampled_width = jdiv_round_up(nw * h * s.DCT_h_scaled_size, maxh * b)
      /\ s.downsampled_height = jdiv_round_up(nh * v * s.DCT_v_scaled_size, maxv * b)
  BY <1>2 DEF SizedFor, h, v, c, maxh, maxv
<1>9. PrepWidth(i) = (s.width_in_blocks * size * maxh) \div h
  BY DEF PrepWidth, s, size, maxh, h, c, comps
<1>10. /\ (s.width_in_blocks * size * maxh) \div h = s.width_in_blocks * (size * kh) * m.h
       /\ W <= s.width_in_blocks * (size * kh) * m.h
  <2> DEFINE mh == m.h
             n == jdiv_round_up(W * b, size)
             blocks == Blocks(n, h, maxh, b)
  <2>1. mh \in Nat \ {0} /\ maxh = mh * (h * kh)
    BY <1>7
  <2> HIDE DEF mh
  <2>2. /\ (blocks * size * maxh) \div h = blocks * (size * kh) * mh
        /\ W <= blocks * (size * kh) * mh
    BY <1>5, <1>7, <2>1, PixelsCovered
  <2>3. s.width_in_blocks = blocks
    BY <1>4, <1>8
  <2> HIDE DEF blocks
  <2> QED BY <2>2, <2>3 DEF mh
<1>11. v * s.DCT_v_scaled_size * m.v = maxv * size
  <2> DEFINE mv == m.v
  <2>1. mv \in Nat \ {0} /\ maxv = mv * (v * kv)
    BY <1>7
  <2> HIDE DEF mv
  <2>2. v * (size * kv) * mv = mv * (v * kv) * size
    BY <1>5, <1>7, <2>1
  <2> QED BY <1>6, <2>1, <2>2 DEF mv
<1>12. /\ s.downsampled_width <= s.width_in_blocks * s.DCT_h_scaled_size
       /\ s.downsampled_width > (s.width_in_blocks - 1) * s.DCT_h_scaled_size
       /\ s.downsampled_height <= s.height_in_blocks * s.DCT_v_scaled_size
       /\ s.downsampled_height > (s.height_in_blocks - 1) * s.DCT_v_scaled_size
  <2> DEFINE dh == s.DCT_h_scaled_size
             dv == s.DCT_v_scaled_size
  <2>1. dh \in Nat \ {0} /\ dv \in Nat \ {0}
    BY <1>6, <1>7, PositiveProduct
  <2> HIDE DEF dh, dv
  <2>2. /\ s.downsampled_width = jdiv_round_up(nw * h * dh, maxh * b)
        /\ s.downsampled_height = jdiv_round_up(nh * v * dv, maxv * b)
    BY <1>8 DEF dh, dv
  <2> DEFINE wide == Blocks(nw, h, maxh, b)
             high == Blocks(nh, v, maxv, b)
             across == jdiv_round_up(nw * h * dh, maxh * b)
             down == jdiv_round_up(nh * v * dv, maxv * b)
  <2>3. across <= wide * dh /\ across > (wide - 1) * dh
    BY <1>5, <1>7, <2>1, BlocksCover
  <2>4. down <= high * dv /\ down > (high - 1) * dv
    BY <1>5, <1>7, <2>1, BlocksCover
  <2>5. /\ s.width_in_blocks = wide /\ s.height_in_blocks = high
        /\ s.downsampled_width = across /\ s.downsampled_height = down
    BY <1>8, <2>2
  <2> HIDE DEF wide, high, across, down
  <2> QED BY <2>3, <2>4, <2>5 DEF dh, dv
<1> QED BY <1>6, <1>9, <1>10, <1>11, <1>12 DEF comps, m, s, b, size, W, maxv, c, v

\* The merged upsampler is chosen for factors of its own only.
LEMMA MergedRoutines ==
  ASSUME NEW comps \in ComponentSeqs, NEW i \in DOMAIN comps, NEW d,
         use_merged_upsample(comps, d), d.min_DCT_scaled_size \in 1 .. 16
  PROVE  RoutineFor(d.sized[i], comps, i, d.min_DCT_scaled_size).name
           = IF i = 1 THEN "fullsize" ELSE IF MaxV(comps) = 2 THEN "h2v2" ELSE "h2v1"
<1> DEFINE size == d.min_DCT_scaled_size
           s == d.sized[i]
           maxh == MaxH(comps)
           maxv == MaxV(comps)
           group == Group(comps[i], s, size)
<1>1. DOMAIN comps = 1 .. 3 /\ \A j \in 1 .. 3 : comps[j] \in Component
  <2>1. comps \in Seq(Component)
    BY DEF ComponentSeqs
  <2>2. DOMAIN comps = 1 .. Len(comps) /\ \A j \in 1 .. Len(comps) : comps[j] \in Component
    BY <2>1
  <2>3. Len(comps) = 3
    BY DEF use_merged_upsample
  <2> QED BY <2>2, <2>3
<1>2. /\ comps[1].h = 2 /\ comps[2].h = 1 /\ comps[3].h = 1
      /\ comps[1].v \in 1 .. 2 /\ comps[2].v = 1 /\ comps[3].v = 1
  <2>1. comps[1].v \in 1 .. 4 /\ comps[1].v <= 2
    BY <1>1 DEF use_merged_upsample, Component, MAX_SAMP_FACTOR
  <2>2. comps[1].v \in 1 .. 2
    BY <2>1
  <2> QED BY <2>2 DEF use_merged_upsample
<1>3. maxh = 2 /\ maxv = comps[1].v
  <2> DEFINE H == {comps[j].h : j \in DOMAIN comps}
             V == {comps[j].v : j \in DOMAIN comps}
  <2>1. H = {2, 1} /\ V = {comps[1].v, 1}
    <3>1. /\ H = {comps[1].h, comps[2].h, comps[3].h}
          /\ V = {comps[1].v, comps[2].v, comps[3].v}
      BY <1>1
    <3> QED BY <1>2, <3>1
  <2>2. ASSUME NEW n \in 1 .. 2
        PROVE  Max({n, 1}) = n
    <3>1. n \in {n, 1} /\ \A y \in {n, 1} : n >= y
      BY <2>2
    <3>2. Max({n, 1}) \in {n, 1} /\ \A y \in {n, 1} : Max({n, 1}) >= y
      BY <3>1 DEF Max
    <3> QED BY <2>2, <3>2
  <2>3. Max({2, 1}) = 2 /\ Max({comps[1].v, 1}) = comps[1].v
    BY <1>2, <2>2, 2 \in 1 .. 2
  <2> QED BY <2>1, <2>3 DEF MaxH, MaxV
<1>4. s.DCT_h_scaled_size = size /\ s.DCT_v_scaled_size = size
  BY <1>1 DEF use_merged_upsample
<1>5. group = [h |-> comps[i].h, v |-> comps[i].v]
  <2> DEFINE h == comps[i].h
             v == comps[i].v
  <2>1. h \in Int /\ v \in Int /\ size \in Nat \ {0}
    BY <1>1, <1>2
  <2>2. group = [h |-> (h * size) \div size, v |-> (v * size) \div size]
    BY <1>4 DEF Group
  <2> HIDE DEF h, v, size, group
  <2>3. (h * size) \div size = h /\ (v * size) \div size = v
    BY <2>1, ExactQuotient
  <2> QED BY <2>2, <2>3 DEF h, v
<1>6. RoutineFor(s, comps, i, size) = SamplingRoutine(group, maxh, maxv)
  BY DEF RoutineFor
<1> HIDE DEF group, maxh, maxv, s, size
<1> DEFINE gh == comps[i].h
           gv == comps[i].v
<1>7. group.h = gh /\ group.v = gv
  BY <1>5
<1>8. SamplingRoutine(group, maxh, maxv).name
        = IF i = 1 THEN "fullsize" ELSE IF maxv = 2 THEN "h2v2" ELSE "h2v1"
  <2>1. CASE i = 1
    <3>1. /\ maxh = gh /\ maxv = gv
          /\ ~(maxh = gh * 2 /\ maxv = gv) /\ ~(maxh = gh * 2 /\ maxv = gv * 2)
      BY <1>2, <1>3, <2>1
    <3>2. SamplingRoutine(group, maxh, maxv) = [name |-> "fullsize", h |-> 1, v |-> 1]
      <4> HIDE DEF gh, gv
      <4> QED BY <1>7, <3>1 DEF SamplingRoutine
    <3> QED BY <2>1, <3>2
  <2>2. CASE i # 1 /\ maxv = 2
    <3>1. /\ ~(maxh = gh /\ maxv = gv) /\ ~(maxh = gh * 2 /\ maxv = gv)
          /\ maxh = gh * 2 /\ maxv = gv * 2
      BY <1>1, <1>2, <1>3, <2>2
    <3>2. SamplingRoutine(group, maxh, maxv) = [name |-> "h2v2", h |-> 2, v |-> 2]
      <4> HIDE DEF gh, gv
      <4> QED BY <1>7, <3>1 DEF SamplingRoutine
    <3> QED BY <2>2, <3>2
  <2>3. CASE i # 1 /\ maxv # 2
    <3>1. /\ ~(maxh = gh /\ maxv = gv) /\ ~(maxh = gh * 2 /\ maxv = gv * 2)
          /\ maxh = gh * 2 /\ maxv = gv
      BY <1>1, <1>2, <1>3, <2>3
    <3>2. SamplingRoutine(group, maxh, maxv) = [name |-> "h2v1", h |-> 2, v |-> 1]
      <4> HIDE DEF gh, gv
      <4> QED BY <1>7, <3>1 DEF SamplingRoutine
    <3> QED BY <2>3, <3>2
  <2> QED BY <2>1, <2>2, <2>3
<1> QED BY <1>6, <1>8 DEF s, size, maxv

LEMMA DecoderHasRoom == SizesInv => DecoderFits
<1> SUFFICES ASSUME SizesInv, stage = "decoder", NEW i \in DOMAIN params.comp_info
             PROVE  LET comps == params.comp_info
                        s == dec.sized[i]
                        m == dec.methods[i]
                        consumed == jdiv_round_up(dec.output_width, m.h)
                    IN /\ consumed <= s.downsampled_width
                       /\ s.downsampled_width <= s.width_in_blocks * s.DCT_h_scaled_size
                       /\ m.name = "fullsize"
                            \/ consumed * m.h <= jround_up(dec.output_width, MaxH(comps))
                       /\ jdiv_round_up(dec.output_height, m.v) <= s.downsampled_height
                       /\ dec.merged => m.name = IF i = 1 THEN "fullsize"
                                                 ELSE IF MaxV(comps) = 2 THEN "h2v2" ELSE "h2v1"
                       /\ s.width_in_blocks = enc.sized[i].width_in_blocks
                       /\ s.height_in_blocks = enc.sized[i].height_in_blocks
  BY DEF DecoderFits
<1> DEFINE comps == params.comp_info
           c == comps[i]
           h == c.h
           v == c.v
           maxh == MaxH(comps)
           maxv == MaxV(comps)
           s == dec.sized[i]
           m == dec.methods[i]
           b == dec.block_size
           size == dec.min_DCT_scaled_size
           nw == dec.image_width
           nh == dec.image_height
<1>1. /\ comps \in ComponentSeqs /\ b \in 1 .. 16 /\ size \in 1 .. 16
      /\ nw \in Positive /\ nh \in Positive
  BY Admitted DEF SizesInv, SizesTypeOK, DecoderRecord, Decoding, Dimensioned
<1>2. SizedFor(s, comps, i, nw, nh, b, size)
  BY DEF SizesInv, OutputSized, Dimensioned
<1>3. m = RoutineFor(s, comps, i, size) /\ (~dec.merged => m.name # "fractional")
  BY DEF SizesInv, UpsamplersChosen
<1>4. /\ dec.output_width = jdiv_round_up(nw * size, b)
      /\ dec.output_height = jdiv_round_up(nh * size, b)
  BY DEF SizesInv, OutputFollows, Decoding, Dimensioned
<1>5. /\ h \in Nat \ {0} /\ v \in Nat \ {0} /\ maxh \in Nat \ {0} /\ maxv \in Nat \ {0}
  BY <1>1, ComponentNumbers
<1>6. /\ s.width_in_blocks = enc.sized[i].width_in_blocks
      /\ s.height_in_blocks = enc.sized[i].height_in_blocks
  <2>1. SizedFor(enc.sized[i], comps, i, enc.jpeg_width, enc.jpeg_height,
                 enc.block_size, enc.min_DCT_scaled_size)
    BY DEF SizesInv, FileSized, Dimensioned
  <2>2. nw = enc.jpeg_width /\ nh = enc.jpeg_height /\ b = enc.block_size
    BY DEF SizesInv, DecoderFollowsFile, Dimensioned
  <2> HIDE DEF comps, s, b, size, nw, nh
  <2> QED BY <1>2, <2>1, <2>2 DEF SizedFor
<1>7. dec.merged => m.name = IF i = 1 THEN "fullsize"
                             ELSE IF maxv = 2 THEN "h2v2" ELSE "h2v1"
  <2> SUFFICES ASSUME dec.merged
               PROVE  m.name = IF i = 1 THEN "fullsize" ELSE IF maxv = 2 THEN "h2v2" ELSE "h2v1"
    OBVIOUS
  <2>1. use_merged_upsample(comps, dec)
    BY DEF SizesInv, OutputSized, Dimensioned
  <2> QED BY <1>1, <1>3, <2>1, MergedRoutines
<1> HIDE DEF comps, m, s, b, size, nw, nh, maxh, maxv
<1>8. m.name # "fractional"
  BY <1>3, <1>7
<1>9. PICK kh \in Doublings, kv \in Doublings :
        /\ s.DCT_h_scaled_size = size * kh /\ s.DCT_v_scaled_size = size * kv
        /\ Fitting(m, c, kh, kv, maxh, maxv)
  BY <1>1, <1>2, <1>3, RoutineChosen DEF comps, maxh, maxv
<1> HIDE DEF h, v, c
<1> DEFINE mh == m.h
           mv == m.v
<1>10. /\ mh \in Nat \ {0} /\ mv \in Nat \ {0} /\ kh \in Nat \ {0} /\ kv \in Nat \ {0}
       /\ maxh = mh * (h * kh) /\ maxv = mv * (v * kv)
       /\ b \in Nat \ {0} /\ size \in Nat \ {0} /\ nw \in Nat \ {0} /\ nh \in Nat \ {0}
  <2>1. m.h \in 1 .. 4 /\ m.v \in 1 .. 4 /\ maxh = m.h * (h * kh) /\ maxv = m.v * (v * kv)
    BY <1>8, <1>9 DEF Fitting, h, v
  <2>2. m.h \in Nat \ {0} /\ m.v \in Nat \ {0} /\ kh \in Nat \ {0} /\ kv \in Nat \ {0}
    BY <2>1 DEF Doublings
  <2> QED BY <1>1, <2>1, <2>2 DEF Positive
<1> DEFINE dh == size * kh
           dv == size * kv
           wide == Blocks(nw, h, maxh, b)
           across == jdiv_round_up(nw * h * dh, maxh * b)
           down == jdiv_round_up(nh * v * dv, maxv * b)
           width == jdiv_round_up(nw * size, b)
           height == jdiv_round_up(nh * size, b)
<1> HIDE DEF mh, mv
<1>11. /\ s.width_in_blocks = wide
       /\ s.downsampled_width = across /\ s.downsampled_height = down
       /\ s.DCT_h_scaled_size = dh
  BY <1>2, <1>9 DEF SizedFor, h, v, c, maxh, maxv
<1>12. across <= wide * dh
  <2>1. dh \in Nat \ {0}
    BY <1>10, PositiveProduct
  <2> HIDE DEF dh
  <2> QED BY <1>5, <1>10, <2>1, BlocksCover
<1>13. /\ jdiv_round_up(width, mh) <= across
       /\ jdiv_round_up(width, mh) * mh <= jround_up(width, maxh)
  BY <1>5, <1>10, SamplesSuffice
<1>14. jdiv_round_up(height, mv) <= down
  BY <1>5, <1>10, SamplesSuffice
<1> HIDE DEF wide, across, down, width, height, dh
<1>15. dec.output_width = width /\ dec.output_height = height
  BY <1>4 DEF width, height
<1> QED BY <1>6, <1>7, <1>11, <1>12, <1>13, <1>14, <1>15 DEF comps, m, s, maxh, maxv, mh, mv

LEMMA TranscoderHasRoom == SizesInv => TranscodeFits
<1> SUFFICES ASSUME SizesInv, stage = "transcoded"
             PROVE  LET comps == params.comp_info
                    IN /\ jdiv_round_up(enc.jpeg_width, MaxH(comps) * enc.block_size)
                            = jdiv_round_up(dec.image_width, MaxH(comps) * dec.block_size)
                       /\ \A i \in DOMAIN comps :
                            /\ enc.sized[i].width_in_blocks
                                 <= jround_up(dec.sized[i].width_in_blocks, comps[i].h)
                            /\ enc.sized[i].height_in_blocks
                                 <= jround_up(dec.sized[i].height_in_blocks, comps[i].v)
  BY DEF TranscodeFits
<1> DEFINE comps == params.comp_info
           b == dec.block_size
           size == dec.min_DCT_scaled_size
           nw == dec.image_width
           nh == dec.image_height
           maxh == MaxH(comps)
           maxv == MaxV(comps)
           width == jdiv_round_up(nw * size, b)
           height == jdiv_round_up(nh * size, b)
<1>1. /\ comps \in ComponentSeqs /\ b \in 1 .. 16 /\ size \in 1 .. 16
      /\ nw \in Positive /\ nh \in Positive
  BY Admitted DEF SizesInv, SizesTypeOK, DecoderRecord, Decoding
<1>2. /\ enc.jpeg_width = width /\ enc.jpeg_height = height /\ enc.block_size = size
  BY DEF SizesInv, FileFollowsOutput, OutputFollows, Decoding
<1>3. \A i \in DOMAIN comps :
        /\ enc.sized[i].width_in_blocks = Blocks(width, comps[i].h, maxh, size)
        /\ enc.sized[i].height_in_blocks = Blocks(height, comps[i].v, maxv, size)
  BY <1>2 DEF SizesInv, FileSized, SizedFor
<1>4. \A i \in DOMAIN comps :
        /\ dec.sized[i].width_in_blocks = Blocks(nw, comps[i].h, maxh, b)
        /\ dec.sized[i].height_in_blocks = Blocks(nh, comps[i].v, maxv, b)
  BY DEF SizesInv, SourceBlocks, Decoding
<1> HIDE DEF comps, b, size, nw, nh, maxh, maxv
<1>5. b \in Nat \ {0} /\ size \in Nat \ {0} /\ nw \in Nat \ {0} /\ nh \in Nat \ {0}
  BY <1>1 DEF Positive
<1>6. ASSUME NEW i \in DOMAIN comps
      PROVE  /\ jdiv_round_up(width, maxh * size) = jdiv_round_up(nw, maxh * b)
             /\ Blocks(width, comps[i].h, maxh, size)
                  <= jround_up(Blocks(nw, comps[i].h, maxh, b), comps[i].h)
             /\ Blocks(height, comps[i].v, maxv, size)
                  <= jround_up(Blocks(nh, comps[i].v, maxv, b), comps[i].v)
  <2> DEFINE h == comps[i].h
             v == comps[i].v
  <2>1. h \in Nat \ {0} /\ v \in Nat \ {0} /\ maxh \in Nat \ {0} /\ maxv \in Nat \ {0}
    BY <1>1, <1>6, ComponentNumbers DEF maxh, maxv
  <2> HIDE DEF h, v
  <2>2. /\ jdiv_round_up(width, maxh * size) = jdiv_round_up(nw, maxh * b)
        /\ jround_up(Blocks(nw, h, maxh, b), h) = jdiv_round_up(nw, maxh * b) * h
        /\ Blocks(width, h, maxh, size) <= jdiv_round_up(nw, maxh * b) * h
    BY <1>5, <2>1, SameMCUs
  <2>3. /\ jround_up(Blocks(nh, v, maxv, b), v) = jdiv_round_up(nh, maxv * b) * v
        /\ Blocks(height, v, maxv, size) <= jdiv_round_up(nh, maxv * b) * v
    BY <1>5, <2>1, SameMCUs
  <2> QED BY <2>2, <2>3 DEF h, v
<1>7. 1 \in DOMAIN comps
  BY <1>1 DEF ComponentSeqs
<1> HIDE DEF width, height
<1> QED BY <1>2, <1>3, <1>4, <1>6, <1>7 DEF comps, b, nw, maxh, maxv

-------------------------------------------------------------------------------
(* Where a block comes from *)

\* A number in one direction, as whole strips and what is left of one.
LEMMA StripOf ==
  ASSUME NEW p \in Nat, NEW n \in Nat \ {0}
  PROVE  /\ p \div n \in Nat /\ p % n \in 0 .. n - 1
         /\ p - (p % n) = (p \div n) * n
         /\ \A l \in Int : p < l * n => (p \div n) * n + n <= l * n
<1> DEFINE q == p \div n
<1>1. /\ q \in Nat /\ q * n <= p /\ p < q * n + n /\ p % n = p - q * n
      /\ \A l \in Int : p < l * n => q < l
  BY DivIs, RemainderIs, DivBelow
<1> HIDE DEF q
<1>2. q * n \in Int
  BY <1>1
<1>3. ASSUME NEW l \in Int, p < l * n
      PROVE  q * n + n <= l * n
  <2>1. q + 1 <= l /\ q + 1 \in Int
    BY <1>1, <1>3
  <2>2. (q + 1) * n <= l * n
    BY <2>1, ProductOrder
  <2>3. (q + 1) * n = q * n + n
    BY <1>1
  <2> QED BY <2>2, <2>3
<1>4. p % n \in 0 .. n - 1 /\ p - (p % n) = q * n
  BY <1>1, <1>2
<1>5. \A l \in Int : p < l * n => q * n + n <= l * n
  BY <1>3
<1>6. /\ q \in Nat /\ p % n \in 0 .. n - 1
      /\ p - (p % n) = q * n
      /\ \A l \in Int : p < l * n => q * n + n <= l * n
  BY <1>1, <1>4, <1>5
<1> QED BY <1>6, Zenon DEF q

\* What a strip of n rows at place is read from, of which the first limit rows are
\* mirrored, after a crop: it is whole, and in the array, and so is the row.
InStrips(place, n, crop, limit, end) ==
  LET plain == PlainStrip(crop, place, n)
      mirrored == MirroredStrip(limit, crop, place, n)
  IN /\ crop + (place - (place % n)) < limit <=> place + crop < limit
     /\ place + crop \in 0 .. end - 1
     /\ plain.first \in Nat /\ plain.rows \in Nat /\ plain.first + plain.rows <= end
     /\ plain.row = place + crop
     /\ place + crop < limit =>
          /\ mirrored.first \in Nat /\ mirrored.rows \in Nat /\ mirrored.first + mirrored.rows <= end
          /\ limit - crop - place - 1 \in 0 .. end - 1
     /\ mirrored.row = limit - crop - place - 1

\* k whole strips are cropped, and m can be mirrored.
LEMMA StripInside ==
  ASSUME NEW p \in Nat, NEW n \in Nat \ {0}, NEW k \in Nat, NEW m \in Nat,
         NEW l \in Nat, NEW e \in Nat, p < l * n, k + l <= e, m <= e
  PROVE  InStrips(p, n, k * n, m * n, e * n)
<1> DEFINE q == p \div n
           r == p % n
           kn == k * n
           mn == m * n
           plain == PlainStrip(kn, p, n)
           mirrored == MirroredStrip(mn, kn, p, n)
           ln == l * n
           en == e * n
           qn == q * n
<1>1. /\ q \in Nat /\ r \in 0 .. n - 1 /\ p - r = qn /\ qn + n <= ln
  <2>1. l \in Int /\ p < l * n
    OBVIOUS
  <2> QED BY <2>1, StripOf
<1> HIDE DEF q
<1>2. kn \in Nat /\ mn \in Nat /\ ln \in Nat /\ en \in Nat /\ qn \in Nat
  <2>1. \A a \in Nat : a * n \in Nat
    OBVIOUS
  <2> QED BY <1>1, <2>1
<1>3. kn + ln <= en /\ mn <= en
  <2>1. (k + l) * n <= e * n /\ m * n <= e * n
    BY ProductOrder
  <2>2. (k + l) * n = k * n + l * n
    OBVIOUS
  <2> QED BY <2>1, <2>2
<1>4. kn + qn < mn => kn + qn + n <= mn
  <2> SUFFICES ASSUME kn + qn < mn  PROVE kn + qn + n <= mn
    OBVIOUS
  <2>1. (k + q) * n = kn + qn /\ (k + q + 1) * n = kn + qn + n
    BY <1>1
  <2>2. k + q < m
    BY <1>1, <2>1, ProductOrder
  <2>3. k + q + 1 <= m /\ k + q + 1 \in Int
    BY <1>1, <2>2
  <2>4. (k + q + 1) * n <= m * n
    BY <2>3, ProductOrder
  <2> QED BY <2>1, <2>4
<1>5. /\ plain.first = p - r + kn /\ plain.rows = n /\ plain.row = p + kn
  BY DEF PlainStrip
<1>6. /\ mirrored.first = mn - kn - (p - r) - n /\ mirrored.rows = n
      /\ mirrored.row = mirrored.first + n - r - 1
  BY DEF MirroredStrip
<1> HIDE DEF plain, mirrored, r, qn, kn, mn, ln, en
<1>7. p < ln
  BY DEF ln
<1>8. /\ kn + (p - r) < mn <=> p + kn < mn
      /\ p + kn \in 0 .. en - 1
      /\ plain.first \in Nat /\ plain.rows \in Nat /\ plain.first + plain.rows <= en
      /\ plain.row = p + kn
      /\ p + kn < mn => /\ mirrored.first \in Nat /\ mirrored.rows \in Nat /\ mirrored.first + mirrored.rows <= en
                        /\ mn - kn - p - 1 \in 0 .. en - 1
      /\ mirrored.row = mn - kn - p - 1
  BY <1>1, <1>2, <1>3, <1>4, <1>5, <1>6, <1>7
<1>9. InStrips(p, n, kn, mn, en)
  BY <1>8 DEF InStrips, plain, mirrored, r
<1> QED BY <1>9 DEF kn, mn, en

\* A flip in a direction of which the first limit blocks can be mirrored.
Flip(place, limit) == IF place < limit THEN limit - 1 - place ELSE place

\* The source of the block at (x, y) when width by height blocks can be mirrored.
Taken(transform, x, y, width, height) ==
  [column |-> IF transform \in {"none", "flip_v"} THEN x
              ELSE IF transform \in {"flip_h", "rot_180"} THEN Flip(x, width)
              ELSE IF transform \in {"transpose", "rot_90"} THEN y ELSE Flip(y, height),
   row |-> IF transform \in {"none", "flip_h"} THEN y
           ELSE IF transform \in {"flip_v", "rot_180"} THEN Flip(y, height)
           ELSE IF transform \in {"transpose", "rot_270"} THEN x ELSE Flip(x, width),
   turned |-> (IF \/ transform \in {"flip_h", "rot_180"} /\ x < width
                  \/ transform \in {"rot_270", "transverse"} /\ y < height
               THEN {"h"} ELSE {})
              \cup (IF \/ transform \in {"flip_v", "rot_180"} /\ y < height
                       \/ transform \in {"rot_90", "transverse"} /\ x < width
                    THEN {"v"} ELSE {})
              \cup (IF transform \in Transposing THEN {"t"} ELSE {})]

\* The block a routine makes is read from where the flips say, inside of an array of
\* across by down blocks.
Reads(b, t, from, across, down) ==
  /\ b.column = from.column /\ b.strip.row = from.row /\ b.turned = from.turned
  /\ b.strip.first \in Nat /\ b.strip.rows \in Nat
  /\ IF t \in Transposing
     THEN b.strip.first + b.strip.rows <= across /\ b.column \in 0 .. down - 1
     ELSE b.strip.first + b.strip.rows <= down /\ b.column \in 0 .. across - 1

\* Which routine does which transformation.
LEMMA MovedIs ==
  ASSUME NEW t, NEW g, NEW c, NEW x, NEW y
  PROVE  /\ t = "none" => Moved(t, g, c, x, y) = do_crop(g, c, x, y)
         /\ t = "flip_h" => Moved(t, g, c, x, y)
                              = IF g.y # 0 THEN do_flip_h(g, c, x, y)
                                ELSE do_flip_h_no_crop(g, c, x, y)
         /\ t = "flip_v" => Moved(t, g, c, x, y) = do_flip_v(g, c, x, y)
         /\ t = "transpose" => Moved(t, g, c, x, y) = do_transpose(g, c, x, y)
         /\ t = "transverse" => Moved(t, g, c, x, y) = do_transverse(g, c, x, y)
         /\ t = "rot_90" => Moved(t, g, c, x, y) = do_rot_90(g, c, x, y)
         /\ t = "rot_180" => Moved(t, g, c, x, y) = do_rot_180(g, c, x, y)
         /\ t = "rot_270" => Moved(t, g, c, x, y) = do_rot_270(g, c, x, y)
BY DEF Moved

\* Every routine reads where its flips say, if the strips it uses are whole.
LEMMA RoutineReads ==
  ASSUME NEW t \in Transforms, NEW g, NEW c, NEW x \in Nat, NEW y \in Nat,
         NEW across \in Nat, NEW down \in Nat,
         c.h \in Nat \ {0}, c.v \in Nat \ {0},
         x_crop_blocks(g, c) \in Nat, comp_width(g, c) \in Nat,
         y_crop_blocks(g, c) \in Nat, comp_height(g, c) \in Nat,
         g.y = 0 => y_crop_blocks(g, c) = 0,
         InStrips(x, c.h, x_crop_blocks(g, c), comp_width(g, c), across),
         InStrips(y, c.v, y_crop_blocks(g, c), comp_height(g, c), down)
  PROVE  Reads(Moved(t, g, c, x, y), t,
               Taken(t, x + x_crop_blocks(g, c), y + y_crop_blocks(g, c),
                     comp_width(g, c), comp_height(g, c)), across, down)
<1> DEFINE X == x_crop_blocks(g, c)
           Y == y_crop_blocks(g, c)
           W == comp_width(g, c)
           H == comp_height(g, c)
           px == PlainStrip(X, x, c.h)
           py == PlainStrip(Y, y, c.v)
           mx == MirroredStrip(W, X, x, c.h)
           my == MirroredStrip(H, Y, y, c.v)
           from == Taken(t, x + X, y + Y, W, H)
           b == Moved(t, g, c, x, y)
           odd_columns == IF \/ t \in {"flip_h", "rot_180"} /\ x + X < W
                             \/ t \in {"rot_270", "transverse"} /\ y + Y < H
                          THEN {"h"} ELSE {}
           odd_rows == IF \/ t \in {"flip_v", "rot_180"} /\ y + Y < H
                          \/ t \in {"rot_90", "transverse"} /\ x + X < W
                       THEN {"v"} ELSE {}
<1>1. /\ MirrorableColumn(g, c, x - (x % c.h)) <=> x + X < W
      /\ MirrorableColumn(g, c, x) <=> x + X < W
      /\ MirrorableRow(g, c, y - (y % c.v)) <=> y + Y < H
      /\ MirroredColumn(g, c, x) = W - X - x - 1
      /\ MirroredRow(g, c, y) = H - Y - y - 1
  BY DEF MirrorableColumn, MirrorableRow, MirroredColumn, MirroredRow, InStrips
<1>2. /\ x + X \in 0 .. across - 1
      /\ px.first \in Nat /\ px.rows \in Nat /\ px.first + px.rows <= across /\ px.row = x + X
      /\ x + X < W => /\ mx.first \in Nat /\ mx.rows \in Nat /\ mx.first + mx.rows <= across
                      /\ W - X - x - 1 \in 0 .. across - 1
      /\ mx.row = W - X - x - 1
  BY DEF InStrips
<1>3. /\ y + Y \in 0 .. down - 1
      /\ py.first \in Nat /\ py.rows \in Nat /\ py.first + py.rows <= down /\ py.row = y + Y
      /\ y + Y < H => /\ my.first \in Nat /\ my.rows \in Nat /\ my.first + my.rows <= down
                      /\ H - Y - y - 1 \in 0 .. down - 1
      /\ my.row = H - Y - y - 1
  BY DEF InStrips
<1>4. /\ Flip(x + X, W) = IF x + X < W THEN W - X - x - 1 ELSE x + X
      /\ Flip(y + Y, H) = IF y + Y < H THEN H - Y - y - 1 ELSE y + Y
  BY DEF Flip
<1>5. do_crop(g, c, x, y) = Block(py, x + X, {})
  BY DEF do_crop
<1>6. do_flip_h(g, c, x, y) = IF x + X < W THEN Block(py, W - X - x - 1, {"h"})
                              ELSE Block(py, x + X, {})
  BY <1>1, <1>5 DEF do_flip_h
<1>7. do_flip_v(g, c, x, y) = IF y + Y < H THEN Block(my, x + X, {"v"})
                              ELSE Block(py, x + X, {})
  BY <1>1, <1>5 DEF do_flip_v
<1>8. do_transpose(g, c, x, y) = Block(px, y + Y, {"t"})
  BY DEF do_transpose
<1>9. do_rot_90(g, c, x, y) = IF x + X < W THEN Block(mx, y + Y, {"v", "t"})
                              ELSE Block(px, y + Y, {"t"})
  BY <1>1, <1>8 DEF do_rot_90
<1>10. do_rot_270(g, c, x, y) = IF y + Y < H THEN Block(px, H - Y - y - 1, {"h", "t"})
                                ELSE Block(px, y + Y, {"t"})
  BY <1>1, <1>8 DEF do_rot_270
<1>11. do_rot_180(g, c, x, y) = IF ~(y + Y < H) THEN do_flip_h(g, c, x, y)
                                ELSE IF ~(x + X < W) THEN do_flip_v(g, c, x, y)
                                ELSE Block(my, W - X - x - 1, {"h", "v"})
  BY <1>1 DEF do_rot_180
<1>12. do_transverse(g, c, x, y) = IF ~(x + X < W) THEN do_rot_270(g, c, x, y)
                                   ELSE IF ~(y + Y < H) THEN do_rot_90(g, c, x, y)
                                   ELSE Block(mx, H - Y - y - 1, {"h", "v", "t"})
  BY <1>1 DEF do_transverse
<1>13. do_flip_h_no_crop(g, c, x, y)
         = IF x + X < W THEN Block(PlainStrip(0, y, c.v), W - (x + X) - 1, {"h"})
           ELSE Block(PlainStrip(0, y, c.v), x + X, {})
  BY DEF do_flip_h_no_crop
<1>14. g.y = 0 => do_flip_h_no_crop(g, c, x, y) = do_flip_h(g, c, x, y)
  <2>1. W - (x + X) - 1 = W - X - x - 1
    OBVIOUS
  <2> HIDE DEF X, W
  <2> QED BY <1>6, <1>13, <2>1 DEF py
<1> HIDE DEF px, py, mx, my, X, Y, W, H, from, b, odd_columns, odd_rows
<1>15. X \in Nat /\ Y \in Nat /\ W \in Nat /\ H \in Nat
  BY DEF X, Y, W, H
<1>16. /\ from.column = IF t \in {"none", "flip_v"} THEN x + X
                        ELSE IF t \in {"flip_h", "rot_180"} THEN Flip(x + X, W)
                        ELSE IF t \in {"transpose", "rot_90"} THEN y + Y ELSE Flip(y + Y, H)
       /\ from.row = IF t \in {"none", "flip_h"} THEN y + Y
                     ELSE IF t \in {"flip_v", "rot_180"} THEN Flip(y + Y, H)
                     ELSE IF t \in {"transpose", "rot_270"} THEN x + X ELSE Flip(x + X, W)
       /\ from.turned = odd_columns \cup odd_rows \cup (IF t \in Transposing THEN {"t"} ELSE {})
  BY DEF from, Taken, odd_columns, odd_rows
<1>17. \A S : S \cup {} \cup {} = S /\ {} \cup S \cup {} = S
  OBVIOUS
<1>18. SUFFICES Reads(b, t, from, across, down)
  BY DEF from, b, X, Y, W, H
<1>19. CASE t = "none"
  <2>1. b = Block(py, x + X, {}) /\ t \notin Transposing
    BY <1>19, <1>5, MovedIs DEF b, Transposing
  <2>2. /\ odd_columns = {}
        /\ odd_rows = {}
    BY <1>19 DEF odd_columns, odd_rows
  <2>3. from.column = x + X /\ from.row = y + Y /\ from.turned = {}
    BY <1>19, <1>16, <2>1, <2>2
  <2> QED BY <2>1, <2>3, <1>2, <1>3, <1>15 DEF Reads, Block
<1>20. CASE t = "flip_h"
  <2>1. b = do_flip_h(g, c, x, y) /\ t \notin Transposing
    BY <1>20, <1>14, MovedIs DEF b, Transposing
  <2>2. /\ odd_columns = (IF x + X < W THEN {"h"} ELSE {})
        /\ odd_rows = {}
    BY <1>20 DEF odd_columns, odd_rows
  <2>3. /\ from.column = Flip(x + X, W) /\ from.row = y + Y
        /\ from.turned = odd_columns \cup odd_rows \cup {}
    BY <1>20, <1>16, <2>1
  <2>4. from.turned = IF x + X < W THEN {"h"} ELSE {}
    BY <2>3, <2>2, <1>17
  <2> QED BY <2>1, <2>3, <2>4, <1>2, <1>3, <1>4, <1>6, <1>15 DEF Reads, Block
<1>21. CASE t = "flip_v"
  <2>1. b = do_flip_v(g, c, x, y) /\ t \notin Transposing
    BY <1>21, MovedIs DEF b, Transposing
  <2>2. /\ odd_columns = {}
        /\ odd_rows = (IF y + Y < H THEN {"v"} ELSE {})
    BY <1>21 DEF odd_columns, odd_rows
  <2>3. /\ from.column = x + X /\ from.row = Flip(y + Y, H)
        /\ from.turned = odd_columns \cup odd_rows \cup {}
    BY <1>21, <1>16, <2>1
  <2>4. from.turned = IF y + Y < H THEN {"v"} ELSE {}
    BY <2>3, <2>2, <1>17
  <2> QED BY <2>1, <2>3, <2>4, <1>2, <1>3, <1>4, <1>7, <1>15 DEF Reads, Block
<1>22. CASE t = "transpose"
  <2>1. b = do_transpose(g, c, x, y) /\ t \in Transposing
    BY <1>22, MovedIs DEF b, Transposing
  <2>2. /\ odd_columns = {}
        /\ odd_rows = {}
    BY <1>22 DEF odd_columns, odd_rows
  <2>3. from.column = y + Y /\ from.row = x + X /\ from.turned = {"t"}
    BY <1>22, <1>16, <2>1, <2>2
  <2> QED BY <2>1, <2>3, <1>2, <1>3, <1>8, <1>15 DEF Reads, Block
<1>23. CASE t = "rot_90"
  <2>1. b = do_rot_90(g, c, x, y) /\ t \in Transposing
    BY <1>23, MovedIs DEF b, Transposing
  <2>2. /\ odd_columns = {}
        /\ odd_rows = (IF x + X < W THEN {"v"} ELSE {})
    BY <1>23 DEF odd_columns, odd_rows
  <2>3. /\ from.column = y + Y /\ from.row = Flip(x + X, W)
        /\ from.turned = IF x + X < W THEN {"v", "t"} ELSE {"t"}
    BY <1>23, <1>16, <2>1, <2>2
  <2> QED BY <2>1, <2>3, <1>2, <1>3, <1>4, <1>9, <1>15 DEF Reads, Block
<1>24. CASE t = "rot_270"
  <2>1. b = do_rot_270(g, c, x, y) /\ t \in Transposing
    BY <1>24, MovedIs DEF b, Transposing
  <2>2. /\ odd_columns = (IF y + Y < H THEN {"h"} ELSE {})
        /\ odd_rows = {}
    BY <1>24 DEF odd_columns, odd_rows
  <2>3. /\ from.column = Flip(y + Y, H) /\ from.row = x + X
        /\ from.turned = IF y + Y < H THEN {"h", "t"} ELSE {"t"}
    BY <1>24, <1>16, <2>1, <2>2
  <2> QED BY <2>1, <2>3, <1>2, <1>3, <1>4, <1>10, <1>15 DEF Reads, Block
<1>25. CASE t = "rot_180"
  <2>1. b = do_rot_180(g, c, x, y) /\ t \notin Transposing
    BY <1>25, MovedIs DEF b, Transposing
  <2>2. /\ odd_columns = (IF x + X < W THEN {"h"} ELSE {})
        /\ odd_rows = (IF y + Y < H THEN {"v"} ELSE {})
    BY <1>25 DEF odd_columns, odd_rows
  <2>3. /\ from.column = Flip(x + X, W) /\ from.row = Flip(y + Y, H)
        /\ from.turned = odd_columns \cup odd_rows \cup {}
    BY <1>25, <1>16, <2>1
  <2>4. CASE x + X < W /\ y + Y < H
    <3>1. from.turned = {"h", "v"}
      BY <2>3, <2>4, <2>2
    <3> QED BY <2>1, <2>3, <2>4, <3>1, <1>2, <1>3, <1>4, <1>11, <1>15 DEF Reads, Block
  <2>5. CASE x + X < W /\ ~(y + Y < H)
    <3>1. from.turned = {"h"}
      BY <2>3, <2>5, <2>2, <1>17
    <3> QED BY <2>1, <2>3, <2>5, <3>1, <1>2, <1>3, <1>4, <1>11, <1>6, <1>15 DEF Reads, Block
  <2>6. CASE ~(x + X < W) /\ y + Y < H
    <3>1. from.turned = {"v"}
      BY <2>3, <2>6, <2>2, <1>17
    <3> QED BY <2>1, <2>3, <2>6, <3>1, <1>2, <1>3, <1>4, <1>11, <1>7, <1>15 DEF Reads, Block
  <2>7. CASE ~(x + X < W) /\ ~(y + Y < H)
    <3>1. from.turned = {}
      BY <2>3, <2>7, <2>2, <1>17
    <3> QED BY <2>1, <2>3, <2>7, <3>1, <1>2, <1>3, <1>4, <1>11, <1>6, <1>15 DEF Reads, Block
  <2> QED BY <2>4, <2>5, <2>6, <2>7
<1>26. CASE t = "transverse"
  <2>1. b = do_transverse(g, c, x, y) /\ t \in Transposing
    BY <1>26, MovedIs DEF b, Transposing
  <2>2. /\ odd_columns = (IF y + Y < H THEN {"h"} ELSE {})
        /\ odd_rows = (IF x + X < W THEN {"v"} ELSE {})
    BY <1>26 DEF odd_columns, odd_rows
  <2>3. /\ from.column = Flip(y + Y, H) /\ from.row = Flip(x + X, W)
        /\ from.turned = (IF y + Y < H THEN {"h"} ELSE {}) \cup (IF x + X < W THEN {"v"} ELSE {})
                          \cup {"t"}
    BY <1>26, <1>16, <2>1, <2>2
  <2>4. CASE x + X < W /\ y + Y < H
    <3>1. from.turned = {"h", "v", "t"}
      BY <2>3, <2>4
    <3> QED BY <2>1, <2>3, <2>4, <3>1, <1>2, <1>3, <1>4, <1>12, <1>15 DEF Reads, Block
  <2>5. CASE x + X < W /\ ~(y + Y < H)
    <3>1. from.turned = {"v", "t"}
      BY <2>3, <2>5
    <3> QED BY <2>1, <2>3, <2>5, <3>1, <1>2, <1>3, <1>4, <1>12, <1>9, <1>15 DEF Reads, Block
  <2>6. CASE ~(x + X < W) /\ y + Y < H
    <3>1. from.turned = {"h", "t"}
      BY <2>3, <2>6
    <3> QED BY <2>1, <2>3, <2>6, <3>1, <1>2, <1>3, <1>4, <1>12, <1>10, <1>15 DEF Reads, Block
  <2>7. CASE ~(x + X < W) /\ ~(y + Y < H)
    <3>1. from.turned = {"t"}
      BY <2>3, <2>7
    <3> QED BY <2>1, <2>3, <2>7, <3>1, <1>2, <1>3, <1>4, <1>12, <1>10, <1>15 DEF Reads, Block
  <2> QED BY <2>4, <2>5, <2>6, <2>7
<1> QED BY <1>19, <1>20, <1>21, <1>22, <1>23, <1>24, <1>25, <1>26 DEF Transforms

-------------------------------------------------------------------------------
(* The sizes of a transformed file *)

\* One direction of the destination: the region is in the image.
Directions == [full : Positive, unit : Positive, output : Positive, offset : Nat]
InImage(a) == a \in Directions /\ a.offset * a.unit + a.output <= a.full

\* It is in the whole iMCUs of the image.
InWholeMCUs(a) == a.offset + jdiv_round_up(a.output, a.unit) <= a.full \div a.unit

InfoRecord(i) ==
  [request : Requests, w : Directions, h : Directions, comp_info : {i.comp_info},
   workspace : {i.workspace}]

\* What was requested of jtransform_request_workspace is a region of the image, and one
\* of whole iMCUs where nothing may be left behind.
RegionRight ==
  stage \in Turning =>
    /\ info \in InfoRecord(info) /\ InImage(info.w) /\ InImage(info.h)
    /\ LET o == info.request
           full == Uncropped(o, dec, SourceMCU(o, dec.min_DCT_scaled_size))
       IN /\ info.w.full = full.w[1] /\ info.w.unit = full.w[2]
          /\ info.h.full = full.h[1] /\ info.h.unit = full.h[2]
          /\ info.workspace = need_workspace(o.transform, info.w, info.h)
          /\ (o.perfect \/ (o.trim /\ info.w.output >= info.w.unit)) /\ o.transform \in KeepRight
               => InWholeMCUs(info.w)
          /\ (o.perfect \/ (o.trim /\ info.h.output >= info.h.unit)) /\ o.transform \in KeepBottom
               => InWholeMCUs(info.h)

\* The destination has the sizes of the region.
DestinationSized ==
  stage \in {"adjusted", "transformed"} =>
    /\ info.comp_info = AdjustedComponents(info.request)
    /\ NumComponents(info.request) = 1 =>
         /\ params.comp_info[1].h = MaxH(params.comp_info)
         /\ params.comp_info[1].v = MaxV(params.comp_info)
    /\ enc.min_DCT_scaled_size = dec.min_DCT_scaled_size
    /\ \A i \in DOMAIN info.comp_info :
         /\ enc.sized[i].width_in_blocks
              = Blocks(info.w.output, info.comp_info[i].h, MaxH(info.comp_info),
                       dec.min_DCT_scaled_size)
         /\ enc.sized[i].height_in_blocks
              = Blocks(info.h.output, info.comp_info[i].v, MaxV(info.comp_info),
                       dec.min_DCT_scaled_size)

\* Every block was made by the routine of the transformation.
ImageMoved ==
  stage = "transformed" =>
    image = [i \in DOMAIN info.comp_info |->
               [p \in Written(info.comp_info[i], enc.sized[i]) |->
                  Moved(info.request.transform, Geometry, info.comp_info[i], p[1], p[2])]]

TransformInv == RegionRight /\ DestinationSized /\ ImageMoved

\* iMCUs of the region and of the image.
LEMMA RegionMCUs ==
  ASSUME NEW a, InImage(a)
  PROVE  /\ a.full \div a.unit \in Nat
         /\ jdiv_round_up(a.full, a.unit) \in Positive /\ jdiv_round_up(a.output, a.unit) \in Positive
         /\ a.full \div a.unit <= jdiv_round_up(a.full, a.unit)
         /\ a.offset + jdiv_round_up(a.output, a.unit) <= jdiv_round_up(a.full, a.unit)
<1> DEFINE full == a.full
           unit == a.unit
           output == a.output
           offset == a.offset
           F == jdiv_round_up(full, unit)
           O == jdiv_round_up(output, unit)
           q == full \div unit
<1>1. /\ full \in Nat \ {0} /\ unit \in Nat \ {0} /\ output \in Nat \ {0} /\ offset \in Nat
      /\ offset * unit + output <= full
  BY DEF InImage, Directions, Positive
<1> HIDE DEF full, unit, output, offset
<1>2. /\ F \in Nat \ {0} /\ full <= F * unit
      /\ O \in Nat \ {0} /\ (O - 1) * unit < output
  BY <1>1, RoundUpIs
<1>3. q \in Nat /\ q * unit <= full
  BY <1>1, DivIs, DivBelow
<1> HIDE DEF F, O, q
<1>4. q <= F
  <2>1. q * unit <= F * unit
    BY <1>1, <1>2, <1>3
  <2> QED BY <1>1, <1>2, <1>3, <2>1, DropFactor
<1>5. offset + O <= F
  <2>1. (offset + O - 1) * unit = offset * unit + (O - 1) * unit
    BY <1>1, <1>2
  <2>2. (offset + O - 1) * unit < F * unit
    BY <1>1, <1>2, <2>1
  <2>3. offset + O - 1 \in Int /\ F \in Int
    BY <1>1, <1>2
  <2>4. offset + O - 1 < F
    BY <1>1, <2>2, <2>3, DropFactor
  <2> QED BY <1>1, <1>2, <2>4
<1> QED BY <1>2, <1>3, <1>4, <1>5 DEF full, unit, output, offset, F, O, q, Positive

\* A legal crop specification is a region of the image.
LEMMA CroppedInImage ==
  ASSUME NEW full \in Positive, NEW unit \in Positive, NEW s, s.offset \in Nat, LegalCrop(full, s)
  PROVE  InImage(Cropped(full, unit, s))
<1> DEFINE size == CropSize(full, s)
           start == CropFrom(full, s)
           rest == start % unit
           offset == start \div unit
           output == IF s.size_set = "force" THEN s.size ELSE size + rest
           a == Cropped(full, unit, s)
<1>1. size \in Nat \ {0} /\ size <= full /\ s.offset <= full - size
  <2>1. CropSize(full, s) \in 1 .. full /\ full \in Nat
    BY DEF LegalCrop, Positive
  <2> HIDE DEF size
  <2>2. \A n \in 1 .. full : n \in Nat \ {0} /\ n <= full
    BY <2>1
  <2> QED BY <2>1, <2>2 DEF LegalCrop, size
<1>2. start \in Nat /\ start + size <= full
  BY <1>1 DEF CropFrom, Positive
<1>3. s.size_set = "force" => s.size = size
  BY DEF CropSize
<1> HIDE DEF start, size
<1>4. offset \in Nat /\ rest \in Nat /\ offset * unit + rest = start /\ offset * unit \in Nat
  <2>1. unit \in Nat \ {0}
    BY DEF Positive
  <2>2. offset \in Nat /\ offset * unit <= start
    BY <1>2, <2>1, DivIs, DivBelow
  <2>4. rest = start - offset * unit
    <3>1. start \in Int
      BY <1>2
    <3> QED BY <2>1, <3>1, RemainderIs, Zenon
  <2>3. offset * unit \in Nat
    BY <2>1, <2>2
  <2> HIDE DEF offset, rest
  <2> QED BY <1>2, <2>1, <2>2, <2>3, <2>4
<1>5. a = [full |-> full, unit |-> unit, output |-> output, offset |-> offset]
  BY DEF Cropped, size, start
<1> HIDE DEF rest, offset
<1>6. output \in Nat \ {0} /\ offset * unit + output <= full
  BY <1>1, <1>2, <1>3, <1>4 DEF Positive
<1> HIDE DEF a, output
<1> QED BY <1>4, <1>5, <1>6 DEF InImage, Directions, Positive, a

\* Trimming leaves a region of the image, of whole iMCUs if it is wide enough.
LEMMA TrimmedInImage ==
  ASSUME NEW a, InImage(a)
  PROVE  /\ InImage(Trimmed(a)) /\ Trimmed(a).full = a.full /\ Trimmed(a).unit = a.unit
         /\ Trimmed(a).output >= a.unit => InWholeMCUs(Trimmed(a))
<1> DEFINE full == a.full
           unit == a.unit
           output == a.output
           offset == a.offset
           mcus == output \div unit
           q == full \div unit
<1>1. /\ full \in Nat \ {0} /\ unit \in Nat \ {0} /\ output \in Nat \ {0} /\ offset \in Nat
      /\ offset * unit + output <= full
  BY DEF InImage, Directions, Positive
<1>2. Trimmed(a) = IF mcus > 0 /\ offset + mcus = q THEN [a EXCEPT !.output = mcus * unit] ELSE a
  BY DEF Trimmed
<1> HIDE DEF full, unit, output, offset
<1>3. /\ mcus \in Nat /\ mcus * unit <= output /\ output < mcus * unit + unit
      /\ q \in Nat /\ mcus * unit \in Nat /\ offset * unit \in Nat
  <2>1. mcus \in Nat /\ mcus * unit <= output /\ output < mcus * unit + unit /\ q \in Nat
    BY <1>1, DivIs, DivBelow
  <2>2. \A n \in Nat : n * unit \in Nat
    BY <1>1
  <2> HIDE DEF mcus, q
  <2> QED BY <1>1, <2>1, <2>2
<1>4. offset + mcus <= q
  <2>1. (offset + mcus) * unit <= full
    <3>1. (offset + mcus) * unit = offset * unit + mcus * unit
      <4> HIDE DEF mcus
      <4> QED BY <1>1, <1>3
    <3> HIDE DEF mcus
    <3> QED BY <1>1, <1>3, <3>1
  <2>2. \A n \in Int : full < n * unit => q < n
    BY <1>1, DivBelow
  <2>3. full < q * unit + unit
    BY <1>1, DivIs
  <2> HIDE DEF mcus, q
  <2>4. (q + 1) * unit = q * unit + unit
    BY <1>1, <1>3
  <2>5. (offset + mcus) * unit < (q + 1) * unit
    <3>1. (offset + mcus) * unit \in Int /\ (q + 1) * unit \in Int
      BY <1>1, <1>3
    <3> QED BY <1>1, <2>1, <2>3, <2>4, <3>1
  <2>6. offset + mcus \in Int /\ q + 1 \in Int
    BY <1>1, <1>3
  <2>7. offset + mcus < q + 1
    BY <1>1, <2>5, <2>6, DropFactor
  <2> QED BY <1>1, <1>3, <2>7
<1> HIDE DEF mcus, q
<1>5. CASE mcus > 0 /\ offset + mcus = q
  <2> DEFINE b == [a EXCEPT !.output = mcus * unit]
  <2>1. mcus * unit \in Nat \ {0}
    BY <1>1, <1>3, <1>5, PositiveProduct
  <2>2. /\ b \in Directions /\ b.full = full /\ b.unit = unit /\ b.offset = offset
        /\ b.output = mcus * unit
    BY <2>1 DEF InImage, Directions, Positive, full, unit, offset
  <2>3. jdiv_round_up(mcus * unit, unit) = mcus
    <3> DEFINE r == jdiv_round_up(mcus * unit, unit)
    <3>1. r \in Nat \ {0} /\ (r - 1) * unit < mcus * unit /\ mcus * unit <= r * unit
      BY <1>1, <2>1, RoundUpIs
    <3> HIDE DEF r
    <3>2. r - 1 \in Int /\ mcus \in Int /\ r \in Int
      BY <1>3, <3>1
    <3>3. r - 1 < mcus /\ mcus <= r
      BY <1>1, <3>1, <3>2, DropFactor
    <3> QED BY <1>3, <3>1, <3>3 DEF r
  <2> HIDE DEF b
  <2>4. InImage(b)
    BY <1>1, <1>3, <2>1, <2>2 DEF InImage
  <2>5. InWholeMCUs(b)
    BY <1>5, <2>2, <2>3, <1>3, <1>1 DEF InWholeMCUs, q
  <2>6. Trimmed(a) = b
    BY <1>2, <1>5 DEF b
  <2> QED BY <2>2, <2>4, <2>5, <2>6 DEF full, unit
<1>6. CASE ~(mcus > 0 /\ offset + mcus = q)
  <2>1. Trimmed(a) = a
    BY <1>2, <1>6
  <2>2. ASSUME output >= unit
        PROVE  InWholeMCUs(a)
    <3>1. mcus > 0
      <4>1. mcus # 0
        BY <1>1, <1>3, <2>2
      <4> QED BY <1>3, <4>1
    <3>2. offset + mcus + 1 <= q
      BY <1>1, <1>3, <1>4, <1>6, <3>1
    <3>3. jdiv_round_up(output, unit) <= mcus + 1
      <4>1. (mcus + 1) * unit = mcus * unit + unit
        BY <1>1, <1>3
      <4>2. output <= (mcus + 1) * unit /\ mcus + 1 \in Int
        BY <1>1, <1>3, <4>1
      <4> QED BY <1>1, <4>2, RoundUpLeast
    <3>4. jdiv_round_up(output, unit) \in Nat
      BY <1>1, RoundUpIs
    <3>5. offset + jdiv_round_up(output, unit) <= q
      BY <1>1, <1>3, <3>2, <3>3, <3>4
    <3> QED BY <3>5 DEF InWholeMCUs, q, full, unit, output, offset
  <2> QED BY <2>1, <2>2 DEF unit, output
<1> QED BY <1>5, <1>6

\* When iMCUs divide the image, every region of it is in whole ones.
LEMMA WholeImage ==
  ASSUME NEW a, InImage(a), a.full % a.unit = 0
  PROVE  InWholeMCUs(a)
<1> DEFINE full == a.full
           unit == a.unit
           q == full \div unit
           F == jdiv_round_up(full, unit)
<1>1. full \in Nat \ {0} /\ unit \in Nat \ {0} /\ full % unit = 0
  BY DEF InImage, Directions, Positive
<1>2. a.offset + jdiv_round_up(a.output, unit) <= F /\ a.offset \in Nat
      /\ jdiv_round_up(a.output, unit) \in Nat
  BY RegionMCUs DEF InImage, Directions, Positive
<1> HIDE DEF full, unit
<1>3. q \in Nat /\ full % unit = full - q * unit /\ q * unit \in Int
  BY <1>1, DivIs, DivBelow, RemainderIs
<1>4. full <= q * unit
  <2> HIDE DEF q
  <2> QED BY <1>1, <1>3
<1> HIDE DEF q
<1>5. F <= q /\ F \in Nat
  <2>1. F <= q
    BY <1>1, <1>3, <1>4, RoundUpLeast
  <2>2. F \in Nat \ {0}
    BY <1>1, RoundUpIs
  <2> QED BY <2>1, <2>2
<1> HIDE DEF F
<1>6. a.offset + jdiv_round_up(a.output, unit) <= q
  BY <1>2, <1>3, <1>5
<1> QED BY <1>6 DEF InWholeMCUs, q, full, unit

-------------------------------------------------------------------------------
(* The steps of a transformation *)

\* The directions of an image of at least one pixel are not empty.
LEMMA DirectionsOf ==
  ASSUME params.comp_info \in ComponentSeqs, NEW o, NEW size \in 1 .. 16, NEW d,
         d.output_width \in Positive, d.output_height \in Positive
  PROVE  LET full == Uncropped(o, d, SourceMCU(o, size))
         IN /\ full.w[1] \in Positive /\ full.w[2] \in Positive
            /\ full.h[1] \in Positive /\ full.h[2] \in Positive
<1> DEFINE maxh == MaxH(params.comp_info)
           maxv == MaxV(params.comp_info)
           mcu == SourceMCU(o, size)
<1>1. maxh \in 1 .. 4 /\ maxv \in 1 .. 4
  BY GreatestFactors
<1>2. mcu = IF NumComponents(o) = 1 THEN [h |-> size, v |-> size]
            ELSE [h |-> maxh * size, v |-> maxv * size]
  BY DEF SourceMCU
<1> HIDE DEF maxh, maxv, mcu
<1>3. size \in Positive /\ maxh * size \in Positive /\ maxv * size \in Positive
  <2>1. size \in Nat \ {0} /\ maxh \in Nat \ {0} /\ maxv \in Nat \ {0}
    BY <1>1
  <2> QED BY <2>1, PositiveProduct DEF Positive
<1>4. mcu.h \in Positive /\ mcu.v \in Positive
  BY <1>2, <1>3
<1> QED BY <1>4 DEF Uncropped, mcu

\* iMCUs that must be mirrored divide an image that can be transformed perfectly.
LEMMA PerfectIsWhole ==
  ASSUME NEW o, NEW d, NEW mcu,
         jtransform_perfect_transform(d.output_width, d.output_height, mcu.h, mcu.v, o.transform)
  PROVE  LET full == Uncropped(o, d, mcu)
         IN /\ o.transform \in KeepRight => full.w[1] % full.w[2] = 0
            /\ o.transform \in KeepBottom => full.h[1] % full.h[2] = 0
BY DEF jtransform_perfect_transform, Uncropped, KeepRight, KeepBottom, Transposing

\* One direction of what jtransform_request_workspace decides on.
RegionIn(a, full, unit, whole) ==
  /\ InImage(a) /\ a.full = full /\ a.unit = unit
  /\ whole => InWholeMCUs(a)

LEMMA RegionDecided ==
  ASSUME NEW full \in Positive, NEW unit \in Positive, NEW s, s.offset \in Nat, LegalCrop(full, s),
         NEW perfect \in BOOLEAN, NEW trim \in BOOLEAN, NEW kept \in BOOLEAN,
         perfect /\ kept => full % unit = 0,
         NEW a, a = TrimmedIf(trim /\ kept, Cropped(full, unit, s))
  PROVE  RegionIn(a, full, unit, (perfect \/ (trim /\ a.output >= unit)) /\ kept)
<1> DEFINE b == Cropped(full, unit, s)
<1>1. InImage(b) /\ b.full = full /\ b.unit = unit
  <2>1. b.full = full /\ b.unit = unit
    BY DEF Cropped
  <2> QED BY <2>1, CroppedInImage
<1> HIDE DEF b
<1>2. InImage(a) /\ a.full = full /\ a.unit = unit
      /\ (trim /\ kept /\ a.output >= unit => InWholeMCUs(a))
  <2>1. CASE trim /\ kept
    <3>1. a = Trimmed(b)
      BY <2>1 DEF TrimmedIf, b
    <3> QED BY <1>1, <2>1, <3>1, TrimmedInImage
  <2>2. CASE ~(trim /\ kept)
    <3>1. a = b
      BY <2>2 DEF TrimmedIf, b
    <3> QED BY <1>1, <2>2, <3>1
  <2> QED BY <2>1, <2>2
<1>3. perfect /\ kept => InWholeMCUs(a)
  BY <1>2, WholeImage
<1> QED BY <1>2, <1>3 DEF RegionIn

LEMMA RequestKeeps == SizesInv /\ SizesInv' /\ RequestWorkspace => TransformInv'
<1> SUFFICES ASSUME SizesInv, SizesInv', RequestWorkspace  PROVE TransformInv'
  OBVIOUS
<1>1. stage = "header" /\ params' = params
  BY DEF RequestWorkspace
<1> DEFINE mcu(o) == SourceMCU(o, dec'.min_DCT_scaled_size)
           full(o) == Uncropped(o, dec', mcu(o))
           w(o) == TrimmedIf(o.trim /\ o.transform \in KeepRight,
                             Cropped(full(o).w[1], full(o).w[2], o.crop_x))
           h(o) == TrimmedIf(o.trim /\ o.transform \in KeepBottom,
                             Cropped(full(o).h[1], full(o).h[2], o.crop_y))
           perfect(o) == jtransform_perfect_transform(dec'.output_width, dec'.output_height,
                                                      mcu(o).h, mcu(o).v, o.transform)
           made(o) == [request |-> o, w |-> w(o), h |-> h(o), comp_info |-> <<>>,
                       workspace |-> need_workspace(o.transform, w(o), h(o))]
<1>2. \/ stage' \in {"imperfect", "refused"}
      \/ stage' = "workspace"
         /\ \E o \in Requests : /\ o.perfect => perfect(o)
                                /\ LegalCrop(full(o).w[1], o.crop_x)
                                /\ LegalCrop(full(o).h[1], o.crop_y)
                                /\ info' = made(o)
  BY DEF RequestWorkspace, Refuse
<1>3. CASE stage' \in {"imperfect", "refused"}
  BY <1>3 DEF TransformInv, RegionRight, DestinationSized, ImageMoved, Turning
<1>4. CASE stage' = "workspace"
  <2>1. PICK o \in Requests : /\ o.perfect => perfect(o)
                              /\ LegalCrop(full(o).w[1], o.crop_x)
                              /\ LegalCrop(full(o).h[1], o.crop_y)
                              /\ info' = made(o)
    BY <1>2, <1>4
  <2>2. /\ o.transform \in Transforms /\ o.perfect \in BOOLEAN /\ o.trim \in BOOLEAN
        /\ o.crop_x.offset \in Nat /\ o.crop_y.offset \in Nat
    BY TransformAssumption
  <2>3. /\ params.comp_info \in ComponentSeqs /\ dec'.min_DCT_scaled_size \in 1 .. 16
        /\ dec'.output_width \in Positive /\ dec'.output_height \in Positive
    <3>1. params.comp_info \in ComponentSeqs
      BY Admitted DEF SizesInv
    <3>2. (dec \in DecoderRecord(dec))' /\ OutputFollows' /\ stage' \in Decoding \ {"header"}
      BY <1>4 DEF SizesInv, SizesTypeOK, Decoding, Turning
    <3>3. /\ dec'.min_DCT_scaled_size \in 1 .. 16 /\ dec'.block_size \in 1 .. 16
          /\ dec'.image_width \in Positive /\ dec'.image_height \in Positive
      BY <3>2 DEF DecoderRecord
    <3>4. /\ dec'.output_width = jdiv_round_up(dec'.image_width * dec'.min_DCT_scaled_size,
                                               dec'.block_size)
          /\ dec'.output_height = jdiv_round_up(dec'.image_height * dec'.min_DCT_scaled_size,
                                                dec'.block_size)
      BY <3>2 DEF OutputFollows
    <3> QED BY <3>1, <3>3, <3>4, ScalePositive
  <2> DEFINE fw == full(o).w[1]
             uw == full(o).w[2]
             fh == full(o).h[1]
             uh == full(o).h[2]
  <2>4. fw \in Positive /\ uw \in Positive /\ fh \in Positive /\ uh \in Positive
    BY <2>3, DirectionsOf
  <2>5. perfect(o) => /\ o.transform \in KeepRight => fw % uw = 0
                      /\ o.transform \in KeepBottom => fh % uh = 0
    BY PerfectIsWhole
  <2>6. /\ w(o) = TrimmedIf(o.trim /\ o.transform \in KeepRight, Cropped(fw, uw, o.crop_x))
        /\ h(o) = TrimmedIf(o.trim /\ o.transform \in KeepBottom, Cropped(fh, uh, o.crop_y))
    OBVIOUS
  <2>7. LegalCrop(fw, o.crop_x) /\ LegalCrop(fh, o.crop_y)
    BY <2>1
  <2> HIDE DEF fw, uw, fh, uh, w, h, perfect
  <2>8. /\ RegionIn(w(o), fw, uw, (o.perfect \/ (o.trim /\ w(o).output >= uw))
                                    /\ o.transform \in KeepRight)
        /\ RegionIn(h(o), fh, uh, (o.perfect \/ (o.trim /\ h(o).output >= uh))
                                    /\ o.transform \in KeepBottom)
    <3>1. o.perfect => /\ o.transform \in KeepRight => fw % uw = 0
                       /\ o.transform \in KeepBottom => fh % uh = 0
      BY <2>1, <2>5
    <3>2. (o.transform \in KeepRight) \in BOOLEAN /\ (o.transform \in KeepBottom) \in BOOLEAN
      OBVIOUS
    <3>3. RegionIn(w(o), fw, uw, (o.perfect \/ (o.trim /\ w(o).output >= uw))
                                   /\ o.transform \in KeepRight)
      BY <2>2, <2>4, <2>6, <2>7, <3>1, <3>2, RegionDecided
    <3>4. RegionIn(h(o), fh, uh, (o.perfect \/ (o.trim /\ h(o).output >= uh))
                                   /\ o.transform \in KeepBottom)
      BY <2>2, <2>4, <2>6, <2>7, <3>1, <3>2, RegionDecided
    <3> QED BY <3>3, <3>4
  <2>9. /\ info'.request = o /\ info'.w = w(o) /\ info'.h = h(o)
        /\ info'.workspace = need_workspace(o.transform, w(o), h(o))
    BY <2>1
  <2>10. info' \in InfoRecord(info')
    BY <2>1, <2>8 DEF InfoRecord, RegionIn, InImage
  <2>11. Uncropped(info.request, dec, SourceMCU(info.request, dec.min_DCT_scaled_size))' = full(o)
    <3>1. SourceMCU(info.request, dec.min_DCT_scaled_size)' = mcu(o)
      BY <1>1, <2>9 DEF SourceMCU, NumComponents
    <3> QED BY <2>9, <3>1
  <2>12. RegionRight'
    BY <2>8, <2>9, <2>10, <2>11 DEF RegionRight, RegionIn, fw, uw, fh, uh
  <2> QED BY <1>4, <2>12 DEF TransformInv, DestinationSized, ImageMoved
<1> QED BY <1>2, <1>3, <1>4

\* The only component is the largest.
LEMMA OnlyComponent ==
  ASSUME NEW comps \in ComponentSeqs, Len(comps) = 1
  PROVE  comps[1].h = MaxH(comps) /\ comps[1].v = MaxV(comps)
<1>1. DOMAIN comps = {1}
  <2>1. DOMAIN comps = 1 .. Len(comps)
    BY DEF ComponentSeqs
  <2> QED BY <2>1
<1>2. /\ comps[1].h \in 1 .. 4 /\ comps[1].v \in 1 .. 4
  <2>1. comps[1] \in Component
    BY <1>1, GreatestFactors
  <2> QED BY <2>1 DEF Component, MAX_SAMP_FACTOR
<1>3. /\ {comps[i].h : i \in DOMAIN comps} = {comps[1].h}
      /\ {comps[i].v : i \in DOMAIN comps} = {comps[1].v}
  BY <1>1
<1>4. ASSUME NEW n \in 1 .. 4
      PROVE  Max({n}) = n
  <2>1. n \in {n} /\ \A y \in {n} : n >= y
    BY <1>4
  <2>2. Max({n}) \in {n}
    BY <2>1 DEF Max
  <2> QED BY <2>2
<1> QED BY <1>2, <1>3, <1>4 DEF MaxH, MaxV

LEMMA AdjustKeeps == SizesInv /\ TransformInv /\ AdjustParameters => TransformInv'
<1> SUFFICES ASSUME SizesInv, TransformInv, AdjustParameters  PROVE TransformInv'
  OBVIOUS
<1> DEFINE o == info.request
           comps == params.comp_info
           size == dec.min_DCT_scaled_size
           adjusted == AdjustedComponents(o)
           sized == SizedComponents(adjusted, info.w.output, info.h.output, size, size, TRUE)
           illegal == o.force_grayscale /\ ~( /\ Len(comps) \in {1, 3}
                                              /\ comps[1].h = MaxH(comps)
                                              /\ comps[1].v = MaxV(comps))
<1>1. stage = "workspace" /\ params' = params /\ dec' = dec
  BY DEF AdjustParameters
<1>2. CASE illegal
  <2>1. stage' = "refused"
    BY <1>2 DEF AdjustParameters, Refuse
  <2> QED BY <2>1 DEF TransformInv, RegionRight, DestinationSized, ImageMoved, Turning
<1>3. CASE ~illegal
  <2>1. /\ stage' = "adjusted"
        /\ info' = [info EXCEPT !.comp_info = adjusted]
        /\ enc' = [enc EXCEPT !.jpeg_width = info.w.output, !.jpeg_height = info.h.output,
                              !.block_size = size, !.min_DCT_scaled_size = size,
                              !.sized = sized]
    BY <1>3 DEF AdjustParameters
  <2>2. /\ enc \in EncoderRecord(enc) /\ info \in InfoRecord(info)
        /\ comps \in ComponentSeqs
    BY <1>1, Admitted DEF SizesInv, SizesTypeOK, TransformInv, RegionRight, Turning
  <2>3. enc'.min_DCT_scaled_size = size /\ enc'.sized = sized
    BY <2>1, <2>2 DEF EncoderRecord
  <2>4. /\ info' \in InfoRecord(info') /\ info'.request = o /\ info'.w = info.w /\ info'.h = info.h
        /\ info'.workspace = info.workspace /\ info'.comp_info = adjusted
    <3> HIDE DEF adjusted
    <3> QED BY <2>1, <2>2 DEF InfoRecord
  <2>5. RegionRight'
    <3>1. Uncropped(info.request, dec, SourceMCU(info.request, dec.min_DCT_scaled_size))'
            = Uncropped(info.request, dec, SourceMCU(info.request, dec.min_DCT_scaled_size))
      BY <1>1, <2>4 DEF Uncropped, SourceMCU, NumComponents
    <3> QED BY <1>1, <2>1, <2>4, <3>1 DEF TransformInv, RegionRight, Turning
  <2>6. AdjustedComponents(info.request)' = adjusted /\ NumComponents(info.request)' = NumComponents(o)
    BY <1>1, <2>4 DEF AdjustedComponents, NumComponents
  <2>7. NumComponents(o) = 1 => comps[1].h = MaxH(comps) /\ comps[1].v = MaxV(comps)
    <3>1. CASE Len(comps) = 1
      BY <2>2, <3>1, OnlyComponent
    <3>2. CASE Len(comps) # 1 /\ NumComponents(o) = 1
      <4>1. o.force_grayscale
        BY <3>2 DEF NumComponents
      <4> QED BY <1>3, <4>1
    <3> QED BY <3>1, <3>2
  <2>8. \A i \in DOMAIN adjusted :
          /\ sized[i].width_in_blocks
               = Blocks(info.w.output, adjusted[i].h, MaxH(adjusted), size)
          /\ sized[i].height_in_blocks
               = Blocks(info.h.output, adjusted[i].v, MaxV(adjusted), size)
    <3> HIDE DEF adjusted, size
    <3> QED BY DEF SizedComponents
  <2>9. DestinationSized'
    <3> HIDE DEF adjusted, sized
    <3> QED BY <1>1, <2>3, <2>4, <2>6, <2>7, <2>8 DEF DestinationSized
  <2> QED BY <2>1, <2>5, <2>9 DEF TransformInv, ImageMoved
<1> QED BY <1>2, <1>3

LEMMA ExecuteKeeps == TransformInv /\ ExecuteTransform => TransformInv'
<1> SUFFICES ASSUME TransformInv, ExecuteTransform  PROVE TransformInv'
  OBVIOUS
<1>1. stage = "adjusted" /\ stage' = "transformed" /\ params' = params /\ enc' = enc /\ dec' = dec
      /\ info' = info
  BY DEF ExecuteTransform
<1>2. RegionRight' /\ DestinationSized'
  <2> DEFINE o == info.request
             size == dec.min_DCT_scaled_size
             mcu == SourceMCU(o, size)
  <2>1. NumComponents(o)' = NumComponents(o) /\ mcu' = mcu
    BY <1>1 DEF SourceMCU, NumComponents
  <2>2. Uncropped(o, dec, mcu)' = Uncropped(o, dec, mcu)
    <3> HIDE DEF mcu
    <3> QED BY <1>1, <2>1 DEF Uncropped
  <2>3. AdjustedComponents(o)' = AdjustedComponents(o)
    BY <1>1, <2>1 DEF AdjustedComponents
  <2>4. RegionRight'
    BY <1>1, <2>2 DEF TransformInv, RegionRight, Turning, InfoRecord
  <2>5. DestinationSized'
    BY <1>1, <2>1, <2>3 DEF TransformInv, DestinationSized
  <2> QED BY <2>4, <2>5
<1>3. image' = [i \in DOMAIN info.comp_info |->
                  [p \in Written(info.comp_info[i], enc.sized[i]) |->
                     Moved(info.request.transform, Geometry, info.comp_info[i], p[1], p[2])]]
  BY DEF ExecuteTransform
<1>4. Geometry' = Geometry /\ \A c, s : Written(c, s)' = Written(c, s)
  BY <1>1 DEF Geometry, Written
<1>5. ImageMoved'
  BY <1>1, <1>3, <1>4 DEF ImageMoved, Geometry, Written
<1> QED BY <1>2, <1>5 DEF TransformInv

LEMMA TransformStep == SizesInv /\ SizesInv' /\ TransformInv /\ [TNext]_tvars => TransformInv'
<1> SUFFICES ASSUME SizesInv, SizesInv', TransformInv, [TNext]_tvars  PROVE TransformInv'
  OBVIOUS
<1>1. CASE Next
  <2>1. stage' \notin Turning
    BY <1>1 DEF Next, InitialSetup, InitDownsampler, StartForward, ForeignFile, ReadHeader,
                CalcOutputDimensions, InitUpsampler, StartInverse, Transcode, Fail, Turning
  <2> QED BY <2>1 DEF TransformInv, RegionRight, DestinationSized, ImageMoved, Turning
<1>2. CASE RequestWorkspace
  BY <1>2, RequestKeeps
<1>3. CASE AdjustParameters
  BY <1>3, AdjustKeeps
<1>4. CASE ExecuteTransform
  BY <1>4, ExecuteKeeps
<1>5. CASE UNCHANGED tvars
  <2>1. /\ stage' = stage /\ params' = params /\ enc' = enc /\ dec' = dec
        /\ info' = info /\ image' = image
    BY <1>5 DEF tvars, vars
  <2>2. RegionRight' /\ DestinationSized'
    <3>1. RegionRight'
      BY <2>1 DEF TransformInv, RegionRight, InfoRecord, SourceMCU, NumComponents
    <3>2. /\ AdjustedComponents(info.request)' = AdjustedComponents(info.request)
          /\ NumComponents(info.request)' = NumComponents(info.request)
      BY <2>1 DEF NumComponents, AdjustedComponents
    <3>3. DestinationSized'
      BY <2>1, <3>2 DEF TransformInv, DestinationSized
    <3> QED BY <3>1, <3>3
  <2>3. ImageMoved'
    <3>1. Geometry' = Geometry /\ \A c, s : Written(c, s)' = Written(c, s)
      BY <2>1 DEF Geometry, Written
    <3>2. stage = "transformed" =>
            image = [i \in DOMAIN info.comp_info |->
                       [p \in Written(info.comp_info[i], enc.sized[i]) |->
                          Moved(info.request.transform, Geometry, info.comp_info[i], p[1], p[2])]]
      BY DEF TransformInv, ImageMoved
    <3>3. CASE stage = "transformed"
      <4>1. image' = [i \in DOMAIN info.comp_info |->
                        [p \in Written(info.comp_info[i], enc.sized[i]) |->
                           Moved(info.request.transform, Geometry, info.comp_info[i], p[1], p[2])]]
        BY <2>1, <3>2, <3>3
      <4> QED BY <2>1, <3>1, <4>1 DEF ImageMoved, Geometry, Written
    <3>4. CASE stage # "transformed"
      BY <2>1, <3>4 DEF ImageMoved
    <3> QED BY <3>3, <3>4
  <2> QED BY <2>2, <2>3 DEF TransformInv
<1> QED BY <1>1, <1>2, <1>3, <1>4, <1>5 DEF TNext

\* A transformation works on a region of the image, writes a destination that has the
\* sizes of that region, and makes every block of it (jtransform_request_workspace,
\* jtransform_adjust_parameters, jtransform_execute_transform of transupp.c).
THEOREM TransformCorrect == TSpec => [](SizesInv /\ TransformInv)
<1>1. TInit => TransformInv
  BY DEF TInit, Init, TransformInv, RegionRight, DestinationSized, ImageMoved, Turning
<1>2. SizesInv /\ SizesInv' /\ TransformInv /\ [TNext]_tvars => TransformInv'
  BY TransformStep
<1> QED BY <1>1, <1>2, SizesCorrect, PTL DEF TSpec

-------------------------------------------------------------------------------
(* What is read and written *)

\* The sampling factors of component i of the destination, of n components.
FactorsOf(c, comps, i, n, turned) ==
  IF n = 1 THEN i = 1 /\ c.h = 1 /\ c.v = 1
  ELSE IF turned THEN c.h = comps[i].v /\ c.v = comps[i].h
  ELSE c.h = comps[i].h /\ c.v = comps[i].v

\* The components of the destination: an iMCU of theirs is one of the region's.
LEMMA AdjustedAre ==
  ASSUME params.comp_info \in ComponentSeqs, NEW o, NEW size \in 1 .. 16, NEW d
  PROVE  LET comps == params.comp_info
             adjusted == AdjustedComponents(o)
             full == Uncropped(o, d, SourceMCU(o, size))
         IN /\ adjusted \in ComponentSeqs
            /\ MaxH(adjusted) * size = full.w[2] /\ MaxV(adjusted) * size = full.h[2]
            /\ DOMAIN adjusted = 1 .. NumComponents(o) /\ DOMAIN adjusted \subseteq DOMAIN comps
            /\ \A i \in DOMAIN adjusted :
                 FactorsOf(adjusted[i], comps, i, NumComponents(o), o.transform \in Transposing)
<1> DEFINE comps == params.comp_info
           N == NumComponents(o)
           turned == o.transform \in Transposing
           a(i) == IF N = 1 THEN [comps[i] EXCEPT !.h = 1, !.v = 1]
                   ELSE IF turned THEN [comps[i] EXCEPT !.h = comps[i].v, !.v = comps[i].h]
                   ELSE comps[i]
           adjusted == AdjustedComponents(o)
           mcu == SourceMCU(o, size)
           full == Uncropped(o, d, mcu)
<1>1. /\ DOMAIN comps = 1 .. Len(comps) /\ Len(comps) \in Nat \ {0}
      /\ \A i \in DOMAIN comps : comps[i] \in Component
      /\ MaxH(comps) \in 1 .. 4 /\ MaxV(comps) \in 1 .. 4
  <2>1. DOMAIN comps = 1 .. Len(comps) /\ Len(comps) \in Nat \ {0}
    BY DEF ComponentSeqs
  <2> QED BY <2>1, GreatestFactors
<1>2. N \in Nat \ {0} /\ N <= Len(comps) /\ (N = 1 \/ N = Len(comps))
  BY <1>1 DEF NumComponents
<1>3. adjusted = [i \in 1 .. N |-> a(i)]
  BY DEF AdjustedComponents
<1>4. mcu = IF N = 1 THEN [h |-> size, v |-> size]
            ELSE [h |-> MaxH(comps) * size, v |-> MaxV(comps) * size]
  BY DEF SourceMCU
<1>5. /\ full.w[2] = IF turned THEN mcu.v ELSE mcu.h
      /\ full.h[2] = IF turned THEN mcu.h ELSE mcu.v
  BY DEF Uncropped
<1> HIDE DEF comps, N, mcu, full
<1>6. ASSUME NEW i \in 1 .. N
      PROVE  /\ i \in DOMAIN comps /\ a(i) \in Component
             /\ a(i).h = IF N = 1 THEN 1 ELSE IF turned THEN comps[i].v ELSE comps[i].h
             /\ a(i).v = IF N = 1 THEN 1 ELSE IF turned THEN comps[i].h ELSE comps[i].v
  <2>1. i \in DOMAIN comps
    <3> DEFINE n == Len(comps)
    <3>1. DOMAIN comps = 1 .. n /\ n \in Nat /\ N \in Nat /\ N <= n
      BY <1>1, <1>2
    <3> HIDE DEF n
    <3>2. i \in 1 .. n
      BY <1>6, <3>1
    <3> QED BY <3>1, <3>2
  <2>2. comps[i] \in Component
    BY <1>1, <2>1
  <2>3. comps[i] \in [h : 1 .. 4, v : 1 .. 4, q : 0 .. NUM_QUANT_TBLS - 1]
    BY <2>2 DEF Component, MAX_SAMP_FACTOR
  <2>4. 1 \in 1 .. 4
    OBVIOUS
  <2> HIDE DEF turned
  <2> QED BY <2>1, <2>3, <2>4 DEF Component, MAX_SAMP_FACTOR
<1> HIDE DEF turned, a, adjusted
<1>7. adjusted \in ComponentSeqs /\ DOMAIN adjusted = 1 .. N
  <2>1. adjusted \in [1 .. N -> Component]
    BY <1>3, <1>6
  <2>2. adjusted \in Seq(Component) /\ DOMAIN adjusted = 1 .. N
    BY <1>2, <2>1
  <2>3. 1 \in 1 .. N
    BY <1>2
  <2>4. adjusted # <<>>
    <3>1. 1 \in DOMAIN adjusted
      BY <2>2, <2>3
    <3>2. DOMAIN <<>> = {}
      OBVIOUS
    <3> QED BY <3>1, <3>2
  <2> QED BY <2>2, <2>4 DEF ComponentSeqs
<1>8. \A i \in 1 .. N :
        /\ adjusted[i].h = IF N = 1 THEN 1 ELSE IF turned THEN comps[i].v ELSE comps[i].h
        /\ adjusted[i].v = IF N = 1 THEN 1 ELSE IF turned THEN comps[i].h ELSE comps[i].v
  BY <1>3, <1>6
<1>9. \A i \in 1 .. N : i \in DOMAIN comps
  BY <1>6
<1>10. MaxH(adjusted) * size = full.w[2] /\ MaxV(adjusted) * size = full.h[2]
  <2> DEFINE H == {adjusted[i].h : i \in DOMAIN adjusted}
             V == {adjusted[i].v : i \in DOMAIN adjusted}
  <2>1. MaxH(adjusted) = Max(H) /\ MaxV(adjusted) = Max(V)
    BY DEF MaxH, MaxV
  <2>2. CASE N = 1
    <3>1. H = {1} /\ V = {1}
      BY <1>7, <1>8, <2>2
    <3>2. Max({1}) = 1
      <4>1. 1 \in {1} /\ \A y \in {1} : 1 >= y
        OBVIOUS
      <4>2. Max({1}) \in {1}
        BY <4>1 DEF Max
      <4> QED BY <4>2
    <3>3. mcu.h = size /\ mcu.v = size
      BY <1>4, <2>2
    <3> HIDE DEF H, V
    <3> QED BY <1>5, <2>1, <3>1, <3>2, <3>3
  <2>3. CASE N # 1
    <3>1. DOMAIN adjusted = DOMAIN comps
      BY <1>1, <1>2, <1>7, <2>3
    <3>2. /\ MaxH(comps) = Max({comps[i].h : i \in DOMAIN comps})
          /\ MaxV(comps) = Max({comps[i].v : i \in DOMAIN comps})
      BY DEF MaxH, MaxV
    <3>3. mcu.h = MaxH(comps) * size /\ mcu.v = MaxV(comps) * size
      BY <1>4, <2>3
    <3>4. CASE turned
      <4>1. \A i \in DOMAIN comps : adjusted[i].h = comps[i].v /\ adjusted[i].v = comps[i].h
        BY <1>7, <1>8, <2>3, <3>1, <3>4
      <4>2. H = {comps[i].v : i \in DOMAIN comps} /\ V = {comps[i].h : i \in DOMAIN comps}
        BY <3>1, <4>1
      <4> HIDE DEF H, V
      <4> QED BY <1>5, <2>1, <3>2, <3>3, <3>4, <4>2
    <3>5. CASE ~turned
      <4>1. \A i \in DOMAIN comps : adjusted[i].h = comps[i].h /\ adjusted[i].v = comps[i].v
        BY <1>7, <1>8, <2>3, <3>1, <3>5
      <4>2. H = {comps[i].h : i \in DOMAIN comps} /\ V = {comps[i].v : i \in DOMAIN comps}
        BY <3>1, <4>1
      <4> HIDE DEF H, V
      <4> QED BY <1>5, <2>1, <3>2, <3>3, <3>5, <4>2
    <3> QED BY <3>4, <3>5
  <2> QED BY <2>2, <2>3
<1>11. \A i \in 1 .. N : FactorsOf(adjusted[i], comps, i, N, turned)
  <2>1. \A i \in 1 .. N : N = 1 => i = 1
    OBVIOUS
  <2> QED BY <1>8, <2>1 DEF FactorsOf
<1> QED BY <1>7, <1>8, <1>9, <1>10, <1>11 DEF comps, N, turned, adjusted, full, mcu

\* The region and the image in iMCUs.
RegionSize == <<jdiv_round_up(info.w.output, info.w.unit), jdiv_round_up(info.h.output, info.h.unit)>>
ImageSize == <<jdiv_round_up(info.w.full, info.w.unit), jdiv_round_up(info.h.full, info.h.unit)>>

\* The array of blocks the decoder has for a component.
SourceColumns(i) == jround_up(dec.sized[i].width_in_blocks, params.comp_info[i].h)
SourceRows(i) == jround_up(dec.sized[i].height_in_blocks, params.comp_info[i].v)

\* Numbers that are in the geometry of a component.
GoodGeometry(g, c, l, k) ==
  /\ g \in [cols : Nat, rows : Nat, x : Nat, y : Nat]
  /\ c \in Component
  /\ l \in Positive \X Positive /\ k \in Positive \X Positive
  /\ g.cols <= k[1] /\ g.x + l[1] <= k[1]
  /\ g.rows <= k[2] /\ g.y + l[2] <= k[2]

\* What the invariant says of the transformed file as a whole.
LEMMA TransformedFacts ==
  ASSUME SizesInv, TransformInv, stage = "transformed"
  PROVE  /\ params.comp_info \in ComponentSeqs /\ dec.min_DCT_scaled_size \in 1 .. 16
         /\ info.comp_info = AdjustedComponents(info.request) /\ info.request \in Requests
         /\ InImage(info.w) /\ InImage(info.h)
         /\ info.w.unit = MaxH(info.comp_info) * dec.min_DCT_scaled_size
         /\ info.h.unit = MaxV(info.comp_info) * dec.min_DCT_scaled_size
         /\ info.comp_info \in ComponentSeqs
         /\ DOMAIN info.comp_info \subseteq DOMAIN params.comp_info
         /\ IF info.request.transform \in Transposing
            THEN info.w.full = dec.output_height /\ info.h.full = dec.output_width
            ELSE info.w.full = dec.output_width /\ info.h.full = dec.output_height
         /\ Geometry = [cols |-> info.w.full \div info.w.unit, rows |-> info.h.full \div info.h.unit,
                        x |-> info.w.offset, y |-> info.h.offset]
         /\ \A i \in DOMAIN info.comp_info :
              FactorsOf(info.comp_info[i], params.comp_info, i, NumComponents(info.request),
                        info.request.transform \in Transposing)
<1>1. params.comp_info \in ComponentSeqs /\ dec.min_DCT_scaled_size \in 1 .. 16
  BY Admitted DEF SizesInv, SizesTypeOK, Decoding, Turning, DecoderRecord
<1>2. /\ info.comp_info = AdjustedComponents(info.request)
      /\ enc.min_DCT_scaled_size = dec.min_DCT_scaled_size
  BY DEF TransformInv, DestinationSized
<1> DEFINE o == info.request
           mcu == SourceMCU(o, dec.min_DCT_scaled_size)
           full == Uncropped(o, dec, mcu)
<1>3. /\ o \in Requests /\ InImage(info.w) /\ InImage(info.h)
      /\ info.w.full = full.w[1] /\ info.w.unit = full.w[2]
      /\ info.h.full = full.h[1] /\ info.h.unit = full.h[2]
  BY DEF TransformInv, RegionRight, Turning, InfoRecord
<1>4. IF o.transform \in Transposing
      THEN full.w[1] = dec.output_height /\ full.h[1] = dec.output_width
      ELSE full.w[1] = dec.output_width /\ full.h[1] = dec.output_height
  BY DEF Uncropped
<1>5. /\ info.comp_info \in ComponentSeqs
      /\ MaxH(info.comp_info) * dec.min_DCT_scaled_size = full.w[2]
      /\ MaxV(info.comp_info) * dec.min_DCT_scaled_size = full.h[2]
      /\ DOMAIN info.comp_info \subseteq DOMAIN params.comp_info
      /\ \A i \in DOMAIN info.comp_info :
           FactorsOf(info.comp_info[i], params.comp_info, i, NumComponents(o),
                     o.transform \in Transposing)
  BY <1>1, <1>2, AdjustedAre
<1> HIDE DEF full, o
<1>6. Geometry = [cols |-> info.w.full \div info.w.unit, rows |-> info.h.full \div info.h.unit,
                  x |-> info.w.offset, y |-> info.h.offset]
  BY <1>2, <1>3, <1>4, <1>5 DEF Geometry, o
<1> QED BY <1>1, <1>2, <1>3, <1>4, <1>5, <1>6 DEF o

\* A place of the destination, of a component of the region.
Placed(p, c) == /\ p \in Nat \X Nat
                /\ p[1] < RegionSize[1] * c.h /\ p[2] < RegionSize[2] * c.v

LEMMA WrittenPlaces ==
  ASSUME SizesInv, TransformInv, stage = "transformed", NEW i \in DOMAIN info.comp_info
  PROVE  LET c == info.comp_info[i]
         IN /\ GoodGeometry(Geometry, c, RegionSize, ImageSize)
            /\ \A p \in Written(c, enc.sized[i]) : Placed(p, c)
            /\ RealBlocks(i) \subseteq Written(c, enc.sized[i])
<1> DEFINE c == info.comp_info[i]
           s == enc.sized[i]
           size == dec.min_DCT_scaled_size
           maxh == MaxH(info.comp_info)
           maxv == MaxV(info.comp_info)
           h == c.h
           v == c.v
           uw == info.w.unit
           uh == info.h.unit
           ow == info.w.output
           oh == info.h.output
           l == RegionSize
           k == ImageSize
<1>1. /\ info.comp_info \in ComponentSeqs /\ InImage(info.w) /\ InImage(info.h)
      /\ uw = maxh * size /\ uh = maxv * size /\ size \in 1 .. 16
      /\ Geometry = [cols |-> info.w.full \div uw, rows |-> info.h.full \div uh,
                     x |-> info.w.offset, y |-> info.h.offset]
  BY TransformedFacts
<1>2. c \in Component /\ h \in Nat \ {0} /\ v \in Nat \ {0} /\ maxh \in Nat \ {0}
      /\ maxv \in Nat \ {0}
  BY <1>1, GreatestFactors, ComponentNumbers
<1>3. ow \in Nat \ {0} /\ oh \in Nat \ {0} /\ size \in Nat \ {0}
  <2>1. ow \in Nat \ {0} /\ oh \in Nat \ {0}
    BY <1>1 DEF InImage, Directions, Positive
  <2> QED BY <1>1, <2>1
<1>4. s.width_in_blocks = Blocks(ow, h, maxh, size) /\ s.height_in_blocks = Blocks(oh, v, maxv, size)
  BY DEF TransformInv, DestinationSized
<1>5. GoodGeometry(Geometry, c, l, k)
  <2>1. /\ info.w.full \div uw \in Nat /\ l[1] \in Positive /\ k[1] \in Positive
        /\ info.w.full \div uw <= k[1] /\ info.w.offset + l[1] <= k[1]
    BY <1>1, RegionMCUs DEF RegionSize, ImageSize
  <2>2. /\ info.h.full \div uh \in Nat /\ l[2] \in Positive /\ k[2] \in Positive
        /\ info.h.full \div uh <= k[2] /\ info.h.offset + l[2] <= k[2]
    BY <1>1, RegionMCUs DEF RegionSize, ImageSize
  <2>3. info.w.offset \in Nat /\ info.h.offset \in Nat
    BY <1>1 DEF InImage, Directions
  <2>4. l \in Positive \X Positive /\ k \in Positive \X Positive
    BY <2>1, <2>2 DEF RegionSize, ImageSize
  <2> HIDE DEF l, k, c, uw, uh
  <2> QED BY <1>1, <1>2, <2>1, <2>2, <2>3, <2>4 DEF GoodGeometry
<1>6. l[1] = jdiv_round_up(ow, maxh * size) /\ l[2] = jdiv_round_up(oh, maxv * size)
  BY <1>1 DEF RegionSize
<1>7. ASSUME NEW n \in Nat \ {0}, NEW b \in Nat \ {0}, NEW f \in Nat \ {0}, NEW M \in Nat \ {0}
      PROVE  /\ Blocks(n, f, M, b) \in Nat \ {0}
             /\ jround_up(Blocks(n, f, M, b), f) = jdiv_round_up(n, M * b) * f
             /\ Blocks(n, f, M, b) <= jdiv_round_up(n, M * b) * f
  <2>1. Blocks(n, f, M, b) \in Nat \ {0}
    BY BlocksCover
  <2>2. jround_up(Blocks(n, f, M, b), f) = jdiv_round_up(n, M * b) * f
    BY SameMCUs
  <2> DEFINE w == Blocks(n, f, M, b)
  <2> HIDE DEF w
  <2>3. w <= jround_up(w, f)
    BY <2>1, RoundUpIs DEF jround_up, w
  <2> QED BY <2>1, <2>2, <2>3 DEF w
<1>8. /\ s.width_in_blocks \in Nat \ {0} /\ s.height_in_blocks \in Nat \ {0}
      /\ jround_up(s.width_in_blocks, h) = l[1] * h /\ s.width_in_blocks <= l[1] * h
      /\ jround_up(s.height_in_blocks, v) = l[2] * v /\ s.height_in_blocks <= l[2] * v
  <2> HIDE DEF s, h, v, maxh, maxv, size, ow, oh, l
  <2>1. /\ Blocks(ow, h, maxh, size) \in Nat \ {0}
        /\ jround_up(Blocks(ow, h, maxh, size), h) = jdiv_round_up(ow, maxh * size) * h
        /\ Blocks(ow, h, maxh, size) <= jdiv_round_up(ow, maxh * size) * h
    BY <1>2, <1>3, <1>7
  <2>2. /\ Blocks(oh, v, maxv, size) \in Nat \ {0}
        /\ jround_up(Blocks(oh, v, maxv, size), v) = jdiv_round_up(oh, maxv * size) * v
        /\ Blocks(oh, v, maxv, size) <= jdiv_round_up(oh, maxv * size) * v
    BY <1>2, <1>3, <1>7
  <2> QED BY <1>4, <1>6, <2>1, <2>2
<1> DEFINE across == IF info.request.transform \in Transposing THEN l[1] * h ELSE s.width_in_blocks
           lh == l[1] * h
           lv == l[2] * v
<1>9. Written(c, s) = (0 .. across - 1) \X (0 .. lv - 1)
  BY <1>8 DEF Written
<1>10. lh \in Nat /\ lv \in Nat
  <2>1. l[1] \in Nat /\ l[2] \in Nat
    BY <1>5 DEF GoodGeometry, Positive
  <2> HIDE DEF l, h, v
  <2> QED BY <1>2, <2>1
<1>11. across \in Nat /\ across <= lh /\ s.width_in_blocks <= across
  <2>1. CASE info.request.transform \in Transposing
    <3>1. across = lh
      BY <2>1
    <3> QED BY <1>8, <1>10, <3>1
  <2>2. CASE info.request.transform \notin Transposing
    <3>1. across = s.width_in_blocks
      BY <2>2
    <3> HIDE DEF s, across
    <3> QED BY <1>8, <1>10, <3>1
  <2> QED BY <2>1, <2>2
<1>12. RealBlocks(i) = (0 .. s.width_in_blocks - 1) \X (0 .. s.height_in_blocks - 1)
  BY DEF RealBlocks
<1> HIDE DEF s, across, l, k, lh, lv, c, h, v
<1>13. ASSUME NEW p \in Written(c, s)
       PROVE  p \in Nat \X Nat /\ p[1] < lh /\ p[2] < lv
  BY <1>9, <1>10, <1>11, <1>13
<1>14. RealBlocks(i) \subseteq Written(c, s)
  <2>1. /\ 0 .. s.width_in_blocks - 1 \subseteq 0 .. across - 1
        /\ 0 .. s.height_in_blocks - 1 \subseteq 0 .. lv - 1
    BY <1>8, <1>10, <1>11 DEF lv
  <2> QED BY <1>9, <1>12, <2>1
<1> QED BY <1>5, <1>13, <1>14 DEF Placed, c, h, v, s, l, k, lh, lv

\* The iMCUs of the output are those of the file.
MCUsOf(n, b, size, h, M) ==
  LET out == jdiv_round_up(n * size, b)
  IN out \in Nat \ {0} /\ jround_up(Blocks(n, h, M, b), h) = jdiv_round_up(out, M * size) * h

LEMMA OutputMCUs ==
  ASSUME NEW n \in Nat \ {0}, NEW b \in Nat \ {0}, NEW size \in Nat \ {0},
         NEW h \in Nat \ {0}, NEW M \in Nat \ {0}
  PROVE  MCUsOf(n, b, size, h, M)
<1> DEFINE out == jdiv_round_up(n * size, b)
           MCUs == jdiv_round_up(n, M * b)
<1>1. /\ out \in Nat \ {0} /\ jdiv_round_up(out, M * size) = MCUs
      /\ jround_up(Blocks(n, h, M, b), h) = MCUs * h /\ Blocks(out, h, M, size) <= MCUs * h
  BY SameMCUs
<1> HIDE DEF MCUs
<1> QED BY <1>1 DEF MCUsOf

\* The array of a component has all blocks of the image's iMCUs.
LEMMA SourceHolds ==
  ASSUME SizesInv, TransformInv, stage = "transformed", NEW i \in DOMAIN info.comp_info
  PROVE  LET c == info.comp_info[i]
         IN /\ SourceColumns(i) \in Nat /\ SourceRows(i) \in Nat
            /\ IF info.request.transform \in Transposing
               THEN ImageSize[1] * c.h <= SourceRows(i) /\ ImageSize[2] * c.v <= SourceColumns(i)
               ELSE ImageSize[1] * c.h <= SourceColumns(i) /\ ImageSize[2] * c.v <= SourceRows(i)
<1> DEFINE comps == params.comp_info
           o == info.request
           c == info.comp_info[i]
           size == dec.min_DCT_scaled_size
           b == dec.block_size
           maxh == MaxH(comps)
           maxv == MaxV(comps)
           h == comps[i].h
           v == comps[i].v
           nw == dec.image_width
           nh == dec.image_height
           width == dec.output_width
           height == dec.output_height
           turned == o.transform \in Transposing
           k == ImageSize
<1>1. /\ comps \in ComponentSeqs /\ size \in 1 .. 16 /\ info.comp_info = AdjustedComponents(o)
      /\ i \in DOMAIN comps
      /\ info.w.unit = MaxH(info.comp_info) * size /\ info.h.unit = MaxV(info.comp_info) * size
      /\ IF turned THEN info.w.full = height /\ info.h.full = width
         ELSE info.w.full = width /\ info.h.full = height
  BY TransformedFacts
<1>2. /\ b \in 1 .. 16 /\ nw \in Positive /\ nh \in Positive
      /\ width = jdiv_round_up(nw * size, b) /\ height = jdiv_round_up(nh * size, b)
      /\ dec.sized[i].width_in_blocks = Blocks(nw, h, maxh, b)
      /\ dec.sized[i].height_in_blocks = Blocks(nh, v, maxv, b)
  BY <1>1 DEF SizesInv, SizesTypeOK, DecoderRecord, OutputFollows, SourceBlocks, Decoding, Turning
<1>3. h \in Nat \ {0} /\ v \in Nat \ {0} /\ maxh \in Nat \ {0} /\ maxv \in Nat \ {0}
      /\ b \in Nat \ {0} /\ size \in Nat \ {0} /\ nw \in Nat \ {0} /\ nh \in Nat \ {0}
  <2>1. h \in Nat \ {0} /\ v \in Nat \ {0} /\ maxh \in Nat \ {0} /\ maxv \in Nat \ {0}
    BY <1>1, ComponentNumbers
  <2> QED BY <1>1, <1>2, <2>1 DEF Positive
<1>4. LET full == Uncropped(o, dec, SourceMCU(o, size))
      IN /\ info.w.unit = full.w[2] /\ info.h.unit = full.h[2]
  BY DEF TransformInv, RegionRight, Turning
<1>5. IF NumComponents(o) = 1 THEN i = 1 /\ c.h = 1 /\ c.v = 1
      ELSE IF turned THEN c.h = v /\ c.v = h ELSE c.h = h /\ c.v = v
  BY TransformedFacts DEF FactorsOf
<1>6. NumComponents(o) = 1 => comps[1].h = maxh /\ comps[1].v = maxv
  BY DEF TransformInv, DestinationSized
<1>7. IF NumComponents(o) = 1 THEN info.w.unit = size /\ info.h.unit = size
      ELSE IF turned THEN info.w.unit = maxv * size /\ info.h.unit = maxh * size
      ELSE info.w.unit = maxh * size /\ info.h.unit = maxv * size
  BY <1>4 DEF Uncropped, SourceMCU
<1> HIDE DEF comps, o, c, size, b, maxh, maxv, h, v, nw, nh, width, height
<1> DEFINE across == jdiv_round_up(width, maxh * size)
           down == jdiv_round_up(height, maxv * size)
<1>8. /\ SourceColumns(i) = across * h /\ SourceRows(i) = down * v
      /\ width \in Nat \ {0} /\ height \in Nat \ {0}
  <2> HIDE DEF across, down
  <2>1. MCUsOf(nw, b, size, h, maxh) /\ MCUsOf(nh, b, size, v, maxv)
    BY <1>3, OutputMCUs
  <2>3. /\ SourceColumns(i) = jround_up(Blocks(nw, h, maxh, b), h)
        /\ SourceRows(i) = jround_up(Blocks(nh, v, maxv, b), v)
    BY <1>2 DEF SourceColumns, SourceRows, h, v, comps
  <2> QED BY <1>2, <2>1, <2>3 DEF MCUsOf, across, down
<1>9. ASSUME NEW n \in Nat \ {0}, NEW M \in Nat \ {0}
      PROVE  /\ jdiv_round_up(n, M * size) \in Nat \ {0}
             /\ jdiv_round_up(n, M * size) * M \in Nat
             /\ jdiv_round_up(n, size) <= jdiv_round_up(n, M * size) * M
  <2> DEFINE q == jdiv_round_up(n, M * size)
  <2>1. M * size \in Nat \ {0}
    BY <1>3, PositiveProduct
  <2>2. q \in Nat \ {0} /\ n <= q * (M * size)
    BY <2>1, RoundUpIs
  <2> HIDE DEF q
  <2>3. q * (M * size) = (q * M) * size /\ q * M \in Nat
    BY <1>3, <2>2
  <2>4. n <= (q * M) * size /\ q * M \in Int
    BY <2>2, <2>3
  <2>5. jdiv_round_up(n, size) <= q * M
    BY <1>3, <2>4, RoundUpLeast
  <2> QED BY <2>2, <2>3, <2>5 DEF q
<1>10. across \in Nat /\ down \in Nat
  BY <1>3, <1>8, <1>9
<1>11. SourceColumns(i) \in Nat /\ SourceRows(i) \in Nat
  <2> HIDE DEF across, down
  <2> QED BY <1>3, <1>8, <1>10
<1>12. k[1] = jdiv_round_up(info.w.full, info.w.unit) /\ k[2] = jdiv_round_up(info.h.full, info.h.unit)
  BY DEF ImageSize
<1> HIDE DEF k, turned
<1>13. CASE NumComponents(o) = 1
  <2>1. /\ i = 1 /\ c.h = 1 /\ c.v = 1 /\ h = maxh /\ v = maxv
    BY <1>5, <1>6, <1>13 DEF h, v
  <2>2. /\ SourceColumns(i) = across * maxh /\ SourceRows(i) = down * maxv
    BY <1>8, <2>1
  <2>3. /\ jdiv_round_up(width, size) <= SourceColumns(i)
        /\ jdiv_round_up(height, size) <= SourceRows(i)
    BY <1>3, <1>8, <1>9, <2>2
  <2>4. IF turned
        THEN k[1] = jdiv_round_up(height, size) /\ k[2] = jdiv_round_up(width, size)
        ELSE k[1] = jdiv_round_up(width, size) /\ k[2] = jdiv_round_up(height, size)
    BY <1>1, <1>7, <1>12, <1>13
  <2>5. /\ jdiv_round_up(width, size) \in Nat /\ jdiv_round_up(height, size) \in Nat
    BY <1>3, <1>8, RoundUpIs
  <2> QED BY <1>11, <2>1, <2>3, <2>4, <2>5 DEF c, o, turned, k
<1>14. CASE NumComponents(o) # 1
  <2>1. CASE turned
    <3>1. c.h = v /\ c.v = h /\ k[1] = down /\ k[2] = across
      BY <1>1, <1>5, <1>7, <1>12, <1>14, <2>1
    <3>2. k[1] * c.h <= SourceRows(i) /\ k[2] * c.v <= SourceColumns(i)
      BY <1>8, <1>11, <3>1
    <3> QED BY <1>11, <2>1, <3>2 DEF c, o, turned, k
  <2>2. CASE ~turned
    <3>1. c.h = h /\ c.v = v /\ k[1] = across /\ k[2] = down
      BY <1>1, <1>5, <1>7, <1>12, <1>14, <2>2
    <3>2. k[1] * c.h <= SourceColumns(i) /\ k[2] * c.v <= SourceRows(i)
      BY <1>8, <1>11, <3>1
    <3> QED BY <1>11, <2>2, <3>2 DEF c, o, turned, k
  <2> QED BY <2>1, <2>2
<1> QED BY <1>13, <1>14

\* Where the routine of a transformation reads.
PlaceOf(t, g, c, x, y) ==
  Taken(t, x + g.x * c.h, y + g.y * c.v, g.cols * c.h, g.rows * c.v)

LEMMA MovedReads ==
  ASSUME NEW g, NEW c, NEW l, NEW k, GoodGeometry(g, c, l, k), NEW t \in Transforms,
         NEW x \in Nat, NEW y \in Nat, x < l[1] * c.h, y < l[2] * c.v
  PROVE  Reads(Moved(t, g, c, x, y), t, PlaceOf(t, g, c, x, y), k[1] * c.h, k[2] * c.v)
<1> DEFINE h == c.h
           v == c.v
           across == k[1] * h
           down == k[2] * v
<1>1. h \in Nat \ {0} /\ v \in Nat \ {0}
  <2>1. h \in 1 .. 4 /\ v \in 1 .. 4
    BY DEF GoodGeometry, Component, MAX_SAMP_FACTOR
  <2> HIDE DEF h, v
  <2> QED BY <2>1
<1>2. /\ g.x \in Nat /\ g.y \in Nat /\ g.cols \in Nat /\ g.rows \in Nat
      /\ l[1] \in Nat /\ l[2] \in Nat /\ k[1] \in Nat /\ k[2] \in Nat
      /\ g.x + l[1] <= k[1] /\ g.cols <= k[1] /\ g.y + l[2] <= k[2] /\ g.rows <= k[2]
  BY DEF GoodGeometry, Positive
<1>3. x < l[1] * h /\ y < l[2] * v
  OBVIOUS
<1> HIDE DEF h, v
<1>4. InStrips(x, h, g.x * h, g.cols * h, across)
  BY <1>1, <1>2, <1>3, StripInside
<1>5. InStrips(y, v, g.y * v, g.rows * v, down)
  BY <1>1, <1>2, <1>3, StripInside
<1>6. /\ g.x * h \in Nat /\ g.y * v \in Nat /\ g.cols * h \in Nat /\ g.rows * v \in Nat
      /\ across \in Nat /\ down \in Nat /\ (g.y = 0 => g.y * v = 0)
  <2>1. \A a, b \in Nat : a * b \in Nat
    OBVIOUS
  <2>2. g.y = 0 => g.y * v = 0
    BY <1>1
  <2> QED BY <1>1, <1>2, <2>1, <2>2
<1> HIDE DEF across, down
<1>7. /\ x_crop_blocks(g, c) = g.x * h /\ y_crop_blocks(g, c) = g.y * v
      /\ comp_width(g, c) = g.cols * h /\ comp_height(g, c) = g.rows * v
  BY DEF x_crop_blocks, y_crop_blocks, comp_width, comp_height, h, v
<1>8. /\ InStrips(x, c.h, x_crop_blocks(g, c), comp_width(g, c), across)
      /\ InStrips(y, c.v, y_crop_blocks(g, c), comp_height(g, c), down)
      /\ c.h \in Nat \ {0} /\ c.v \in Nat \ {0}
      /\ x_crop_blocks(g, c) \in Nat /\ comp_width(g, c) \in Nat
      /\ y_crop_blocks(g, c) \in Nat /\ comp_height(g, c) \in Nat
      /\ g.y = 0 => y_crop_blocks(g, c) = 0
  <2>1. c.h = h /\ c.v = v
    BY DEF h, v
  <2> QED BY <1>1, <1>4, <1>5, <1>6, <1>7, <2>1, Zenon
<1>9. Reads(Moved(t, g, c, x, y), t,
            Taken(t, x + x_crop_blocks(g, c), y + y_crop_blocks(g, c),
                  comp_width(g, c), comp_height(g, c)), across, down)
  BY <1>6, <1>8, RoutineReads
<1> QED BY <1>7, <1>9 DEF PlaceOf, across, down, h, v

\* Every block of the destination is read from inside of the source's array.
LEMMA TransformHasRoom == SizesInv /\ TransformInv => TransformFits
<1> SUFFICES ASSUME SizesInv, TransformInv, stage = "transformed", NEW i \in DOMAIN image,
                    NEW p \in DOMAIN image[i]
             PROVE  LET c == info.comp_info[i]
                        source == [cols |-> jround_up(dec.sized[i].width_in_blocks,
                                                      params.comp_info[i].h),
                                   rows |-> jround_up(dec.sized[i].height_in_blocks,
                                                      params.comp_info[i].v)]
                        target == IF info.workspace
                                  THEN [cols |-> jdiv_round_up(info.w.output, info.w.unit) * c.h,
                                        rows |-> jdiv_round_up(info.h.output, info.h.unit) * c.v]
                                  ELSE source
                        b == image[i][p]
                    IN /\ b.strip.first >= 0
                       /\ b.strip.first + b.strip.rows <= source.rows
                       /\ b.column \in 0 .. source.cols - 1
                       /\ p[1] < target.cols /\ p[2] < target.rows
  BY DEF TransformFits
<1> DEFINE c == info.comp_info[i]
           t == info.request.transform
           g == Geometry
           l == RegionSize
           k == ImageSize
           b == image[i][p]
           cols == SourceColumns(i)
           rows == SourceRows(i)
           lh == l[1] * c.h
           lv == l[2] * c.v
           kh == k[1] * c.h
           kv == k[2] * c.v
<1>1. /\ i \in DOMAIN info.comp_info /\ p \in Written(c, enc.sized[i])
      /\ b = Moved(t, g, c, p[1], p[2])
  BY DEF TransformInv, ImageMoved
<1>2. GoodGeometry(g, c, l, k) /\ Placed(p, c)
  BY <1>1, WrittenPlaces
<1>3. t \in Transforms
  BY TransformedFacts, TransformAssumption
<1>4. /\ cols \in Nat /\ rows \in Nat
      /\ IF t \in Transposing THEN kh <= rows /\ kv <= cols ELSE kh <= cols /\ kv <= rows
  BY <1>1, SourceHolds
<1>5. Reads(b, t, PlaceOf(t, g, c, p[1], p[2]), kh, kv)
  BY <1>1, <1>2, <1>3, MovedReads DEF Placed
<1>6. /\ lh \in Nat /\ lv \in Nat /\ kh \in Nat /\ kv \in Nat /\ lh <= kh /\ lv <= kv
  <2> DEFINE h == c.h
             v == c.v
  <2>1. h \in Nat /\ v \in Nat
    <3>1. h \in 1 .. 4 /\ v \in 1 .. 4
      BY <1>2 DEF GoodGeometry, Component, MAX_SAMP_FACTOR
    <3> HIDE DEF h, v
    <3> QED BY <3>1
  <2>2. /\ l[1] \in Nat /\ l[2] \in Nat /\ k[1] \in Nat /\ k[2] \in Nat
        /\ l[1] <= k[1] /\ l[2] <= k[2]
    BY <1>2 DEF GoodGeometry, Positive
  <2> HIDE DEF h, v, l, k
  <2>3. \A m, n, f \in Nat : m * f \in Nat /\ (m <= n => m * f <= n * f)
    OBVIOUS
  <2> QED BY <2>1, <2>2, <2>3 DEF h, v
<1>7. p[1] < lh /\ p[2] < lv
  BY <1>2 DEF Placed
<1>8. b.strip.first >= 0 /\ b.strip.first + b.strip.rows <= rows /\ b.column \in 0 .. cols - 1
  <2> HIDE DEF b, cols, rows, kh, kv
  <2>1. /\ b.strip.first \in Nat /\ b.strip.rows \in Nat
        /\ IF t \in Transposing
           THEN b.strip.first + b.strip.rows <= kh /\ b.column \in 0 .. kv - 1
           ELSE b.strip.first + b.strip.rows <= kv /\ b.column \in 0 .. kh - 1
    BY <1>5 DEF Reads
  <2>2. \A m, n \in Nat : m <= n => 0 .. m - 1 \subseteq 0 .. n - 1
    OBVIOUS
  <2>3. b.column \in 0 .. cols - 1
    BY <1>4, <1>6, <2>1, <2>2
  <2>4. b.strip.first + b.strip.rows <= rows
    BY <1>4, <1>6, <2>1
  <2>5. b.strip.first >= 0
    BY <2>1
  <2> QED BY <2>3, <2>4, <2>5
<1>9. ~info.workspace => p[1] < cols /\ p[2] < rows
  <2> SUFFICES ASSUME ~info.workspace  PROVE p[1] < cols /\ p[2] < rows
    OBVIOUS
  <2>1. ~need_workspace(t, info.w, info.h)
    BY DEF TransformInv, RegionRight, Turning
  <2>2. t \in {"none", "flip_h"}
    <3>1. t \notin {"none", "flip_h"} => need_workspace(t, info.w, info.h)
      BY Zenon DEF need_workspace
    <3> QED BY <2>1, <3>1
  <2>3. t \notin Transposing
    BY <2>2 DEF Transposing
  <2>4. p[1] \in Nat /\ p[2] \in Nat
    BY <1>2 DEF Placed
  <2> HIDE DEF cols, rows, kh, kv, lh, lv
  <2> QED BY <1>4, <1>6, <1>7, <2>3, <2>4
<1>10. /\ lh = jdiv_round_up(info.w.output, info.w.unit) * c.h
       /\ lv = jdiv_round_up(info.h.output, info.h.unit) * c.v
  BY DEF RegionSize
<1> HIDE DEF lh, lv, kh, kv, b, c
<1> QED BY <1>7, <1>8, <1>9, <1>10 DEF SourceColumns, SourceRows, b, c

\* Whoever writes or reads a file finds room for what is in it, whatever the sizes are:
\* the buffers of jcprepct.c and jdsample.c, the arrays of jdcoefct.c, and what the
\* routines of transupp.c read and write in them without looking at their sizes.
THEOREM RoomForAll == TSpec => []BuffersFit
<1>1. SizesInv /\ TransformInv => BuffersFit
  BY EncoderHasRoom, DecoderHasRoom, TranscoderHasRoom, TransformHasRoom DEF BuffersFit
<1> QED BY <1>1, TransformCorrect, PTL

-------------------------------------------------------------------------------
(* What the flips and transpositions do to a block *)

\* At most three flips and transpositions, undone from the last to the first.
LEMMA BackThroughThree ==
  ASSUME NEW steps, NEW base, NEW n \in 0 .. 3, DOMAIN steps = 1 .. n
  PROVE  LET third == IF 3 <= n THEN StepBack(steps[3], base) ELSE base
             second == IF 2 <= n THEN StepBack(steps[2], third) ELSE third
         IN FoldRight(StepBack, steps, base)
              = IF 1 <= n THEN StepBack(steps[1], second) ELSE second
<1> DEFINE S == 1 .. n
           Undone(f) == [s \in SUBSET S |->
                           IF s = {} THEN base
                           ELSE StepBack(steps[Min(s)], f[s \ {Min(s)}])]
           iter == CHOOSE f : f = Undone(f)
           After3(s) == IF 3 \in s THEN StepBack(steps[3], base) ELSE base
           After2(s) == IF 2 \in s THEN StepBack(steps[2], After3(s)) ELSE After3(s)
           After1(s) == IF 1 \in s THEN StepBack(steps[1], After2(s)) ELSE After2(s)
           after == [s \in SUBSET S |-> After1(s)]
<1>1. FoldRight(StepBack, steps, base) = iter[S]
  BY DEF FoldRight, MapThenFoldSet
<1>2. ASSUME NEW s \in SUBSET S
      PROVE  /\ s # {} => /\ Min(s) \in s /\ s \ {Min(s)} \in SUBSET S
                          /\ \A j \in s : Min(s) <= j
             /\ s \in SUBSET {1, 2, 3} 
  <2>1. S \subseteq {1, 2, 3}
    OBVIOUS
  <2>2. s # {} => \E j \in s : \A m \in s : j <= m
    <3>1. CASE 1 \in s
      <4>1. \A m \in {1, 2, 3} : 1 <= m
        OBVIOUS
      <4> QED BY <2>1, <3>1, <4>1, Zenon
    <3>2. CASE 1 \notin s /\ 2 \in s
      <4>1. \A m \in {2, 3} : 2 <= m
        OBVIOUS
      <4> QED BY <2>1, <3>2, <4>1, Zenon
    <3>3. CASE s \subseteq {3}
      <4>1. 3 <= 3
        OBVIOUS
      <4> QED BY <3>3, <4>1, Zenon
    <3> QED BY <2>1, <3>1, <3>2, <3>3
  <2> QED BY <2>1, <2>2 DEF Min
<1>3. after = Undone(after)
  <2> SUFFICES ASSUME NEW s \in SUBSET S, s # {}
               PROVE  After1(s) = StepBack(steps[Min(s)], After1(s \ {Min(s)}))
    BY <1>2
  <2>1. CASE Min(s) = 1
    BY <1>2, <2>1
  <2>2. CASE Min(s) = 2
    BY <1>2, <2>2
  <2>3. CASE Min(s) = 3
    BY <1>2, <2>3
  <2> QED BY <1>2, <2>1, <2>2, <2>3
<1>4. iter = Undone(iter)
  <2>1. \E f : f = Undone(f)
    BY <1>3
  <2> HIDE DEF Undone
  <2> QED BY <2>1
<1>5. ASSUME NEW s \in SUBSET S
      PROVE  iter[s] = IF s = {} THEN base ELSE StepBack(steps[Min(s)], iter[s \ {Min(s)}])
  BY <1>4
<1> HIDE DEF iter
<1>6. ASSUME NEW s \in SUBSET S, NEW j \in s, \A m \in s : j <= m
      PROVE  iter[s] = StepBack(steps[j], iter[s \ {j}])
  <2>1. Min(s) = j
    <3>1. Min(s) \in s /\ Min(s) <= j /\ j <= Min(s)
      BY <1>2, <1>6
    <3>2. \A m \in s : m \in Int
      <4>1. \A m \in 1 .. n : m \in Int
        OBVIOUS
      <4> QED BY <4>1
    <3>3. Min(s) \in Int /\ j \in Int
      BY <3>1, <3>2
    <3> QED BY <3>1, <3>3
  <2> QED BY <1>5, <2>1
<1>7. iter[{}] = base
  BY <1>5
<1>8. 3 <= n => iter[{3}] = StepBack(steps[3], base)
  <2> SUFFICES ASSUME 3 <= n  PROVE iter[{3}] = StepBack(steps[3], base)
    OBVIOUS
  <2>1. {3} \in SUBSET S /\ 3 \in {3} /\ (\A m \in {3} : 3 <= m)
    OBVIOUS
  <2>2. iter[{3}] = StepBack(steps[3], iter[{3} \ {3}])
    BY <1>6, <2>1
  <2>3. {3} \ {3} = {}
    OBVIOUS
  <2> QED BY <1>7, <2>2, <2>3
<1>9. ASSUME 2 <= n  PROVE iter[2 .. n] = StepBack(steps[2], iter[3 .. n])
  <2>1. 2 .. n \in SUBSET S /\ 2 \in 2 .. n /\ \A m \in 2 .. n : 2 <= m
    BY <1>9
  <2>2. iter[2 .. n] = StepBack(steps[2], iter[(2 .. n) \ {2}])
    BY <1>6, <2>1
  <2>3. (2 .. n) \ {2} = 3 .. n
    OBVIOUS
  <2> QED BY <2>2, <2>3
<1>10. ASSUME 1 <= n  PROVE iter[S] = StepBack(steps[1], iter[2 .. n])
  <2>1. S \in SUBSET S /\ 1 \in S /\ \A m \in S : 1 <= m
    BY <1>10
  <2>2. iter[S] = StepBack(steps[1], iter[S \ {1}])
    BY <1>6, <2>1
  <2>3. S \ {1} = 2 .. n
    OBVIOUS
  <2> QED BY <2>2, <2>3
<1>11. /\ 3 <= n => 3 .. n = {3}
       /\ n < 3 => 3 .. n = {}
       /\ n < 2 => 2 .. n = {}
       /\ n < 1 => S = {}
  OBVIOUS
<1> HIDE DEF S
<1>12. iter[3 .. n] = IF 3 <= n THEN StepBack(steps[3], base) ELSE base
  <2>1. CASE 3 <= n
    BY <1>8, <1>11, <2>1, Zenon
  <2>2. CASE n < 3
    <3>1. ~(3 <= n)
      BY <2>2
    <3> QED BY <1>7, <1>11, <2>2, <3>1, Zenon
  <2> QED BY <2>1, <2>2
<1>13. iter[2 .. n] = IF 2 <= n THEN StepBack(steps[2], iter[3 .. n]) ELSE iter[3 .. n]
  BY <1>7, <1>9, <1>11
<1> QED BY <1>1, <1>7, <1>10, <1>11, <1>12, <1>13

\* A block's place and signs on the way.
Along(x, y, w, h, s) == [column |-> x, row |-> y, cols |-> w, rows |-> h, turned |-> s]

\* The signs after a flip.
Signs(place, limit, s, sign) == IF place < limit THEN Toggle(s, sign) ELSE s

LEMMA StepsBack ==
  ASSUME NEW x, NEW y, NEW w, NEW h, NEW s
  PROVE  /\ StepBack("h", Along(x, y, w, h, s))
              = Along(Flip(x, w), y, w, h, Signs(x, w, s, "h"))
         /\ StepBack("v", Along(x, y, w, h, s))
              = Along(x, Flip(y, h), w, h, Signs(y, h, s, "v"))
         /\ StepBack("t", Along(x, y, w, h, s)) = Along(y, x, h, w, Toggle(Swap(s), "t"))
<1> DEFINE b == Along(x, y, w, h, s)
<1>1. b.column = x /\ b.row = y /\ b.cols = w /\ b.rows = h /\ b.turned = s
  BY DEF Along
<1>2. /\ StepBack("h", b) = IF b.column < b.cols
           THEN [b EXCEPT !.column = b.cols - 1 - b.column, !.turned = Toggle(b.turned, "h")] ELSE b
      /\ StepBack("v", b) = IF b.row < b.rows
           THEN [b EXCEPT !.row = b.rows - 1 - b.row, !.turned = Toggle(b.turned, "v")] ELSE b
      /\ StepBack("t", b) = Along(b.row, b.column, b.rows, b.cols, Toggle(Swap(b.turned), "t"))
  BY Zenon DEF StepBack, Along
<1>3. ASSUME NEW z, NEW u
      PROVE  /\ [Along(x, y, w, h, s) EXCEPT !.column = z, !.turned = u] = Along(z, y, w, h, u)
             /\ [Along(x, y, w, h, s) EXCEPT !.row = z, !.turned = u] = Along(x, z, w, h, u)
  <2>1. /\ [Along(x, y, w, h, s) EXCEPT !.column = z] = Along(z, y, w, h, s)
        /\ [Along(x, y, w, h, s) EXCEPT !.row = z] = Along(x, z, w, h, s)
    BY DEF Along
  <2>2. /\ [Along(z, y, w, h, s) EXCEPT !.turned = u] = Along(z, y, w, h, u)
        /\ [Along(x, z, w, h, s) EXCEPT !.turned = u] = Along(x, z, w, h, u)
    BY DEF Along
  <2> QED BY <2>1, <2>2, Zenon
<1>4. /\ StepBack("h", b) = IF x < w
           THEN [b EXCEPT !.column = w - 1 - x, !.turned = Toggle(s, "h")] ELSE b
      /\ StepBack("v", b) = IF y < h
           THEN [b EXCEPT !.row = h - 1 - y, !.turned = Toggle(s, "v")] ELSE b
      /\ StepBack("t", b) = Along(y, x, h, w, Toggle(Swap(s), "t"))
  <2> HIDE DEF b
  <2> QED BY <1>1, <1>2, Zenon
<1>5. /\ StepBack("h", b) = IF x < w
           THEN Along(w - 1 - x, y, w, h, Toggle(s, "h")) ELSE Along(x, y, w, h, s)
      /\ StepBack("v", b) = IF y < h
           THEN Along(x, h - 1 - y, w, h, Toggle(s, "v")) ELSE Along(x, y, w, h, s)
  <2>1. /\ [b EXCEPT !.column = w - 1 - x, !.turned = Toggle(s, "h")]
              = Along(w - 1 - x, y, w, h, Toggle(s, "h"))
        /\ [b EXCEPT !.row = h - 1 - y, !.turned = Toggle(s, "v")]
              = Along(x, h - 1 - y, w, h, Toggle(s, "v"))
    BY <1>3
  <2>2. b = Along(x, y, w, h, s)
    OBVIOUS
  <2> HIDE DEF b
  <2> QED BY <1>4, <2>1, <2>2
<1> HIDE DEF b
<1>6. StepBack("h", b) = Along(Flip(x, w), y, w, h, Signs(x, w, s, "h"))
  BY <1>5 DEF Flip, Signs
<1>7. StepBack("v", b) = Along(x, Flip(y, h), w, h, Signs(y, h, s, "v"))
  BY <1>5 DEF Flip, Signs
<1> QED BY <1>4, <1>6, <1>7 DEF b

\* How the signs of a block that had none change.
LEMMA TurnedSets ==
  /\ Toggle({}, "h") = {"h"} /\ Toggle({}, "v") = {"v"} /\ Toggle(Swap({}), "t") = {"t"}
  /\ Toggle(Swap({"h"}), "t") = {"v", "t"} /\ Toggle(Swap({"v"}), "t") = {"h", "t"}
  /\ Toggle({"h"}, "v") = {"h", "v"} /\ Toggle({"v"}, "h") = {"h", "v"}
  /\ Toggle({"t"}, "h") = {"h", "t"} /\ Toggle({"t"}, "v") = {"v", "t"}
  /\ Toggle({"h", "t"}, "v") = {"h", "v", "t"}
<1>1. Swap({}) = {} /\ Swap({"h"}) = {"v"} /\ Swap({"v"}) = {"h"}
  BY DEF Swap
<1>2. /\ Toggle({}, "h") = {"h"} /\ Toggle({}, "v") = {"v"} /\ Toggle({}, "t") = {"t"}
      /\ Toggle({"h"}, "v") = {"h", "v"} /\ Toggle({"h"}, "t") = {"h", "t"}
  BY DEF Toggle
<1>3. /\ Toggle({"v"}, "h") = {"h", "v"} /\ Toggle({"v"}, "t") = {"v", "t"}
      /\ Toggle({"t"}, "h") = {"h", "t"} /\ Toggle({"t"}, "v") = {"v", "t"}
  BY DEF Toggle
<1>4. Toggle({"h", "t"}, "v") = {"h", "v", "t"}
  BY DEF Toggle
<1> QED BY <1>1, <1>2, <1>3, <1>4

\* A place, what has to be read there, and the signs.
IsAt(b, column, row, turned) == b.column = column /\ b.row = row /\ b.turned = turned

LEMMA TakenIs ==
  ASSUME NEW t, NEW x, NEW y, NEW w, NEW h
  PROVE  LET b == Taken(t, x, y, w, h)
         IN /\ t = "none" => IsAt(b, x, y, {})
            /\ t = "flip_h" => IsAt(b, Flip(x, w), y, IF x < w THEN {"h"} ELSE {})
            /\ t = "flip_v" => IsAt(b, x, Flip(y, h), IF y < h THEN {"v"} ELSE {})
            /\ t = "rot_180" =>
                 IsAt(b, Flip(x, w), Flip(y, h),
                      IF x < w THEN IF y < h THEN {"h", "v"} ELSE {"h"}
                      ELSE IF y < h THEN {"v"} ELSE {})
            /\ t = "transpose" => IsAt(b, y, x, {"t"})
            /\ t = "rot_90" => IsAt(b, y, Flip(x, w), IF x < w THEN {"v", "t"} ELSE {"t"})
            /\ t = "rot_270" => IsAt(b, Flip(y, h), x, IF y < h THEN {"h", "t"} ELSE {"t"})
            /\ t = "transverse" =>
                 IsAt(b, Flip(y, h), Flip(x, w),
                      IF x < w THEN IF y < h THEN {"h", "v", "t"} ELSE {"v", "t"}
                      ELSE IF y < h THEN {"h", "t"} ELSE {"t"})
<1> DEFINE b == Taken(t, x, y, w, h)
           fx == Flip(x, w)
           fy == Flip(y, h)
           odd_columns == IF \/ t \in {"flip_h", "rot_180"} /\ x < w
                             \/ t \in {"rot_270", "transverse"} /\ y < h
                          THEN {"h"} ELSE {}
           odd_rows == IF \/ t \in {"flip_v", "rot_180"} /\ y < h
                          \/ t \in {"rot_90", "transverse"} /\ x < w
                       THEN {"v"} ELSE {}
<1>1. /\ b.column = IF t \in {"none", "flip_v"} THEN x
                    ELSE IF t \in {"flip_h", "rot_180"} THEN fx
                    ELSE IF t \in {"transpose", "rot_90"} THEN y ELSE fy
      /\ b.row = IF t \in {"none", "flip_h"} THEN y
                 ELSE IF t \in {"flip_v", "rot_180"} THEN fy
                 ELSE IF t \in {"transpose", "rot_270"} THEN x ELSE fx
      /\ b.turned = odd_columns \cup odd_rows \cup (IF t \in Transposing THEN {"t"} ELSE {})
  BY DEF Taken
<1> HIDE DEF b, fx, fy, odd_columns, odd_rows
<1>2. \A s : s \cup {} \cup {} = s /\ {} \cup s \cup {} = s
  OBVIOUS
<1>3. ASSUME t = "none"
      PROVE  IsAt(b, x, y, {})
  <2>1. odd_columns = ({}) /\ odd_rows = {}
    BY <1>3 DEF odd_columns, odd_rows
  <2>2. b.turned = odd_columns \cup odd_rows \cup {}
    BY <1>3, <1>1 DEF Transposing
  <2>3. b.turned = {}
    BY <1>2, <2>1, <2>2
  <2> QED BY <1>3, <1>1, <2>3 DEF IsAt
<1>4. ASSUME t = "flip_h"
      PROVE  IsAt(b, fx, y, IF x < w THEN {"h"} ELSE {})
  <2>1. odd_columns = (IF x < w THEN {"h"} ELSE {}) /\ odd_rows = {}
    BY <1>4 DEF odd_columns, odd_rows
  <2>2. b.turned = odd_columns \cup odd_rows \cup {}
    BY <1>4, <1>1 DEF Transposing
  <2>3. b.turned = IF x < w THEN {"h"} ELSE {}
    BY <1>2, <2>1, <2>2
  <2> QED BY <1>4, <1>1, <2>3 DEF IsAt
<1>5. ASSUME t = "flip_v"
      PROVE  IsAt(b, x, fy, IF y < h THEN {"v"} ELSE {})
  <2>1. odd_columns = ({}) /\ odd_rows = IF y < h THEN {"v"} ELSE {}
    BY <1>5 DEF odd_columns, odd_rows
  <2>2. b.turned = odd_columns \cup odd_rows \cup {}
    BY <1>5, <1>1 DEF Transposing
  <2>3. b.turned = IF y < h THEN {"v"} ELSE {}
    BY <1>2, <2>1, <2>2
  <2> QED BY <1>5, <1>1, <2>3 DEF IsAt
<1>6. ASSUME t = "rot_180"
      PROVE  IsAt(b, fx, fy, IF x < w THEN IF y < h THEN {"h", "v"} ELSE {"h"}
                    ELSE IF y < h THEN {"v"} ELSE {})
  <2>1. odd_columns = (IF x < w THEN {"h"} ELSE {}) /\ odd_rows = IF y < h THEN {"v"} ELSE {}
    BY <1>6 DEF odd_columns, odd_rows
  <2>2. b.turned = odd_columns \cup odd_rows \cup {}
    BY <1>6, <1>1 DEF Transposing
  <2>3. b.turned = IF x < w THEN IF y < h THEN {"h", "v"} ELSE {"h"}
                  ELSE IF y < h THEN {"v"} ELSE {}
    BY <1>2, <2>1, <2>2
  <2> QED BY <1>6, <1>1, <2>3 DEF IsAt
<1>7. ASSUME t = "transpose"
      PROVE  IsAt(b, y, x, {"t"})
  <2>1. odd_columns = ({}) /\ odd_rows = {}
    BY <1>7 DEF odd_columns, odd_rows
  <2>2. b.turned = odd_columns \cup odd_rows \cup {"t"}
    BY <1>7, <1>1 DEF Transposing
  <2>3. b.turned = {"t"}
    BY <1>2, <2>1, <2>2
  <2> QED BY <1>7, <1>1, <2>3 DEF IsAt
<1>8. ASSUME t = "rot_90"
      PROVE  IsAt(b, y, fx, IF x < w THEN {"v", "t"} ELSE {"t"})
  <2>1. odd_columns = ({}) /\ odd_rows = IF x < w THEN {"v"} ELSE {}
    BY <1>8 DEF odd_columns, odd_rows
  <2>2. b.turned = odd_columns \cup odd_rows \cup {"t"}
    BY <1>8, <1>1 DEF Transposing
  <2>3. b.turned = IF x < w THEN {"v", "t"} ELSE {"t"}
    BY <1>2, <2>1, <2>2
  <2> QED BY <1>8, <1>1, <2>3 DEF IsAt
<1>9. ASSUME t = "rot_270"
      PROVE  IsAt(b, fy, x, IF y < h THEN {"h", "t"} ELSE {"t"})
  <2>1. odd_columns = (IF y < h THEN {"h"} ELSE {}) /\ odd_rows = {}
    BY <1>9 DEF odd_columns, odd_rows
  <2>2. b.turned = odd_columns \cup odd_rows \cup {"t"}
    BY <1>9, <1>1 DEF Transposing
  <2>3. b.turned = IF y < h THEN {"h", "t"} ELSE {"t"}
    BY <1>2, <2>1, <2>2
  <2> QED BY <1>9, <1>1, <2>3 DEF IsAt
<1>10. ASSUME t = "transverse"
      PROVE  IsAt(b, fy, fx, IF x < w THEN IF y < h THEN {"h", "v", "t"} ELSE {"v", "t"}
                    ELSE IF y < h THEN {"h", "t"} ELSE {"t"})
  <2>1. odd_columns = (IF y < h THEN {"h"} ELSE {}) /\ odd_rows = IF x < w THEN {"v"} ELSE {}
    BY <1>10 DEF odd_columns, odd_rows
  <2>2. b.turned = odd_columns \cup odd_rows \cup {"t"}
    BY <1>10, <1>1 DEF Transposing
  <2>3. b.turned = IF x < w THEN IF y < h THEN {"h", "v", "t"} ELSE {"v", "t"}
                  ELSE IF y < h THEN {"h", "t"} ELSE {"t"}
    BY <1>2, <2>1, <2>2
  <2> QED BY <1>10, <1>1, <2>3 DEF IsAt
<1> QED BY <1>3, <1>4, <1>5, <1>6, <1>7, <1>8, <1>9, <1>10 DEF b, fx, fy

LEMMA OriginIs ==
  ASSUME NEW t \in Transforms, NEW g, NEW c, NEW x \in Nat, NEW y \in Nat,
         NEW w \in Nat, NEW h \in Nat, g.cols * c.h = w, g.rows * c.v = h
  PROVE  LET to == Taken(t, x, y, w, h)
         IN IsAt(Origin(Steps[t], g, c, x, y), to.column, to.row, to.turned)
<1> DEFINE base == Along(x, y, w, h, {})
           from == Origin(Steps[t], g, c, x, y)
           to == Taken(t, x, y, w, h)
           fx == Flip(x, w)
           fy == Flip(y, h)
           steps == Steps[t]
           h_only == IF x < w THEN {"h"} ELSE {}
           v_only == IF y < h THEN {"v"} ELSE {}
           h_and_v == IF x < w THEN IF y < h THEN {"h", "v"} ELSE {"h"}
                      ELSE IF y < h THEN {"v"} ELSE {}
           v_turned == IF x < w THEN {"v", "t"} ELSE {"t"}
           h_turned == IF y < h THEN {"h", "t"} ELSE {"t"}
           all_turned == IF x < w THEN IF y < h THEN {"h", "v", "t"} ELSE {"v", "t"}
                         ELSE IF y < h THEN {"h", "t"} ELSE {"t"}
<1>1. from = FoldRight(StepBack, steps, base)
  BY DEF Origin, Along
<1>2. /\ fx = IF x < w THEN w - 1 - x ELSE x
      /\ fy = IF y < h THEN h - 1 - y ELSE y
  BY DEF Flip
<1>3. ASSUME NEW n \in 0 .. 3, DOMAIN steps = 1 .. n
      PROVE  /\ n = 0 => from = base
             /\ n = 1 => from = StepBack(steps[1], base)
             /\ n = 2 => from = StepBack(steps[1], StepBack(steps[2], base))
             /\ n = 3 => from = StepBack(steps[1], StepBack(steps[2], StepBack(steps[3], base)))
  <2> HIDE DEF from, steps, base
  <2> DEFINE third == IF 3 <= n THEN StepBack(steps[3], base) ELSE base
             second == IF 2 <= n THEN StepBack(steps[2], third) ELSE third
  <2>1. FoldRight(StepBack, steps, base) = IF 1 <= n THEN StepBack(steps[1], second) ELSE second
    BY <1>3, BackThroughThree
  <2> QED BY <1>1, <2>1
<1> HIDE DEF fx, fy, from, base
<1>4. /\ Signs(x, w, {}, "h") = h_only /\ Signs(y, h, {}, "v") = v_only
      /\ Toggle(Swap(h_only), "t") = v_turned /\ Signs(y, h, {"t"}, "h") = h_turned
      /\ Signs(y, h, h_only, "v") = h_and_v /\ Signs(x, w, h_turned, "v") = all_turned
  BY TurnedSets, Zenon DEF Signs
<1> HIDE DEF to
<1>5. /\ t = "none" => IsAt(to, x, y, {})
      /\ t = "flip_h" => IsAt(to, fx, y, h_only)
      /\ t = "flip_v" => IsAt(to, x, fy, v_only)
      /\ t = "rot_180" => IsAt(to, fx, fy, h_and_v)
      /\ t = "transpose" => IsAt(to, y, x, {"t"})
      /\ t = "rot_90" => IsAt(to, y, fx, v_turned)
      /\ t = "rot_270" => IsAt(to, fy, x, h_turned)
      /\ t = "transverse" => IsAt(to, fy, fx, all_turned)
  BY TakenIs DEF to, fx, fy
<1>6. StepBack("t", base) = Along(y, x, h, w, {"t"})
  <2>1. StepBack("t", base) = Along(y, x, h, w, Toggle(Swap({}), "t"))
    BY StepsBack DEF base
  <2> QED BY <2>1, TurnedSets, Zenon
<1> HIDE DEF h_only, v_only, h_and_v, v_turned, h_turned, all_turned
<1>7. ASSUME NEW a, NEW b, NEW across, NEW down, NEW s, from = Along(a, b, across, down, s),
             IsAt(to, a, b, s)
      PROVE  IsAt(from, to.column, to.row, to.turned)
  BY <1>7 DEF IsAt, Along
<1>8. SUFFICES IsAt(from, to.column, to.row, to.turned)
  BY DEF from, to
<1>9. CASE t = "none"
  <2>1. steps = <<>>
    BY <1>9 DEF Steps
  <2>2. from = base
    BY <1>3, <2>1
  <2>3. from = Along(x, y, w, h, {})
    BY <1>4, <2>2 DEF base, fx, fy
  <2> QED BY <1>9, <1>5, <1>7, <2>3
<1>10. CASE t = "flip_h"
  <2>1. steps = <<"h">>
    BY <1>10 DEF Steps
  <2>2. from = StepBack("h", base)
    BY <1>3, <2>1
  <2>3. from = Along(fx, y, w, h, h_only)
    BY <1>4, <2>2, StepsBack DEF base, fx, fy
  <2> QED BY <1>10, <1>5, <1>7, <2>3
<1>11. CASE t = "flip_v"
  <2>1. steps = <<"v">>
    BY <1>11 DEF Steps
  <2>2. from = StepBack("v", base)
    BY <1>3, <2>1
  <2>3. from = Along(x, fy, w, h, v_only)
    BY <1>4, <2>2, StepsBack DEF base, fx, fy
  <2> QED BY <1>11, <1>5, <1>7, <2>3
<1>12. CASE t = "transpose"
  <2>1. steps = <<"t">>
    BY <1>12 DEF Steps
  <2>2. from = StepBack("t", base)
    BY <1>3, <2>1
  <2>3. from = Along(y, x, h, w, {"t"})
    BY <1>4, <1>6, <2>2, StepsBack DEF base, fx, fy
  <2> QED BY <1>12, <1>5, <1>7, <2>3
<1>13. CASE t = "rot_90"
  <2>1. steps = <<"t", "h">>
    BY <1>13 DEF Steps
  <2>2. from = StepBack("t", StepBack("h", base))
    BY <1>3, <2>1
  <2>3. from = Along(y, fx, h, w, v_turned)
    BY <1>4, <2>2, StepsBack DEF base, fx, fy
  <2> QED BY <1>13, <1>5, <1>7, <2>3
<1>14. CASE t = "rot_270"
  <2>1. steps = <<"h", "t">>
    BY <1>14 DEF Steps
  <2>2. from = StepBack("h", StepBack("t", base))
    BY <1>3, <2>1
  <2>3. from = Along(fy, x, h, w, h_turned)
    BY <1>4, <1>6, <2>2, StepsBack DEF base, fx, fy
  <2> QED BY <1>14, <1>5, <1>7, <2>3
<1>15. CASE t = "rot_180"
  <2>1. steps = <<"v", "h">>
    BY <1>15 DEF Steps
  <2>2. from = StepBack("v", StepBack("h", base))
    BY <1>3, <2>1
  <2>3. from = Along(fx, fy, w, h, h_and_v)
    BY <1>4, <2>2, StepsBack DEF base, fx, fy
  <2> QED BY <1>15, <1>5, <1>7, <2>3
<1>16. CASE t = "transverse"
  <2>1. steps = <<"v", "h", "t">>
    BY <1>16 DEF Steps
  <2>2. from = StepBack("v", StepBack("h", StepBack("t", base)))
    BY <1>3, <2>1
  <2>3. from = Along(fy, fx, h, w, all_turned)
    BY <1>4, <1>6, <2>2, StepsBack DEF base, fx, fy
  <2> QED BY <1>16, <1>5, <1>7, <2>3
<1> QED BY <1>9, <1>10, <1>11, <1>12, <1>13, <1>14, <1>15, <1>16 DEF Transforms

\* A flip is undone by itself, and moves nothing out of what can be mirrored.
LEMMA FlipTwice ==
  ASSUME NEW x \in Nat, NEW w \in Nat
  PROVE  /\ Flip(x, w) \in Nat /\ Flip(Flip(x, w), w) = x /\ (Flip(x, w) < w <=> x < w)
         /\ Flip(x, w) = x \/ (Flip(x, w) < w /\ x < w)
BY DEF Flip

\* Two sides of an image, exchanged when it is transposed.
Turn(turned, a, b) == IF turned THEN b ELSE a

\* What the inverse transformation reads at q, the transformation wrote there from q.
LEMMA TakenBack ==
  ASSUME NEW t \in Transforms, NEW x \in Nat, NEW y \in Nat, NEW w \in Nat, NEW h \in Nat
  PROVE  LET turned == t \in Transposing
             column == Turn(turned, x, y)
             row == Turn(turned, y, x)
             b == Taken(Undoing[t], column, row, Turn(turned, w, h), Turn(turned, h, w))
             a == Taken(t, b.column, b.row, w, h)
         IN /\ Undoing[t] \in Transforms
            /\ b.column \in {x, Flip(x, w)} /\ b.row \in {y, Flip(y, h)}
            /\ IsAt(a, column, row, IF turned THEN Swap(b.turned) ELSE b.turned)
<1> DEFINE turned == t \in Transposing
           column == Turn(turned, x, y)
           row == Turn(turned, y, x)
           b == Taken(Undoing[t], column, row, Turn(turned, w, h), Turn(turned, h, w))
           a == Taken(t, b.column, b.row, w, h)
           fx == Flip(x, w)
           fy == Flip(y, h)
<1>1. /\ fx \in Nat /\ fy \in Nat /\ Flip(fx, w) = x /\ Flip(fy, h) = y
      /\ (fx < w <=> x < w) /\ (fy < h <=> y < h)
  BY FlipTwice
<1>2. Undoing[t] = CASE t = "rot_90" -> "rot_270" [] t = "rot_270" -> "rot_90" [] OTHER -> t
  <2>1. t \in DOMAIN Steps
    BY DEF Transforms, Steps
  <2> QED BY <2>1, Zenon DEF Undoing
<1>3. /\ t = "rot_90" => Undoing[t] = "rot_270"
      /\ t = "rot_270" => Undoing[t] = "rot_90"
      /\ t \notin {"rot_90", "rot_270"} => Undoing[t] = t
  BY <1>2, Zenon
<1> HIDE DEF fx, fy
<1>4. /\ Swap({"t"}) = {"t"} /\ Swap({"v", "t"}) = {"h", "t"} /\ Swap({"h", "t"}) = {"v", "t"}
      /\ Swap({"h", "v", "t"}) = {"h", "v", "t"}
  BY DEF Swap
<1> DEFINE Goal == /\ b.column \in {x, fx} /\ b.row \in {y, fy}
                   /\ IsAt(a, column, row, IF turned THEN Swap(b.turned) ELSE b.turned)
<1>5. ASSUME NEW bx, NEW by, NEW u, NEW v, IsAt(b, bx, by, u),
             bx \in {x, fx}, by \in {y, fy},
             IsAt(Taken(t, bx, by, w, h), column, row, v), v = IF turned THEN Swap(u) ELSE u
      PROVE  Goal
  <2>1. b.column = bx /\ b.row = by /\ b.turned = u
    BY <1>5 DEF IsAt
  <2> HIDE DEF b, column, row
  <2> QED BY <1>5, <2>1
<1>6. ASSUME t \notin Transposing  PROVE Goal
  <2>1. b = Taken(t, x, y, w, h) /\ column = x /\ row = y /\ ~turned
    BY <1>3, <1>6 DEF Turn, Transposing
  <2> HIDE DEF b, column, row, turned, Goal
  <2>2. CASE t = "none"
    <3> DEFINE u == {}
               v == {}
    <3>1. IsAt(b, x, y, u)
      BY <2>1, <2>2, TakenIs DEF fx, fy
    <3>2. IsAt(Taken(t, x, y, w, h), x, y, v)
      BY <1>1, <2>2, TakenIs
    <3>3. u = v
      BY <1>1
    <3> HIDE DEF u, v
    <3> QED BY <1>5, <2>1, <3>1, <3>2, <3>3
  <2>3. CASE t = "flip_h"
    <3> DEFINE u == IF x < w THEN {"h"} ELSE {}
               v == IF fx < w THEN {"h"} ELSE {}
    <3>1. IsAt(b, fx, y, u)
      BY <2>1, <2>3, TakenIs DEF fx, fy
    <3>2. IsAt(Taken(t, fx, y, w, h), x, y, v)
      BY <1>1, <2>3, TakenIs
    <3>3. u = v
      BY <1>1
    <3> HIDE DEF u, v
    <3> QED BY <1>5, <2>1, <3>1, <3>2, <3>3
  <2>4. CASE t = "flip_v"
    <3> DEFINE u == IF y < h THEN {"v"} ELSE {}
               v == IF fy < h THEN {"v"} ELSE {}
    <3>1. IsAt(b, x, fy, u)
      BY <2>1, <2>4, TakenIs DEF fx, fy
    <3>2. IsAt(Taken(t, x, fy, w, h), x, y, v)
      BY <1>1, <2>4, TakenIs
    <3>3. u = v
      BY <1>1
    <3> HIDE DEF u, v
    <3> QED BY <1>5, <2>1, <3>1, <3>2, <3>3
  <2>5. CASE t = "rot_180"
    <3> DEFINE u == IF x < w THEN IF y < h THEN {"h", "v"} ELSE {"h"}
                        ELSE IF y < h THEN {"v"} ELSE {}
               v == IF fx < w THEN IF fy < h THEN {"h", "v"} ELSE {"h"}
                        ELSE IF fy < h THEN {"v"} ELSE {}
    <3>1. IsAt(b, fx, fy, u)
      BY <2>1, <2>5, TakenIs DEF fx, fy
    <3>2. IsAt(Taken(t, fx, fy, w, h), x, y, v)
      BY <1>1, <2>5, TakenIs
    <3>3. u = v
      BY <1>1
    <3> HIDE DEF u, v
    <3> QED BY <1>5, <2>1, <3>1, <3>2, <3>3
  <2> QED BY <1>6, <2>2, <2>3, <2>4, <2>5 DEF Transforms, Transposing
<1>7. ASSUME t \in Transposing  PROVE Goal
  <2>1. b = Taken(Undoing[t], y, x, h, w) /\ column = y /\ row = x /\ turned
    BY <1>7 DEF Turn
  <2> HIDE DEF b, column, row, turned, Goal
  <2>2. CASE t = "transpose"
    <3> DEFINE u == {"t"}
               v == {"t"}
    <3>1. b = Taken("transpose", y, x, h, w)
      BY <1>3, <2>1, <2>2
    <3>2. IsAt(b, x, y, u)
      BY <3>1, TakenIs DEF fx, fy
    <3>3. IsAt(Taken(t, x, y, w, h), y, x, v)
      BY <1>1, <2>2, TakenIs
    <3>4. v = Swap(u)
      BY <1>1, <1>4
    <3> HIDE DEF u, v
    <3> QED BY <1>5, <2>1, <3>2, <3>3, <3>4
  <2>3. CASE t = "rot_90"
    <3> DEFINE u == IF x < w THEN {"h", "t"} ELSE {"t"}
               v == IF fx < w THEN {"v", "t"} ELSE {"t"}
    <3>1. b = Taken("rot_270", y, x, h, w)
      BY <1>3, <2>1, <2>3
    <3>2. IsAt(b, fx, y, u)
      BY <3>1, TakenIs DEF fx, fy
    <3>3. IsAt(Taken(t, fx, y, w, h), y, x, v)
      BY <1>1, <2>3, TakenIs
    <3>4. v = Swap(u)
      BY <1>1, <1>4
    <3> HIDE DEF u, v
    <3> QED BY <1>5, <2>1, <3>2, <3>3, <3>4
  <2>4. CASE t = "rot_270"
    <3> DEFINE u == IF y < h THEN {"v", "t"} ELSE {"t"}
               v == IF fy < h THEN {"h", "t"} ELSE {"t"}
    <3>1. b = Taken("rot_90", y, x, h, w)
      BY <1>3, <2>1, <2>4
    <3>2. IsAt(b, x, fy, u)
      BY <3>1, TakenIs DEF fx, fy
    <3>3. IsAt(Taken(t, x, fy, w, h), y, x, v)
      BY <1>1, <2>4, TakenIs
    <3>4. v = Swap(u)
      BY <1>1, <1>4
    <3> HIDE DEF u, v
    <3> QED BY <1>5, <2>1, <3>2, <3>3, <3>4
  <2>5. CASE t = "transverse"
    <3> DEFINE u == IF y < h THEN IF x < w THEN {"h", "v", "t"} ELSE {"v", "t"}
                        ELSE IF x < w THEN {"h", "t"} ELSE {"t"}
               v == IF fx < w THEN IF fy < h THEN {"h", "v", "t"} ELSE {"v", "t"}
                        ELSE IF fy < h THEN {"h", "t"} ELSE {"t"}
    <3>1. b = Taken("transverse", y, x, h, w)
      BY <1>3, <2>1, <2>5
    <3>2. IsAt(b, fx, fy, u)
      BY <3>1, TakenIs DEF fx, fy
    <3>3. IsAt(Taken(t, fx, fy, w, h), y, x, v)
      BY <1>1, <2>5, TakenIs
    <3>4. v = Swap(u)
      BY <1>1, <1>4
    <3> HIDE DEF u, v
    <3> QED BY <1>5, <2>1, <3>2, <3>3, <3>4
  <2> QED BY <1>7, <2>2, <2>3, <2>4, <2>5 DEF Transposing
<1>8. Undoing[t] \in Transforms
  BY <1>3 DEF Transforms
<1> QED BY <1>6, <1>7, <1>8 DEF fx, fy, Goal

-------------------------------------------------------------------------------
(* What a transformation promises *)

\* Where each block of the destination was read.
LEMMA BlockRead ==
  ASSUME SizesInv, TransformInv, stage = "transformed", NEW i \in DOMAIN image,
         NEW p \in Written(info.comp_info[i], enc.sized[i])
  PROVE  LET t == info.request.transform
             c == info.comp_info[i]
             from == PlaceOf(t, Geometry, c, p[1], p[2])
         IN /\ image[i][p].column = from.column /\ image[i][p].strip.row = from.row
            /\ image[i][p].turned = from.turned
<1> DEFINE t == info.request.transform
           c == info.comp_info[i]
           g == Geometry
           l == RegionSize
           k == ImageSize
<1>1. i \in DOMAIN info.comp_info /\ image[i][p] = Moved(t, g, c, p[1], p[2])
  BY DEF TransformInv, ImageMoved
<1>2. GoodGeometry(g, c, l, k) /\ Placed(p, c) /\ t \in Transforms
  BY <1>1, WrittenPlaces, TransformedFacts, TransformAssumption
<1>3. Reads(Moved(t, g, c, p[1], p[2]), t, PlaceOf(t, g, c, p[1], p[2]), k[1] * c.h, k[2] * c.v)
  BY <1>2, MovedReads DEF Placed
<1> QED BY <1>1, <1>3 DEF Reads

\* The numbers of a geometry.
LEMMA GeometryNumbers ==
  ASSUME NEW g, NEW c, NEW l, NEW k, GoodGeometry(g, c, l, k)
  PROVE  /\ c.h \in Nat \ {0} /\ c.v \in Nat \ {0}
         /\ g.x \in Nat /\ g.y \in Nat /\ g.cols \in Nat /\ g.rows \in Nat
         /\ l[1] \in Nat /\ l[2] \in Nat
         /\ g.x * c.h \in Nat /\ g.y * c.v \in Nat /\ g.cols * c.h \in Nat /\ g.rows * c.v \in Nat
<1>1. c.h \in Nat \ {0} /\ c.v \in Nat \ {0}
  <2> DEFINE h == c.h
             v == c.v
  <2>1. h \in 1 .. 4 /\ v \in 1 .. 4
    BY DEF GoodGeometry, Component, MAX_SAMP_FACTOR
  <2> HIDE DEF h, v
  <2>2. h \in Nat \ {0} /\ v \in Nat \ {0}
    BY <2>1
  <2> QED BY <2>2 DEF h, v
<1>2. /\ g.x \in Nat /\ g.y \in Nat /\ g.cols \in Nat /\ g.rows \in Nat
      /\ l[1] \in Nat /\ l[2] \in Nat
  BY DEF GoodGeometry, Positive
<1>3. \A a, b \in Nat : a * b \in Nat
  OBVIOUS
<1> QED BY <1>1, <1>2, <1>3

LEMMA SequenceRight == SizesInv /\ TransformInv /\ stage = "transformed" => IsItsSequence(Geometry)
<1> SUFFICES ASSUME SizesInv, TransformInv, stage = "transformed", NEW i \in DOMAIN image,
                    NEW p \in RealBlocks(i)
             PROVE  LET c == info.comp_info[i]
                        g == Geometry
                        from == Origin(Steps[info.request.transform], g, c,
                                       p[1] + g.x * c.h, p[2] + g.y * c.v)
                        b == image[i][p]
                    IN b.column = from.column /\ b.strip.row = from.row /\ b.turned = from.turned
  BY DEF IsItsSequence
<1> DEFINE t == info.request.transform
           c == info.comp_info[i]
           g == Geometry
           x == p[1] + g.x * c.h
           y == p[2] + g.y * c.v
           w == g.cols * c.h
           h == g.rows * c.v
           from == Origin(Steps[t], g, c, x, y)
           to == Taken(t, x, y, w, h)
<1>1. i \in DOMAIN info.comp_info
  BY DEF TransformInv, ImageMoved
<1>2. /\ p \in Written(c, enc.sized[i]) /\ Placed(p, c) /\ t \in Transforms
      /\ GoodGeometry(g, c, RegionSize, ImageSize)
  BY <1>1, WrittenPlaces, TransformedFacts, TransformAssumption
<1>3. x \in Nat /\ y \in Nat /\ w \in Nat /\ h \in Nat
  <2>1. g.x * c.h \in Nat /\ g.y * c.v \in Nat /\ w \in Nat /\ h \in Nat
    BY <1>2, GeometryNumbers
  <2>2. p[1] \in Nat /\ p[2] \in Nat
    BY <1>2 DEF Placed
  <2> QED BY <2>1, <2>2
<1>4. IsAt(from, to.column, to.row, to.turned)
  BY <1>2, <1>3, OriginIs
<1>5. /\ image[i][p].column = to.column /\ image[i][p].strip.row = to.row
      /\ image[i][p].turned = to.turned
  BY <1>2, BlockRead DEF PlaceOf
<1> QED BY <1>4, <1>5 DEF IsAt

LEMMA NothingKept == SizesInv /\ TransformInv /\ stage = "transformed" => NoBlockKept(Geometry)
<1> SUFFICES ASSUME SizesInv, TransformInv, stage = "transformed", NEW i \in DOMAIN image,
                    NEW p \in RealBlocks(i)
             PROVE  LET o == info.request
                        c == info.comp_info[i]
                    IN /\ o.perfect \/ (o.trim /\ info.w.output >= info.w.unit) =>
                            (o.transform \in KeepRight => MirrorableColumn(Geometry, c, p[1]))
                       /\ o.perfect \/ (o.trim /\ info.h.output >= info.h.unit) =>
                            (o.transform \in KeepBottom => MirrorableRow(Geometry, c, p[2]))
  BY DEF NoBlockKept
<1> DEFINE o == info.request
           c == info.comp_info[i]
           g == Geometry
           l == RegionSize
           x == p[1]
           y == p[2]
<1>1. i \in DOMAIN info.comp_info
  BY DEF TransformInv, ImageMoved
<1>2. Placed(p, c) /\ GoodGeometry(g, c, l, ImageSize)
  BY <1>1, WrittenPlaces
<1>3. /\ x \in Nat /\ y \in Nat /\ x < l[1] * c.h /\ y < l[2] * c.v
      /\ c.h \in Nat \ {0} /\ c.v \in Nat \ {0} /\ l[1] \in Nat /\ l[2] \in Nat
      /\ g.x \in Nat /\ g.y \in Nat /\ g.cols \in Nat /\ g.rows \in Nat
  BY <1>2, GeometryNumbers DEF Placed
<1>4. ASSUME NEW n \in Nat, NEW m \in Nat, NEW whole \in Nat, NEW f \in Nat \ {0}, NEW a \in Nat,
             a < m * f, n + m <= whole
      PROVE  n * f + a < whole * f
  <2>1. (n + m) * f <= whole * f
    BY <1>4
  <2>2. (n + m) * f = n * f + m * f /\ n * f \in Nat /\ m * f \in Nat /\ whole * f \in Nat
    BY <1>4
  <2> QED BY <1>4, <2>1, <2>2
<1>5. /\ g.cols = info.w.full \div info.w.unit /\ g.x = info.w.offset
      /\ g.rows = info.h.full \div info.h.unit /\ g.y = info.h.offset
  BY TransformedFacts
<1>6. /\ l[1] = jdiv_round_up(info.w.output, info.w.unit)
      /\ l[2] = jdiv_round_up(info.h.output, info.h.unit)
  BY DEF RegionSize
<1>7. /\ (o.perfect \/ (o.trim /\ info.w.output >= info.w.unit)) /\ o.transform \in KeepRight
           => InWholeMCUs(info.w)
      /\ (o.perfect \/ (o.trim /\ info.h.output >= info.h.unit)) /\ o.transform \in KeepBottom
           => InWholeMCUs(info.h)
  BY DEF TransformInv, RegionRight, Turning
<1>8. InWholeMCUs(info.w) => g.x + l[1] <= g.cols
  BY <1>5, <1>6 DEF InWholeMCUs
<1>9. InWholeMCUs(info.h) => g.y + l[2] <= g.rows
  BY <1>5, <1>6 DEF InWholeMCUs
<1> HIDE DEF c, g, l, x, y, o
<1>10. InWholeMCUs(info.w) => MirrorableColumn(g, c, x)
  BY <1>3, <1>4, <1>8 DEF MirrorableColumn, x_crop_blocks, comp_width
<1>11. InWholeMCUs(info.h) => MirrorableRow(g, c, y)
  BY <1>3, <1>4, <1>9 DEF MirrorableRow, y_crop_blocks, comp_height
<1> QED BY <1>7, <1>10, <1>11 DEF o, c, g, x, y

\* A region as large as the image is all of it.
LEMMA NothingCropped ==
  ASSUME NEW a, InImage(a), a.output = a.full
  PROVE  a.offset = 0
<1> DEFINE full == a.full
           unit == a.unit
           offset == a.offset
<1>1. full \in Nat /\ unit \in Nat \ {0} /\ offset \in Nat /\ offset * unit + full <= full
  BY DEF InImage, Directions, Positive
<1> HIDE DEF full, unit, offset
<1>2. offset * unit \in Nat
  BY <1>1
<1>3. offset * unit <= 0 * unit
  BY <1>1, <1>2
<1>4. offset <= 0
  BY <1>1, <1>3, DropFactor
<1> QED BY <1>1, <1>4 DEF offset

\* The whole iMCUs of an image are among its blocks.
LEMMA WholeMCUsAreBlocks ==
  ASSUME NEW n \in Nat \ {0}, NEW f \in Nat \ {0}, NEW M \in Nat \ {0}, NEW b \in Nat \ {0}
  PROVE  (n \div (M * b)) * f <= Blocks(n, f, M, b)
<1> DEFINE unit == M * b
           q == n \div unit
<1>1. unit \in Nat \ {0}
  BY PositiveProduct
<1>2. q \in Nat /\ q * unit <= n
  <2> HIDE DEF unit
  <2> QED BY <1>1, DivIs, DivBelow
<1>3. n * f \in Nat \ {0}
  BY PositiveProduct
<1> DEFINE B == jdiv_round_up(n * f, unit)
<1>4. B \in Nat \ {0} /\ n * f <= B * unit
  <2> HIDE DEF unit
  <2> QED BY <1>1, <1>3, RoundUpIs
<1>5. Blocks(n, f, M, b) = B
  BY DEF Blocks
<1> HIDE DEF unit, q, B
<1>6. (q * unit) * f <= n * f
  BY <1>1, <1>2
<1>7. (q * unit) * f = (q * f) * unit /\ q * f \in Int /\ (q * f) * unit \in Int /\ B * unit \in Int
  BY <1>1, <1>2, <1>4
<1>8. (q * f) * unit <= B * unit
  BY <1>3, <1>4, <1>6, <1>7
<1>9. q * f <= B
  BY <1>1, <1>4, <1>7, <1>8, DropFactor
<1> QED BY <1>5, <1>9 DEF q, unit

\* Without cropping, a real block is mirrored into a real block.
LEMMA MirroredIsReal ==
  ASSUME SizesInv, TransformInv, stage = "transformed",
         info.w.output = info.w.full, info.h.output = info.h.full,
         NEW i \in DOMAIN info.comp_info, NEW p \in RealBlocks(i),
         NEW x \in {p[1], Flip(p[1], Geometry.cols * info.comp_info[i].h)},
         NEW y \in {p[2], Flip(p[2], Geometry.rows * info.comp_info[i].v)}
  PROVE  <<x, y>> \in RealBlocks(i)
<1> DEFINE c == info.comp_info[i]
           s == enc.sized[i]
           g == Geometry
           size == dec.min_DCT_scaled_size
           maxh == MaxH(info.comp_info)
           maxv == MaxV(info.comp_info)
           across == s.width_in_blocks
           down == s.height_in_blocks
           w == g.cols * c.h
           h == g.rows * c.v
           p1 == p[1]
           p2 == p[2]
           ow == info.w.output
           oh == info.h.output
<1>1. /\ info.comp_info \in ComponentSeqs /\ InImage(info.w) /\ InImage(info.h)
      /\ info.w.unit = maxh * size /\ info.h.unit = maxv * size /\ size \in 1 .. 16
      /\ g.cols = ow \div info.w.unit /\ g.rows = oh \div info.h.unit
  BY TransformedFacts
<1>2. /\ c.h \in Nat \ {0} /\ c.v \in Nat \ {0} /\ maxh \in Nat \ {0} /\ maxv \in Nat \ {0}
  BY <1>1, ComponentNumbers
<1>3. ow \in Nat \ {0} /\ oh \in Nat \ {0} /\ size \in Nat \ {0}
  <2>1. ow \in Nat \ {0} /\ oh \in Nat \ {0}
    BY <1>1 DEF InImage, Directions, Positive
  <2> QED BY <1>1, <2>1
<1>4. across = Blocks(ow, c.h, maxh, size) /\ down = Blocks(oh, c.v, maxv, size)
  BY DEF TransformInv, DestinationSized
<1>5. w \in Nat /\ h \in Nat
  <2>1. GoodGeometry(g, c, RegionSize, ImageSize)
    BY WrittenPlaces
  <2> QED BY <2>1, GeometryNumbers
<1>6. RealBlocks(i) = (0 .. across - 1) \X (0 .. down - 1)
  BY DEF RealBlocks
<1> HIDE DEF c, s, g, maxh, maxv, across, down, size, ow, oh
<1>7. across \in Nat /\ down \in Nat /\ w <= across /\ h <= down
  BY <1>1, <1>2, <1>3, <1>4, WholeMCUsAreBlocks, BlocksCover
<1>8. p1 \in Nat /\ p2 \in Nat /\ p1 < across /\ p2 < down
  BY <1>6, <1>7
<1>9. x \in {p1, Flip(p1, w)} /\ y \in {p2, Flip(p2, h)}
  BY DEF g, c
<1> HIDE DEF w, h, p1, p2
<1>10. Flip(p1, w) \in 0 .. across - 1 /\ Flip(p2, h) \in 0 .. down - 1
  BY <1>5, <1>7, <1>8 DEF Flip
<1>11. x \in 0 .. across - 1 /\ y \in 0 .. down - 1
  BY <1>7, <1>8, <1>9, <1>10
<1> QED BY <1>6, <1>11

\* The geometry and a component of the transposed image.
LEMMA TurnedAround ==
  ASSUME NEW g, NEW c, NEW l, NEW k, GoodGeometry(g, c, l, k), g.x = 0, g.y = 0
  PROVE  LET gb == [g EXCEPT !.cols = g.rows, !.rows = g.cols]
             cb == [c EXCEPT !.h = c.v, !.v = c.h]
         IN /\ GoodGeometry(gb, cb, <<l[2], l[1]>>, <<k[2], k[1]>>)
            /\ cb.h = c.v /\ cb.v = c.h
            /\ gb.cols = g.rows /\ gb.rows = g.cols /\ gb.x = 0 /\ gb.y = 0
<1> DEFINE gb == [g EXCEPT !.cols = g.rows, !.rows = g.cols]
           cb == [c EXCEPT !.h = c.v, !.v = c.h]
<1>1. /\ g \in [cols : Nat, rows : Nat, x : Nat, y : Nat]
      /\ l \in Positive \X Positive /\ k \in Positive \X Positive
      /\ g.cols <= k[1] /\ l[1] <= k[1] /\ g.rows <= k[2] /\ l[2] <= k[2]
  BY DEF GoodGeometry, Positive
<1>2. /\ gb \in [cols : Nat, rows : Nat, x : Nat, y : Nat]
      /\ gb.cols = g.rows /\ gb.rows = g.cols /\ gb.x = 0 /\ gb.y = 0
  BY <1>1
<1>3. c \in [h : 1 .. 4, v : 1 .. 4, q : 0 .. NUM_QUANT_TBLS - 1]
  BY DEF GoodGeometry, Component, MAX_SAMP_FACTOR
<1>4. cb \in Component /\ cb.h = c.v /\ cb.v = c.h
  BY <1>3 DEF Component, MAX_SAMP_FACTOR
<1> HIDE DEF gb, cb
<1>5. <<l[2], l[1]>> \in Positive \X Positive /\ <<k[2], k[1]>> \in Positive \X Positive
  BY <1>1
<1>6. l[1] \in Nat /\ l[2] \in Nat
  BY <1>1 DEF Positive
<1>7. GoodGeometry(gb, cb, <<l[2], l[1]>>, <<k[2], k[1]>>)
  BY <1>1, <1>2, <1>4, <1>5, <1>6 DEF GoodGeometry
<1> QED BY <1>2, <1>4, <1>7 DEF gb, cb

LEMMA ReversibleRight == SizesInv /\ TransformInv /\ stage = "transformed" => IsReversible(Geometry)
<1> DEFINE g == Geometry
           t == info.request.transform
           back == Undoing[t]
           turned == t \in Transposing
           gb == IF turned THEN [g EXCEPT !.cols = g.rows, !.rows = g.cols] ELSE g
           l == RegionSize
           k == ImageSize
<1> SUFFICES ASSUME SizesInv, TransformInv, stage = "transformed",
                    info.w.output = info.w.full, info.h.output = info.h.full,
                    NEW i \in DOMAIN image, NEW p \in RealBlocks(i)
             PROVE  LET c == info.comp_info[i]
                        cb == IF turned THEN [c EXCEPT !.h = c.v, !.v = c.h] ELSE c
                        q == IF turned THEN <<p[2], p[1]>> ELSE p
                        b == Moved(back, gb, cb, q[1], q[2])
                        a == image[i][<<b.column, b.strip.row>>]
                    IN /\ a.column = q[1] /\ a.strip.row = q[2]
                       /\ a.turned = IF turned THEN Swap(b.turned) ELSE b.turned
  BY DEF IsReversible
<1> DEFINE c == info.comp_info[i]
           cb == IF turned THEN [c EXCEPT !.h = c.v, !.v = c.h] ELSE c
           q == IF turned THEN <<p[2], p[1]>> ELSE p
           b == Moved(back, gb, cb, q[1], q[2])
           a == image[i][<<b.column, b.strip.row>>]
           x == p[1]
           y == p[2]
           w == g.cols * c.h
           h == g.rows * c.v
           column == Turn(turned, x, y)
           row == Turn(turned, y, x)
           lb == Turn(turned, l, <<l[2], l[1]>>)
           kb == Turn(turned, k, <<k[2], k[1]>>)
           from == Taken(back, column, row, Turn(turned, w, h), Turn(turned, h, w))
           to == Taken(t, from.column, from.row, w, h)
<1>1. i \in DOMAIN info.comp_info
  BY DEF TransformInv, ImageMoved
<1>2. Placed(p, c) /\ GoodGeometry(g, c, l, k) /\ t \in Transforms
  BY <1>1, WrittenPlaces, TransformedFacts, TransformAssumption
<1>3. g.x = 0 /\ g.y = 0
  BY TransformedFacts, NothingCropped
<1>4. /\ c.h \in Nat \ {0} /\ c.v \in Nat \ {0} /\ w \in Nat /\ h \in Nat
      /\ g.cols \in Nat /\ g.rows \in Nat
  BY <1>2, GeometryNumbers
<1>5. x \in Nat /\ y \in Nat /\ x < l[1] * c.h /\ y < l[2] * c.v
  BY <1>2 DEF Placed
<1>6. q[1] = column /\ q[2] = row
  BY DEF Turn
<1>7. /\ back \in Transforms
      /\ from.column \in {x, Flip(x, w)} /\ from.row \in {y, Flip(y, h)}
      /\ IsAt(to, column, row, IF turned THEN Swap(from.turned) ELSE from.turned)
  <2> HIDE DEF w, h, x, y
  <2> QED BY <1>2, <1>4, <1>5, TakenBack
<1>8. /\ GoodGeometry(gb, cb, lb, kb)
      /\ cb.h = Turn(turned, c.h, c.v) /\ cb.v = Turn(turned, c.v, c.h)
      /\ gb.cols = Turn(turned, g.cols, g.rows) /\ gb.rows = Turn(turned, g.rows, g.cols)
      /\ gb.x = 0 /\ gb.y = 0
  <2> HIDE DEF g, c, l, k
  <2> QED BY <1>2, <1>3, TurnedAround DEF Turn
<1>9. column < lb[1] * cb.h /\ row < lb[2] * cb.v /\ column \in Nat /\ row \in Nat
  <2> HIDE DEF c, l, x, y, cb
  <2> QED BY <1>5, <1>8 DEF Turn
<1>10. Reads(b, back, PlaceOf(back, gb, cb, column, row), kb[1] * cb.h, kb[2] * cb.v)
  <2> HIDE DEF back, gb, cb, lb, kb, column, row
  <2> QED BY <1>6, <1>7, <1>8, <1>9, MovedReads
<1>11. PlaceOf(back, gb, cb, column, row) = from
  <2>1. /\ gb.cols * cb.h = Turn(turned, w, h) /\ gb.rows * cb.v = Turn(turned, h, w)
    <3> HIDE DEF gb, cb, g, c
    <3> QED BY <1>8 DEF Turn
  <2>2. column + gb.x * cb.h = column /\ row + gb.y * cb.v = row
    <3>1. cb.h \in Nat /\ cb.v \in Nat
      BY <1>4, <1>8 DEF Turn
    <3> HIDE DEF gb, cb, column, row
    <3> QED BY <1>8, <1>9, <3>1
  <2> QED BY <2>1, <2>2 DEF PlaceOf
<1> HIDE DEF from, b
<1>12. b.column = from.column /\ b.strip.row = from.row /\ b.turned = from.turned
  BY <1>10, <1>11, Zenon DEF Reads
<1>13. <<from.column, from.row>> \in Written(c, enc.sized[i])
  BY <1>1, <1>7, MirroredIsReal, WrittenPlaces
<1>14. PlaceOf(t, g, c, from.column, from.row) = to
  <2>1. from.column \in Nat /\ from.row \in Nat
    BY <1>4, <1>5, <1>7, FlipTwice
  <2>2. from.column + g.x * c.h = from.column /\ from.row + g.y * c.v = from.row
    <3> HIDE DEF g, c
    <3> QED BY <1>3, <1>4, <2>1
  <2> QED BY <2>2 DEF PlaceOf
<1>15. a.column = to.column /\ a.strip.row = to.row /\ a.turned = to.turned
  BY <1>12, <1>13, <1>14, BlockRead
<1> HIDE DEF a, to
<1> QED BY <1>6, <1>7, <1>12, <1>15 DEF IsAt, a, b, gb, g, back

\* What usage.txt and transupp.h promise of the transformations: each is its flips and
\* transpositions, cropping takes a part, the inverse gives the image back, and
\* nothing is left behind where the caller asked for that.
THEOREM TransformedAsDescribed == TSpec => []TransformRight
<1>1. SizesInv /\ TransformInv => TransformRight
  BY SequenceRight, ReversibleRight, NothingKept DEF TransformRight
<1> QED BY <1>1, TransformCorrect, PTL
===============================================================================
