-------------------------- MODULE CompressRowsProofs --------------------------
(***************************************************************************)
(* Every MCU the entropy encoder gets is the next one of the scan, made of *)
(* the blocks of the image, for images of any size, any sampling factors,  *)
(* scans and sequences of calls: theorems about CompressRows.              *)
(***************************************************************************)
EXTENDS CompressRows, NumberLemmas, SequenceTheorems

-------------------------------------------------------------------------------
(* The geometry of an image *)

Components == DOMAIN job.comps

Sized == job \in Jobs /\ size \in [height : Nat \ {0}, width : Nat \ {0}]

LEMMA JobTypes ==
  ASSUME Sized
  PROVE  /\ min_DCT \in 1 .. 16 /\ 1 \in Components
         /\ \A c \in Components :
              /\ comp(c).h \in 1 .. 4 /\ comp(c).v \in 1 .. 4
              /\ comp(c).dct_h \in {min_DCT, 2 * min_DCT}
              /\ comp(c).dct_v \in {min_DCT, 2 * min_DCT}
         /\ job.smoothing \in BOOLEAN /\ job.optimize \in BOOLEAN
         /\ Len(job.scans) \in Nat \ {0} /\ DOMAIN job.scans = 1 .. Len(job.scans)
         /\ \A s \in DOMAIN job.scans :
              /\ Len(job.scans[s]) \in Nat \ {0}
              /\ DOMAIN job.scans[s] = 1 .. Len(job.scans[s])
              /\ \A i \in DOMAIN job.scans[s] : job.scans[s][i] \in Components
         /\ job.MaxLines \subseteq Nat \ {0}
<1>1. /\ job.D \in 1 .. 16
      /\ job.comps \in Seq(Sampling(job.D)) \ {<<>>}
      /\ {job.smoothing, job.optimize} \subseteq BOOLEAN
      /\ job.scans \in Seq(Seq(DOMAIN job.comps) \ {<<>>}) \ {<<>>}
      /\ job.Heights \cup job.Widths \cup job.MaxLines \subseteq Nat \ {0}
  BY JobsAssumption DEF Sized, JobsAssumption
<1>2. 1 \in Components
  <2>1. Len(job.comps) \in Nat \ {0} /\ DOMAIN job.comps = 1 .. Len(job.comps)
    BY <1>1
  <2> QED BY <2>1 DEF Components
<1>3. \A c \in Components : comp(c) \in Sampling(job.D)
  BY <1>1 DEF Components, comp
<1>4. \A c \in Components :
        /\ comp(c).h \in 1 .. 4 /\ comp(c).v \in 1 .. 4
        /\ comp(c).dct_h \in {min_DCT, 2 * min_DCT}
        /\ comp(c).dct_v \in {min_DCT, 2 * min_DCT}
  BY <1>3 DEF Sampling, min_DCT
<1>5. Len(job.scans) \in Nat \ {0} /\ DOMAIN job.scans = 1 .. Len(job.scans)
  BY <1>1
<1>6. ASSUME NEW s \in DOMAIN job.scans
      PROVE  /\ Len(job.scans[s]) \in Nat \ {0}
             /\ DOMAIN job.scans[s] = 1 .. Len(job.scans[s])
             /\ \A i \in DOMAIN job.scans[s] : job.scans[s][i] \in Components
  <2>1. job.scans[s] \in Seq(DOMAIN job.comps) /\ job.scans[s] # <<>>
    BY <1>1
  <2> QED BY <2>1 DEF Components
<1> QED BY <1>1, <1>2, <1>4, <1>5, <1>6 DEF min_DCT

\* The block size every component's own sizes come from.
LEMMA DctSize ==
  ASSUME Sized
  PROVE  min_DCT \in Nat \ {0}
<1>1. min_DCT \in 1 .. 16
  BY JobTypes
<1> QED BY <1>1

\* The largest of some sampling factors is one of them.
LEMMA MaxOfFactors ==
  ASSUME NEW T \in SUBSET (1 .. 4), T # {}
  PROVE  Max(T) \in 1 .. 4 /\ \A n \in T : n <= Max(T)
<1>1. T \in SUBSET Nat /\ \A n \in T : n <= 4
  OBVIOUS
<1>2. \E m \in T : \A n \in T : n <= m
  BY <1>1, GreatestNat, 4 \in Nat
<1>3. \E m \in T : \A n \in T : m >= n
  BY <1>1, <1>2
<1>4. Max(T) \in T /\ \A n \in T : Max(T) >= n
  BY <1>3 DEF Max
<1> QED BY <1>1, <1>4

LEMMA Factors ==
  ASSUME Sized
  PROVE  /\ max_h_samp \in 1 .. 4 /\ max_v_samp \in 1 .. 4
         /\ max_v_samp * min_DCT \in Nat \ {0}
         /\ \A c \in Components :
              /\ rowgroup_height(c) \in Nat \ {0}
              /\ rowgroup_height(c) * min_DCT = comp(c).v * comp(c).dct_v
<1>2. max_h_samp \in 1 .. 4 /\ max_v_samp \in 1 .. 4
  <2>1. /\ {comp(c).h : c \in Components} \in SUBSET (1 .. 4) /\ {comp(c).h : c \in Components} # {}
        /\ {comp(c).v : c \in Components} \in SUBSET (1 .. 4) /\ {comp(c).v : c \in Components} # {}
    BY JobTypes
  <2> QED BY <2>1, MaxOfFactors DEF max_h_samp, max_v_samp, Components
<1>3. ASSUME NEW c \in Components
      PROVE  /\ rowgroup_height(c) \in Nat \ {0}
             /\ rowgroup_height(c) * min_DCT = comp(c).v * comp(c).dct_v
  <2> DEFINE D == min_DCT
             v == comp(c).v
  <2>1. D \in 1 .. 16 /\ v \in 1 .. 4 /\ comp(c).dct_v \in {D, 2 * D}
    BY JobTypes
  <2> HIDE DEF D, v
  <2>2. PICK k \in {1, 2} : comp(c).dct_v = k * D
    <3>1. CASE comp(c).dct_v = D
      <4>1. comp(c).dct_v = 1 * D
        BY <2>1, <3>1
      <4> QED BY <4>1
    <3>2. CASE comp(c).dct_v = 2 * D
      BY <3>2
    <3> QED BY <2>1, <3>1, <3>2
  <2>3. v * comp(c).dct_v = (v * k) * D /\ v * k \in Nat \ {0}
    BY <2>1, <2>2
  <2>4. (v * comp(c).dct_v) \div D = v * k
    <3>1. v * k \in Int /\ (v * k) * D \in Int /\ D \in Nat \ {0} /\ (v * k) * D < (v * k) * D + D
      BY <2>1, <2>3
    <3> QED BY <3>1, <2>3, DivUnique
  <2>5. rowgroup_height(c) = v * k
    BY <2>4 DEF rowgroup_height, v, D
  <2> QED BY <2>3, <2>5 DEF v, D
<1>4. max_v_samp * min_DCT \in Nat \ {0}
  <2>1. max_v_samp \in Nat \ {0} /\ min_DCT \in Nat \ {0}
    BY <1>2, JobTypes
  <2> QED BY <2>1, PositiveProduct
<1> QED BY <1>2, <1>3, <1>4

\* A component has as many blocks as fill its share of the iMCUs, but for the last.
LEMMA CoveredBlocks ==
  ASSUME NEW x \in Nat \ {0}, NEW d \in Nat \ {0}, NEW f \in 1 .. 4
  PROVE  /\ round_up(x, d) \in Nat \ {0}
         /\ (round_up(x, d) - 1) * d < x /\ x <= round_up(x, d) * d
         /\ round_up(x * f, d) \in Nat \ {0}
         /\ (round_up(x, d) - 1) * f < round_up(x * f, d)
         /\ round_up(x * f, d) <= round_up(x, d) * f
         /\ round_up(round_up(x * f, d), f) = round_up(x, d)
<1> DEFINE t == round_up(x, d)
           y == round_up(x * f, d)
<1>1. t \in Nat \ {0} /\ (t - 1) * d < x /\ x <= t * d
  BY RoundedUp DEF round_up
<1>2. x * f \in Nat \ {0}
  BY PositiveProduct
<1>3. y \in Nat \ {0} /\ (y - 1) * d < x * f /\ x * f <= y * d
  BY <1>2, RoundedUp DEF round_up
<1> HIDE DEF t, y
<1>4. (t - 1) * d * f < x * f /\ x * f <= t * d * f
  <2>1. (t - 1) * d \in Int /\ t * d \in Int /\ f \in Nat \ {0}
    BY <1>1
  <2> QED BY <2>1, <1>1, ProductOrder
<1>5. (t - 1) * d * f = ((t - 1) * f) * d /\ t * d * f = (t * f) * d
  BY <1>1
<1>6. /\ (t - 1) * f \in Int /\ t * f \in Int /\ y - 1 \in Int /\ x * f \in Int
      /\ (y - 1) * d \in Int /\ y * d \in Int /\ ((t - 1) * f) * d \in Int /\ (t * f) * d \in Int
  BY <1>1, <1>2, <1>3
<1>7. ((t - 1) * f) * d < y * d /\ (y - 1) * d < (t * f) * d
  BY <1>3, <1>4, <1>5, <1>6
<1>8. (t - 1) * f < y /\ y - 1 < t * f
  BY <1>7, <1>6, <1>3, ProductOrder
<1>9. y <= t * f
  BY <1>8, <1>6, <1>3
<1>10. (y + f - 1) \div f = t
  BY <1>1, <1>3, <1>8, <1>9, RoundedUnique
<1>11. round_up(y, f) = t
  BY <1>10 DEF round_up
<1> QED BY <1>1, <1>3, <1>8, <1>9, <1>11 DEF t, y

\* What is left in the last group.
LEMMA LastGroup ==
  ASSUME NEW y \in Nat \ {0}, NEW f \in Nat \ {0}, NEW t \in Nat \ {0},
         (t - 1) * f < y, y <= t * f
  PROVE  (IF y % f = 0 THEN f ELSE y % f) = y - (t - 1) * f
<1>1. /\ t * f = (t - 1) * f + f /\ t * f \in Int /\ (t - 1) * f \in Int
  OBVIOUS
<1>2. CASE y = t * f
  <2>1. y \div f = t
    BY <1>1, <1>2, DivUnique
  <2>2. y % f = 0
    BY <2>1, <1>2, RemainderIs
  <2> QED BY <2>2, <1>1, <1>2
<1>3. CASE y < t * f
  <2>1. y \div f = t - 1
    BY <1>1, <1>3, DivUnique
  <2>2. y % f = y - (t - 1) * f
    <3>1. y % f = y - (y \div f) * f
      BY RemainderIs, y \in Int
    <3> QED BY <3>1, <2>1
  <2>3. y % f # 0
    BY <2>2, <1>1
  <2> QED BY <2>2, <2>3, <1>1, <1>3
<1> QED BY <1>1, <1>2, <1>3

\* iMCUs in a row.
across == round_up(size.width, max_h_samp)

LEMMA Geometry ==
  ASSUME Sized
  PROVE  /\ iMCU_rows \in Nat \ {0} /\ across \in Nat \ {0}
         /\ (iMCU_rows - 1) * (max_v_samp * min_DCT) < size.height
         /\ size.height <= iMCU_rows * (max_v_samp * min_DCT)
         /\ \A c \in Components :
              /\ height_in_blocks(c) \in Nat \ {0} /\ width_in_blocks(c) \in Nat \ {0}
              /\ (iMCU_rows - 1) * comp(c).v < height_in_blocks(c)
              /\ height_in_blocks(c) <= iMCU_rows * comp(c).v
              /\ (across - 1) * comp(c).h < width_in_blocks(c)
              /\ width_in_blocks(c) <= across * comp(c).h
              /\ round_up(width_in_blocks(c), comp(c).h) = across
              /\ last_row_height(c) = height_in_blocks(c) - (iMCU_rows - 1) * comp(c).v
<1> DEFINE dv == max_v_samp * min_DCT
<1>1. dv \in Nat \ {0} /\ max_h_samp \in Nat \ {0} /\ size.height \in Nat \ {0} /\ size.width \in Nat \ {0}
  BY Factors DEF Sized
<1>2. /\ iMCU_rows = round_up(size.height, dv)
      /\ \A c : height_in_blocks(c) = round_up(size.height * comp(c).v, dv)
  BY DEF iMCU_rows, height_in_blocks
<1> HIDE DEF dv
<1>3. iMCU_rows \in Nat \ {0} /\ across \in Nat \ {0}
      /\ (iMCU_rows - 1) * dv < size.height /\ size.height <= iMCU_rows * dv
  BY <1>1, <1>2, CoveredBlocks, 1 \in 1 .. 4 DEF across
<1>4. ASSUME NEW c \in Components
      PROVE  /\ height_in_blocks(c) \in Nat \ {0} /\ width_in_blocks(c) \in Nat \ {0}
             /\ (iMCU_rows - 1) * comp(c).v < height_in_blocks(c)
             /\ height_in_blocks(c) <= iMCU_rows * comp(c).v
             /\ (across - 1) * comp(c).h < width_in_blocks(c)
             /\ width_in_blocks(c) <= across * comp(c).h
             /\ round_up(width_in_blocks(c), comp(c).h) = across
             /\ last_row_height(c) = height_in_blocks(c) - (iMCU_rows - 1) * comp(c).v
  <2>1. comp(c).v \in 1 .. 4 /\ comp(c).h \in 1 .. 4
    BY JobTypes
  <2>2. /\ height_in_blocks(c) \in Nat \ {0}
        /\ (iMCU_rows - 1) * comp(c).v < height_in_blocks(c)
        /\ height_in_blocks(c) <= iMCU_rows * comp(c).v
    BY <1>1, <1>2, <2>1, CoveredBlocks
  <2>3. /\ width_in_blocks(c) \in Nat \ {0}
        /\ (across - 1) * comp(c).h < width_in_blocks(c)
        /\ width_in_blocks(c) <= across * comp(c).h
        /\ round_up(width_in_blocks(c), comp(c).h) = across
    BY <1>1, <2>1, CoveredBlocks DEF width_in_blocks, across
  <2>4. last_row_height(c) = height_in_blocks(c) - (iMCU_rows - 1) * comp(c).v
    <3>1. comp(c).v \in Nat \ {0}
      BY <2>1
    <3> QED BY <3>1, <2>2, <1>3, LastGroup DEF last_row_height
  <2> QED BY <2>2, <2>3, <2>4
<1> QED BY <1>3, <1>4 DEF dv

-------------------------------------------------------------------------------
(* Sequences of rows *)

\* What FlattenSeq computes.
Flattening(g, f) == g = [i \in 1 .. Len(f) |-> IF i = 1 THEN f[i] ELSE g[i - 1] \o f[i]]

LEMMA FlatteningExists ==
  ASSUME NEW S, NEW m \in Nat \ {0}, NEW f \in [1 .. m -> Seq(S)]
  PROVE  \E g : Flattening(g, f)
<1> DEFINE T == Seq(S)
           F == [k \in 1 .. m |-> [s \in T |-> s \o f[k]]]
<1>1. Len(f) = m
  BY f \in Seq(T)
<1>2. f[1] \in T /\ m \in Int /\ 1 \in Int /\ 1 <= m
  OBVIOUS
<1>3. F \in [1 .. m -> [T -> T]]
  <2>1. ASSUME NEW k \in 1 .. m, NEW s \in T  PROVE s \o f[k] \in T
    <3>1. f[k] \in Seq(S)
      OBVIOUS
    <3> QED BY <3>1, ConcatProperties
  <2> HIDE DEF T
  <2> QED BY <2>1
<1>4. \A k \in 1 .. m : \A s \in T : F[k][s] = s \o f[k]
  OBVIOUS
<1> HIDE DEF F, T
<1>5. PICK g : Recursion(g, T, f[1], 1, m, F)
  BY <1>2, <1>3, RecursionExists
<1>6. /\ g \in [1 .. m -> T]
      /\ \A k \in 1 .. m : g[k] = IF k = 1 THEN f[1] ELSE F[k][g[k - 1]]
  BY <1>5 DEF Recursion
<1>7. ASSUME NEW k \in 1 .. m  PROVE g[k] = IF k = 1 THEN f[k] ELSE g[k - 1] \o f[k]
  <2>1. CASE k # 1
    <3>1. k - 1 \in 1 .. m
      BY <2>1
    <3>2. g[k - 1] \in T
      BY <1>6, <3>1
    <3> QED BY <1>4, <1>6, <2>1, <3>2
  <2> QED BY <2>1, <1>6
<1>8. g = [i \in 1 .. m |-> IF i = 1 THEN f[i] ELSE g[i - 1] \o f[i]]
  BY <1>6, <1>7
<1>9. Flattening(g, f)
  BY <1>1, <1>8 DEF Flattening
<1> QED BY <1>9

\* s is the m rows of f, of length n, one after the other.
RowByRow(s, f, m, n) == s = [i \in 1 .. m * n |-> f[(i - 1) \div n + 1][((i - 1) % n) + 1]]

LEMMA FlattenRows ==
  ASSUME NEW S, NEW m \in Nat \ {0}, NEW n \in Nat \ {0}, NEW f \in [1 .. m -> [1 .. n -> S]]
  PROVE  RowByRow(FlattenSeq(f), f, m, n)
<1>1. f \in [1 .. m -> Seq(S)] /\ \A k \in 1 .. m : Len(f[k]) = n
  <2>1. ASSUME NEW k \in 1 .. m  PROVE f[k] \in Seq(S) /\ Len(f[k]) = n
    <3>1. f[k] \in [1 .. n -> S]
      OBVIOUS
    <3> QED BY <3>1
  <2> QED BY <2>1
<1>2. Len(f) = m
  BY <1>1, f \in Seq(Seq(S))
<1> DEFINE g == CHOOSE h : Flattening(h, f)
<1>3. Flattening(g, f)
  BY <1>1, FlatteningExists
<1>4. FlattenSeq(f) = g[m]
  BY <1>2 DEF FlattenSeq, Flattening
<1> HIDE DEF g
<1>5. DOMAIN g = 1 .. m /\ \A k \in 1 .. m : g[k] = IF k = 1 THEN f[k] ELSE g[k - 1] \o f[k]
  BY <1>2, <1>3 DEF Flattening
<1> DEFINE Rows(k) ==
             /\ g[k] \in Seq(S) /\ Len(g[k]) = k * n
             /\ \A i \in 1 .. k * n : g[k][i] = f[(i - 1) \div n + 1][((i - 1) % n) + 1]
           P == {k \in 1 .. m : Rows(k)}
<1>6. ASSUME NEW k \in 1 .. m, NEW i \in Int, (k - 1) * n < i, i <= k * n
      PROVE  /\ (i - 1) \div n = k - 1 /\ (i - 1) % n = i - 1 - (k - 1) * n
             /\ i - (k - 1) * n \in 1 .. n
  <2>1. k * n = (k - 1) * n + n /\ (k - 1) * n \in Int /\ k * n \in Int /\ k - 1 \in Int
    OBVIOUS
  <2>2. (k - 1) * n <= i - 1 /\ i - 1 < (k - 1) * n + n /\ i - 1 \in Int
    BY <1>6, <2>1
  <2>3. (i - 1) \div n = k - 1
    BY <2>1, <2>2, DivUnique
  <2>4. (i - 1) % n = i - 1 - ((i - 1) \div n) * n
    BY <2>2, RemainderIs
  <2>5. (i - 1) % n = i - 1 - (k - 1) * n
    BY <2>3, <2>4, Zenon
  <2>6. i - (k - 1) * n \in 1 .. n
    BY <2>1, <2>2
  <2> QED BY <2>3, <2>5, <2>6
<1>7. Rows(1)
  <2>1. g[1] = f[1] /\ 1 * n = n /\ 1 \in 1 .. m
    BY <1>5
  <2>2. ASSUME NEW i \in 1 .. n  PROVE (i - 1) \div n + 1 = 1 /\ ((i - 1) % n) + 1 = i
    <3>1. (1 - 1) * n = 0 /\ 0 < i /\ i <= n /\ i \in Int
      OBVIOUS
    <3>2. (1 - 1) * n < i /\ i <= 1 * n
      BY <2>1, <3>1
    <3>3. (i - 1) \div n = 1 - 1 /\ (i - 1) % n = i - 1 - (1 - 1) * n
      BY <1>6, <2>1, <3>1, <3>2
    <3>4. (i - 1) % n = i - 1 - 0
      BY <3>1, <3>3, Zenon
    <3> DEFINE d == (i - 1) \div n
               r == (i - 1) % n
    <3>5. d = 1 - 1 /\ r = i - 1 - 0
      BY <3>3, <3>4
    <3> HIDE DEF d, r
    <3>6. d + 1 = 1 /\ r + 1 = i
      BY <3>5
    <3> QED BY <3>6 DEF d, r
  <2> QED BY <1>1, <2>1, <2>2
<1>8. ASSUME NEW k \in 1 .. m, k # 1, Rows(k - 1)  PROVE Rows(k)
  <2> DEFINE p == (k - 1) * n
             s == g[k - 1]
             t == f[k]
  <2>1. g[k] = s \o t
    BY <1>5, <1>8
  <2>2. s \in Seq(S) /\ Len(s) = p /\ t \in Seq(S) /\ Len(t) = n
    BY <1>1, <1>8
  <2>3. p + n = k * n /\ p \in Int /\ k * n \in Int
    OBVIOUS
  <2>4. \A i \in 1 .. p : s[i] = f[(i - 1) \div n + 1][((i - 1) % n) + 1]
    BY <1>8
  <2>5. ASSUME NEW i \in Int, p < i, i <= k * n
        PROVE  /\ i - p \in 1 .. n /\ (i - 1) \div n + 1 = k /\ ((i - 1) % n) + 1 = i - p
    <3>1. (i - 1) \div n = k - 1 /\ (i - 1) % n = i - 1 - p /\ i - p \in 1 .. n
      BY <2>5, <1>6
    <3> DEFINE d == (i - 1) \div n
               r == (i - 1) % n
    <3>2. d = k - 1 /\ r = i - 1 - p /\ i - p \in 1 .. n
      BY <3>1
    <3> HIDE DEF d, r, p
    <3>3. d + 1 = k /\ r + 1 = i - p
      BY <3>2, <2>3
    <3> QED BY <3>2, <3>3 DEF d, r
  <2> HIDE DEF p, s, t
  <2>6. /\ s \o t \in Seq(S) /\ Len(s \o t) = p + n
        /\ \A i \in 1 .. p + n : (s \o t)[i] = IF i <= p THEN s[i] ELSE t[i - p]
    BY <2>2, ConcatProperties
  <2>7. ASSUME NEW i \in 1 .. k * n
        PROVE  g[k][i] = f[(i - 1) \div n + 1][((i - 1) % n) + 1]
    <3>1. g[k][i] = IF i <= p THEN s[i] ELSE t[i - p]
      BY <2>1, <2>3, <2>6
    <3>2. CASE i <= p
      <4>1. i \in 1 .. p
        BY <2>3, <3>2
      <4> QED BY <4>1, <3>1, <3>2, <2>4
    <3>3. CASE ~(i <= p)
      <4>1. p < i /\ i <= k * n /\ i \in Int
        BY <2>3, <3>3
      <4>2. (i - 1) \div n + 1 = k /\ ((i - 1) % n) + 1 = i - p
        BY <4>1, <2>5
      <4>3. g[k][i] = f[k][i - p]
        BY <3>1, <3>3 DEF t
      <4> QED BY <4>2, <4>3
    <3> QED BY <3>2, <3>3
  <2> QED BY <2>1, <2>3, <2>6, <2>7
<1>9. \A k \in 1 .. m : k \in P
  <2>1. 1 \in P /\ 1 \in Int /\ m \in Int
    BY <1>7
  <2>2. \A k \in 1 .. m : k # 1 /\ k - 1 \in P => k \in P
    BY <1>8
  <2> HIDE DEF P
  <2> QED BY <2>1, <2>2, IntervalInduction
<1>10. Rows(m)
  BY <1>9
<1>11. DOMAIN g[m] = 1 .. m * n
  BY <1>10
<1>12. g[m] = [i \in 1 .. m * n |-> f[(i - 1) \div n + 1][((i - 1) % n) + 1]]
  <2>1. \A i \in 1 .. m * n : g[m][i] = f[(i - 1) \div n + 1][((i - 1) % n) + 1]
    BY <1>10
  <2>2. g[m] = [i \in DOMAIN g[m] |-> g[m][i]]
    BY <1>10
  <2> QED BY <1>11, <2>1, <2>2
<1> QED BY <1>4, <1>12 DEF RowByRow

\* f is m rows of length n.
IsGrid(f, m, n) == f = [y \in 1 .. m |-> [x \in 1 .. n |-> f[y][x]]]

LEMMA FlattenGrid ==
  ASSUME NEW m \in Nat \ {0}, NEW n \in Nat \ {0}, NEW f, IsGrid(f, m, n)
  PROVE  RowByRow(FlattenSeq(f), f, m, n)
<1> DEFINE S == {f[y][x] : y \in 1 .. m, x \in 1 .. n}
<1>1. \A y \in 1 .. m : \A x \in 1 .. n : f[y][x] \in S
  OBVIOUS
<1> HIDE DEF S
<1>2. f \in [1 .. m -> [1 .. n -> S]]
  BY <1>1 DEF IsGrid
<1> QED BY <1>2, FlattenRows

-------------------------------------------------------------------------------
(* The geometry of a scan *)

InScan == Sized /\ pass \in 1 .. passes

LEMMA PassTypes ==
  ASSUME Sized
  PROVE  passes \in Nat \ {0} /\ 1 \in 1 .. passes
<1>1. Len(job.scans) \in Nat \ {0}
  BY JobTypes
<1>2. passes = IF job.optimize THEN 2 * Len(job.scans) ELSE 1 * Len(job.scans)
  BY DEF passes
<1>3. passes \in Nat \ {0}
  BY <1>1, <1>2
<1> QED BY <1>3

LEMMA ScanTypes ==
  ASSUME InScan
  PROVE  /\ Len(scan) \in Nat \ {0} /\ DOMAIN scan = 1 .. Len(scan) /\ 1 \in DOMAIN scan
         /\ \A i \in DOMAIN scan : scan[i] \in Components
         /\ interleaved \in BOOLEAN
<1> DEFINE s == IF job.optimize THEN (pass + 1) \div 2 ELSE pass
<1>1. s \in DOMAIN job.scans
  <2>1. Len(job.scans) \in Nat \ {0} /\ DOMAIN job.scans = 1 .. Len(job.scans)
    BY JobTypes DEF InScan
  <2>2. pass \in Int /\ 1 <= pass
        /\ pass <= IF job.optimize THEN 2 * Len(job.scans) ELSE 1 * Len(job.scans)
    <3>1. passes = IF job.optimize THEN 2 * Len(job.scans) ELSE 1 * Len(job.scans)
      BY DEF passes
    <3>2. pass \in 1 .. passes /\ passes \in Nat \ {0}
      BY PassTypes DEF InScan
    <3> QED BY <3>1, <3>2
  <2>3. CASE job.optimize
    <3>1. pass <= 2 * Len(job.scans)
      BY <2>2, <2>3
    <3>2. (pass + 1) \div 2 \in 1 .. Len(job.scans)
      BY <2>1, <2>2, <3>1
    <3> QED BY <2>1, <2>3, <3>2
  <2>4. CASE ~job.optimize
    <3>1. pass <= Len(job.scans)
      BY <2>1, <2>2, <2>4
    <3> QED BY <2>1, <2>2, <2>4, <3>1
  <2> QED BY <2>3, <2>4
<1>2. scan = job.scans[s]
  BY DEF scan
<1> HIDE DEF s
<1>3. Sized
  BY DEF InScan
<1>4. /\ Len(job.scans[s]) \in Nat \ {0} /\ DOMAIN job.scans[s] = 1 .. Len(job.scans[s])
      /\ \A i \in DOMAIN job.scans[s] : job.scans[s][i] \in Components
  BY <1>1, <1>3, JobTypes
<1>5. 1 \in DOMAIN scan
  BY <1>2, <1>4
<1> QED BY <1>2, <1>4, <1>5 DEF interleaved

\* Component c of the scan: its MCUs, the last of them and those of the bottom.
LEMMA ScanGeometry ==
  ASSUME InScan, NEW i \in DOMAIN scan
  PROVE  LET c == scan[i]
         IN /\ c \in Components
            /\ MCU_width(c) \in 1 .. 4 /\ MCU_height(c) \in 1 .. 4
            /\ MCUs_per_row \in Nat \ {0}
            /\ (MCUs_per_row - 1) * MCU_width(c) < width_in_blocks(c)
            /\ width_in_blocks(c) <= MCUs_per_row * MCU_width(c)
            /\ last_col_width(c) = width_in_blocks(c) - (MCUs_per_row - 1) * MCU_width(c)
            /\ ~interleaved => i = 1 /\ MCUs_per_row = width_in_blocks(c)
            /\ interleaved => MCUs_per_row = across
<1> DEFINE c == scan[i]
<1>1. Sized /\ c \in Components
  BY ScanTypes DEF InScan
<1>2. comp(c).h \in 1 .. 4 /\ comp(c).v \in 1 .. 4
  BY <1>1, JobTypes
<1>3. /\ across \in Nat \ {0} /\ width_in_blocks(c) \in Nat \ {0}
      /\ (across - 1) * comp(c).h < width_in_blocks(c)
      /\ width_in_blocks(c) <= across * comp(c).h
  BY <1>1, Geometry
<1>4. interleaved => MCUs_per_row = across
  BY DEF MCUs_per_row, across
<1>5. ~interleaved => i = 1 /\ MCUs_per_row = width_in_blocks(c)
  <2>1. ASSUME ~interleaved  PROVE i = 1
    <3>1. Len(scan) \in Nat \ {0} /\ i \in 1 .. Len(scan)
      BY ScanTypes
    <3> QED BY <2>1, <3>1 DEF interleaved
  <2> QED BY <2>1 DEF MCUs_per_row
<1>6. MCU_width(c) \in 1 .. 4 /\ MCU_height(c) \in 1 .. 4
  BY <1>2 DEF MCU_width, MCU_height
<1>7. /\ MCUs_per_row \in Nat \ {0}
      /\ (MCUs_per_row - 1) * MCU_width(c) < width_in_blocks(c)
      /\ width_in_blocks(c) <= MCUs_per_row * MCU_width(c)
  <2>1. CASE interleaved
    BY <1>3, <1>4, <2>1 DEF MCU_width
  <2>2. CASE ~interleaved
    <3>1. MCU_width(c) = 1 /\ MCUs_per_row = width_in_blocks(c)
      BY <1>5, <2>2 DEF MCU_width
    <3> HIDE DEF c
    <3> QED BY <1>3, <3>1
  <2> QED BY <2>1, <2>2, ScanTypes
<1>8. last_col_width(c) = width_in_blocks(c) - (MCUs_per_row - 1) * MCU_width(c)
  <2>1. MCU_width(c) \in Nat \ {0}
    BY <1>6
  <2> HIDE DEF c
  <2> QED BY <2>1, <1>3, <1>7, LastGroup DEF last_col_width
<1> QED BY <1>1, <1>4, <1>5, <1>6, <1>7, <1>8

\* Block rows of an iMCU row.
LEMMA RowsInIMCU ==
  ASSUME Sized, NEW c \in Components, NEW row \in 0 .. iMCU_rows - 1
  PROVE  /\ BlockRows(c, row) \in 1 .. comp(c).v
         /\ \A y \in 0 .. comp(c).v - 1 :
              y < BlockRows(c, row) <=> row * comp(c).v + y < height_in_blocks(c)
         /\ row < iMCU_rows - 1 => BlockRows(c, row) = comp(c).v
         /\ row = iMCU_rows - 1 => row * comp(c).v + BlockRows(c, row) = height_in_blocks(c)
<1> DEFINE v == comp(c).v
           n == height_in_blocks(c)
           I == iMCU_rows
           b == BlockRows(c, row)
<1>1. /\ v \in 1 .. 4 /\ n \in Nat \ {0} /\ I \in Nat \ {0}
      /\ (I - 1) * v < n /\ n <= I * v
      /\ last_row_height(c) = n - (I - 1) * v
  BY JobTypes, Geometry
<1>2. b = IF row = I - 1 THEN n - (I - 1) * v ELSE v
  BY <1>1 DEF BlockRows
<1> HIDE DEF v, n, I, b
<1>3. I * v = (I - 1) * v + v /\ (I - 1) * v \in Int /\ row \in Nat /\ row * v \in Int
  BY <1>1 DEF I
<1> DEFINE p == row * v
           q == (I - 1) * v
<1>4. /\ p \in Int /\ q \in Int /\ q < n /\ n <= q + v
      /\ row = I - 1 => p = q
      /\ row # I - 1 => p + v <= q
  <2>1. ASSUME row # I - 1  PROVE p + v <= q
    <3>1. row + 1 \in Int /\ I - 1 \in Int /\ v \in Nat \ {0} /\ row + 1 <= I - 1
      BY <1>1, <1>3, <2>1 DEF I
    <3>2. (row + 1) * v <= (I - 1) * v
      BY <3>1, ProductOrder
    <3>3. (row + 1) * v = row * v + v
      BY <1>1, <1>3
    <3> QED BY <3>2, <3>3
  <2>2. n <= q + v
    BY <1>1, <1>3
  <2> QED BY <1>1, <1>3, <2>1, <2>2
<1>5. b = IF row = I - 1 THEN n - q ELSE v
  BY <1>2
<1> HIDE DEF p, q
<1>6. /\ b \in 1 .. v
      /\ \A y \in 0 .. v - 1 : y < b <=> p + y < n
      /\ row = I - 1 => p + b = n
      /\ row < I - 1 => b = v
  BY <1>1, <1>3, <1>4, <1>5
<1> QED BY <1>6 DEF p, v, n, I, b

-------------------------------------------------------------------------------
(* The blocks of an MCU of the image *)

\* Row y of blocks, of which MCUs have w in a row, has block k of the MCU that starts
\* at column first; beyond the image it is a dummy for the last real block before it.
BlockAt(c, w, y, first, k) ==
  LET inside == y < height_in_blocks(c)
      row == IF inside THEN y ELSE height_in_blocks(c) - 1
      last == IF inside THEN first + k ELSE first + w - 1
      column == IF last < width_in_blocks(c) THEN last ELSE width_in_blocks(c) - 1
      block == ImageBlock(c, row, column)
  IN [dc |-> block,
      ac |-> IF inside /\ first + k < width_in_blocks(c) THEN block ELSE "zeroes"]

\* The blocks of a component in the MCU at that row and column of the scan.
Grid(c, row, col) ==
  [y \in 1 .. MCU_height(c) |->
     [x \in 1 .. MCU_width(c) |->
        BlockAt(c, MCU_width(c), row * MCU_height(c) + y - 1, col * MCU_width(c), x - 1)]]

GridMCU(row, col) == FlattenSeq([i \in DOMAIN scan |-> FlattenSeq(Grid(scan[i], row, col))])

\* The same as ImageMCU has them.
PlaceGrid(c, row, col) ==
  [y \in 1 .. MCU_height(c) |-> [x \in 1 .. MCU_width(c) |->
     <<row * MCU_height(c) + y - 1, col * MCU_width(c) + x - 1>>]]
PlacesOf(c, row, col) == FlattenSeq(PlaceGrid(c, row, col))
RealPlace(c, p) == p[1] < height_in_blocks(c) /\ p[2] < width_in_blocks(c)
RealBefore(c, row, col, i) == {k \in 1 .. i : RealPlace(c, PlacesOf(c, row, col)[k])}
BlocksOf(c, row, col) ==
  [i \in DOMAIN PlacesOf(c, row, col) |->
     LET before == RealBefore(c, row, col, i)
         p == PlacesOf(c, row, col)[Max(before)]
         block == ImageBlock(c, p[1], p[2])
     IN [dc |-> block, ac |-> IF i \in before THEN block ELSE "zeroes"]]

LEMMA ImageMCUBlocks ==
  ASSUME NEW number
  PROVE  ImageMCU(number) =
           FlattenSeq([i \in DOMAIN scan |->
             BlocksOf(scan[i], number \div MCUs_per_row, number % MCUs_per_row)])
  BY DEF ImageMCU, BlocksOf, PlacesOf, PlaceGrid, RealPlace, RealBefore

\* Of n rows of w places the first R and the first C columns are real: the last real
\* place up to the i-th.
LEMMA LastRealPlace ==
  ASSUME NEW w \in 1 .. 4, NEW R \in Nat \ {0}, NEW C \in Nat \ {0}, NEW i \in Nat \ {0}
  PROVE  LET a == (i - 1) \div w
             b == (i - 1) % w
             ma == IF a < R THEN a ELSE R - 1
             mk == IF a < R THEN b ELSE w - 1
             mb == IF mk < C THEN mk ELSE C - 1
             m == ma * w + mb + 1
         IN /\ m \in 1 .. i /\ (m - 1) \div w = ma /\ (m - 1) % w = mb
            /\ ma < R /\ mb < C
            /\ \A k \in 1 .. i : (k - 1) \div w < R /\ (k - 1) % w < C => k <= m
<1>1. CASE w = 1
  BY <1>1
<1>2. CASE w = 2
  BY <1>2
<1>3. CASE w = 3
  BY <1>3
<1>4. CASE w = 4
  BY <1>4
<1> QED BY <1>1, <1>2, <1>3, <1>4

LEMMA PlaceInGrid ==
  ASSUME NEW h \in 1 .. 4, NEW w \in 1 .. 4, NEW i \in 1 .. h * w
  PROVE  /\ (i - 1) \div w \in 0 .. h - 1 /\ (i - 1) % w \in 0 .. w - 1
         /\ i \in Nat \ {0}
<1>1. CASE w = 1
  BY <1>1
<1>2. CASE w = 2
  BY <1>2
<1>3. CASE w = 3
  BY <1>3
<1>4. CASE w = 4
  BY <1>4
<1> QED BY <1>1, <1>2, <1>3, <1>4

LEMMA MaxIs ==
  ASSUME NEW T \in SUBSET Int, NEW m \in T, \A n \in T : n <= m
  PROVE  Max(T) = m
<1>1. \A n \in T : m >= n
  OBVIOUS
<1>2. Max(T) \in T /\ \A n \in T : Max(T) >= n
  BY <1>1 DEF Max
<1>3. Max(T) \in Int /\ m \in Int /\ Max(T) <= m /\ Max(T) >= m
  BY <1>2
<1> HIDE DEF Max
<1> QED BY <1>3

\* ImageMCU looks back for the block whose DC value a dummy has; that is the block
\* BlockAt names.
LEMMA BlocksOfMCU ==
  ASSUME InScan, NEW j \in DOMAIN scan, NEW row \in Nat, NEW col \in Nat,
         row * MCU_height(scan[j]) < height_in_blocks(scan[j]),
         col * MCU_width(scan[j]) < width_in_blocks(scan[j])
  PROVE  BlocksOf(scan[j], row, col) = FlattenSeq(Grid(scan[j], row, col))
<1> DEFINE c == scan[j]
           h == MCU_height(c)
           w == MCU_width(c)
           n == height_in_blocks(c)
           l == width_in_blocks(c)
           top == row * h
           left == col * w
           A(i) == (i - 1) \div w
           B(i) == (i - 1) % w
<1>1. c \in Components /\ h \in 1 .. 4 /\ w \in 1 .. 4
  BY ScanGeometry
<1>2. n \in Nat \ {0} /\ l \in Nat \ {0}
  BY <1>1, Geometry DEF InScan
<1>3. top \in Nat /\ left \in Nat /\ top < n /\ left < l
  BY <1>1
<1>4. Grid(c, row, col) = [y \in 1 .. h |-> [x \in 1 .. w |-> BlockAt(c, w, top + y - 1, left, x - 1)]]
  BY DEF Grid
<1>5. PlaceGrid(c, row, col) = [y \in 1 .. h |-> [x \in 1 .. w |-> <<top + y - 1, left + x - 1>>]]
  BY DEF PlaceGrid
<1> HIDE DEF c, h, w, n, l, top, left
<1>6. \A i \in 1 .. h * w : A(i) \in 0 .. h - 1 /\ B(i) \in 0 .. w - 1 /\ i \in Nat \ {0}
  BY <1>1, PlaceInGrid
<1>7. h \in Nat \ {0} /\ w \in Nat \ {0}
  BY <1>1
<1>8. PlacesOf(c, row, col) = [i \in 1 .. h * w |-> <<top + A(i), left + B(i)>>]
  <2> DEFINE f == PlaceGrid(c, row, col)
  <2>1. IsGrid(f, h, w)
    BY <1>5 DEF IsGrid
  <2>2. FlattenSeq(f) = [i \in 1 .. h * w |-> f[A(i) + 1][B(i) + 1]]
    <3> HIDE DEF f
    <3>1. RowByRow(FlattenSeq(f), f, h, w)
      BY <1>7, <2>1, FlattenGrid
    <3> QED BY <3>1 DEF RowByRow
  <2>3. ASSUME NEW i \in 1 .. h * w  PROVE f[A(i) + 1][B(i) + 1] = <<top + A(i), left + B(i)>>
    <3> DEFINE a == A(i)
               b == B(i)
    <3>1. a \in 0 .. h - 1 /\ b \in 0 .. w - 1
      BY <1>6
    <3> HIDE DEF a, b
    <3>2. a + 1 \in 1 .. h /\ b + 1 \in 1 .. w /\ top + (a + 1) - 1 = top + a
          /\ left + (b + 1) - 1 = left + b
      BY <1>3, <1>7, <3>1
    <3>3. f[a + 1][b + 1] = <<top + a, left + b>>
      BY <1>5, <3>2
    <3> QED BY <3>3 DEF a, b
  <2> QED BY <2>2, <2>3 DEF PlacesOf
<1>9. FlattenSeq(Grid(c, row, col)) = [i \in 1 .. h * w |-> BlockAt(c, w, top + A(i), left, B(i))]
  <2> DEFINE f == Grid(c, row, col)
  <2>1. IsGrid(f, h, w)
    BY <1>4 DEF IsGrid
  <2>2. FlattenSeq(f) = [i \in 1 .. h * w |-> f[A(i) + 1][B(i) + 1]]
    <3> HIDE DEF f
    <3>1. RowByRow(FlattenSeq(f), f, h, w)
      BY <1>7, <2>1, FlattenGrid
    <3> QED BY <3>1 DEF RowByRow
  <2>3. ASSUME NEW i \in 1 .. h * w  PROVE f[A(i) + 1][B(i) + 1] = BlockAt(c, w, top + A(i), left, B(i))
    <3> DEFINE a == A(i)
               b == B(i)
    <3>1. a \in 0 .. h - 1 /\ b \in 0 .. w - 1
      BY <1>6
    <3> HIDE DEF a, b
    <3>2. a + 1 \in 1 .. h /\ b + 1 \in 1 .. w /\ top + (a + 1) - 1 = top + a /\ (b + 1) - 1 = b
      BY <1>3, <1>7, <3>1
    <3>3. f[a + 1][b + 1] = BlockAt(c, w, top + a, left, b)
      BY <1>4, <3>2
    <3> QED BY <3>3 DEF a, b
  <2> HIDE DEF f
  <2> QED BY <2>2, <2>3 DEF f
<1>10. ASSUME NEW i \in 1 .. h * w
       PROVE  LET before == RealBefore(c, row, col, i)
                  p == PlacesOf(c, row, col)[Max(before)]
                  block == ImageBlock(c, p[1], p[2])
              IN [dc |-> block, ac |-> IF i \in before THEN block ELSE "zeroes"]
                   = BlockAt(c, w, top + A(i), left, B(i))
  <2> DEFINE R == n - top
             C == l - left
             a == A(i)
             b == B(i)
             ma == IF a < R THEN a ELSE R - 1
             mk == IF a < R THEN b ELSE w - 1
             mb == IF mk < C THEN mk ELSE C - 1
             m == ma * w + mb + 1
             before == RealBefore(c, row, col, i)
             places == PlacesOf(c, row, col)
  <2>1. R \in Nat \ {0} /\ C \in Nat \ {0} /\ i \in Nat \ {0}
        /\ a \in 0 .. h - 1 /\ b \in 0 .. w - 1
    BY <1>2, <1>3, <1>6
  <2>2. /\ m \in 1 .. i /\ A(m) = ma /\ B(m) = mb /\ ma < R /\ mb < C
        /\ \A k \in 1 .. i : A(k) < R /\ B(k) < C => k <= m
    <3> HIDE DEF R, C
    <3> QED BY <1>1, <2>1, LastRealPlace
  <2>3. \A k \in 1 .. i : RealPlace(c, places[k]) <=> A(k) < R /\ B(k) < C
    <3> SUFFICES ASSUME NEW k \in 1 .. i
                 PROVE  RealPlace(c, places[k]) <=> A(k) < R /\ B(k) < C
      OBVIOUS
    <3>1. k \in 1 .. h * w
      BY <1>7
    <3> DEFINE ka == A(k)
               kb == B(k)
    <3>2. places[k] = <<top + ka, left + kb>> /\ ka \in Int /\ kb \in Int
      BY <1>6, <1>8, <3>1
    <3> HIDE DEF ka, kb, places
    <3>3. RealPlace(c, places[k]) <=> ka < R /\ kb < C
      BY <1>2, <1>3, <3>2 DEF RealPlace, n, l
    <3> QED BY <3>3 DEF ka, kb
  <2>4. before = {k \in 1 .. i : A(k) < R /\ B(k) < C}
    BY <2>3 DEF RealBefore
  <2> HIDE DEF R, C, ma, mk, mb, before, places
  <2>5. m \in before /\ before \in SUBSET Int /\ \A k \in before : k <= m
    BY <2>2, <2>4
  <2>6. Max(before) = m
    <3> HIDE DEF m
    <3> QED BY <2>5, MaxIs
  <2>7. places[Max(before)] = <<top + ma, left + mb>>
    <3>1. m \in 1 .. h * w
      BY <1>7, <2>2
    <3>2. places[m] = <<top + A(m), left + B(m)>>
      BY <1>8, <3>1 DEF places
    <3> HIDE DEF m
    <3> QED BY <2>2, <2>6, <3>2
  <2>8. i \in before <=> a < R /\ b < C
    BY <2>1, <2>4
  <2> HIDE DEF a, b
  <2>9. /\ top + a < n <=> a < R
        /\ a < R => (left + b < l <=> b < C)
    BY <1>2, <1>3, <2>1 DEF R, C
  <2>10. BlockAt(c, w, top + a, left, b) =
           LET block == ImageBlock(c, top + ma, left + mb)
           IN [dc |-> block, ac |-> IF a < R /\ b < C THEN block ELSE "zeroes"]
    <3>1. CASE a < R
      <4>1. top + a < n /\ (left + b < l <=> b < C) /\ ma = a
            /\ mb = IF b < C THEN b ELSE C - 1
        BY <2>9, <3>1 DEF ma, mb, mk
      <4>2. (IF left + b < l THEN left + b ELSE l - 1) = left + mb
        BY <1>2, <1>3, <2>1, <4>1 DEF C
      <4> QED BY <3>1, <4>1, <4>2, Zenon DEF BlockAt, n, l
    <3>2. CASE ~(a < R)
      <4>1. ~(top + a < n) /\ ma = R - 1 /\ n - 1 = top + ma
            /\ mb = IF w - 1 < C THEN w - 1 ELSE C - 1
        BY <1>2, <1>3, <2>1, <2>9, <3>2 DEF ma, mb, mk, R
      <4>2. (IF left + w - 1 < l THEN left + w - 1 ELSE l - 1) = left + mb
        BY <1>2, <1>3, <1>7, <2>1, <4>1 DEF C
      <4> QED BY <3>2, <4>1, <4>2, Zenon DEF BlockAt, n, l
    <3> QED BY <3>1, <3>2
  <2>11. <<top + ma, left + mb>>[1] = top + ma /\ <<top + ma, left + mb>>[2] = left + mb
    OBVIOUS
  <2> QED BY <2>7, <2>8, <2>10, <2>11, Zenon DEF before, places, a, b
<1>11. DOMAIN PlacesOf(c, row, col) = 1 .. h * w
  BY <1>8
<1>12. BlocksOf(c, row, col) = [i \in 1 .. h * w |-> BlockAt(c, w, top + A(i), left, B(i))]
  BY <1>10, <1>11 DEF BlocksOf
<1> QED BY <1>9, <1>12 DEF c

-------------------------------------------------------------------------------
(* The blocks the coefficient controller makes *)

LEMMA MinOfTwo ==
  ASSUME NEW a \in Int, NEW b \in Int
  PROVE  Min({a, b}) = IF a <= b THEN a ELSE b
<1> DEFINE m == IF a <= b THEN a ELSE b
<1>1. m \in {a, b} /\ \A n \in {a, b} : m <= n
  OBVIOUS
<1> HIDE DEF m
<1>2. Min({a, b}) \in {a, b} /\ \A n \in {a, b} : Min({a, b}) <= n
  BY <1>1 DEF Min
<1>3. Min({a, b}) \in Int /\ m \in Int /\ Min({a, b}) <= m /\ m <= Min({a, b})
  BY <1>1, <1>2
<1> HIDE DEF Min
<1>4. Min({a, b}) = m
  BY <1>3
<1> QED BY <1>4 DEF m

LEMMA MaxOfTwo ==
  ASSUME NEW a \in Int, NEW b \in Int
  PROVE  Max({a, b}) = IF a >= b THEN a ELSE b
<1> DEFINE m == IF a >= b THEN a ELSE b
<1>1. {a, b} \in SUBSET Int /\ m \in {a, b} /\ \A n \in {a, b} : n <= m
  OBVIOUS
<1> HIDE DEF m
<1>2. Max({a, b}) = m
  BY <1>1, MaxIs
<1> QED BY <1>2 DEF m

\* The strip holds the sample rows of that iMCU row, those of the first n row groups.
StripHolds(row, n) ==
  \A c \in Components : \A r \in 0 .. n * rowgroup_height(c) - 1 :
    strip[c][r] = Sample(c, row * (comp(c).v * comp(c).dct_v) + r)

\* Block row y of the iMCU row, inside of the image.
LEMMA RealRow ==
  ASSUME Sized, NEW c \in Components, NEW row \in 0 .. iMCU_rows - 1,
         StripHolds(row, min_DCT), NEW y \in 0 .. BlockRows(c, row) - 1,
         NEW w \in 1 .. 4, NEW first \in Nat, NEW k \in 0 .. w - 1
  PROVE  BlockAt(c, w, row * comp(c).v + y, first, k) =
           IF first + k < width_in_blocks(c) THEN forward_DCT(c, y, first + k)
           ELSE DummyOf(forward_DCT(c, y, width_in_blocks(c) - 1))
<1> DEFINE v == comp(c).v
           d == comp(c).dct_v
           l == width_in_blocks(c)
           Y == row * v + y
<1>1. /\ v \in 1 .. 4 /\ d \in Nat \ {0} /\ l \in Nat \ {0}
      /\ rowgroup_height(c) \in Nat \ {0} /\ rowgroup_height(c) * min_DCT = v * d
      /\ min_DCT \in Nat
  <2>1. min_DCT \in 1 .. 16 /\ d \in {min_DCT, 2 * min_DCT} /\ v \in 1 .. 4
    BY JobTypes
  <2>2. d \in Nat \ {0} /\ min_DCT \in Nat
    BY <2>1
  <2> QED BY <2>1, <2>2, Factors, Geometry
<1>2. y \in 0 .. v - 1 /\ Y < height_in_blocks(c)
  BY <1>1, RowsInIMCU
<1>3. StripHolds(row, min_DCT) => \A r \in 0 .. v * d - 1 : strip[c][r] = Sample(c, row * (v * d) + r)
  <2>1. min_DCT * rowgroup_height(c) = v * d
    BY <1>1
  <2> HIDE DEF v, d
  <2> QED BY <2>1 DEF StripHolds, v, d
<1>4. ASSUME NEW r \in 1 .. d
      PROVE  strip[c][y * d + r - 1] = Sample(c, Y * d + r - 1)
  <2>1. row \in Nat
    OBVIOUS
  <2> HIDE DEF v, d
  <2>2. y * d \in Nat /\ v * d \in Nat /\ (y + 1) * d = y * d + d /\ (y + 1) * d <= v * d
    <3>1. y + 1 \in Int /\ v \in Int /\ y + 1 <= v /\ y \in Nat
      BY <1>1, <1>2
    <3> QED BY <3>1, <1>1, ProductOrder
  <2>3. y * d + r - 1 \in 0 .. v * d - 1
    BY <2>2, <1>1
  <2>4. row * (v * d) + (y * d + r - 1) = Y * d + r - 1
    BY <2>1, <1>1, <1>2
  <2>5. strip[c][y * d + r - 1] = Sample(c, row * (v * d) + (y * d + r - 1))
    BY <1>3, <2>3
  <2> QED BY <2>4, <2>5
<1>5. ASSUME NEW x \in Nat
      PROVE  forward_DCT(c, y, x) = [dc |-> ImageBlock(c, Y, x), ac |-> ImageBlock(c, Y, x)]
  <2>1. [r \in 1 .. d |-> strip[c][y * d + r - 1]] = [r \in 1 .. d |-> Sample(c, Y * d + r - 1)]
    BY <1>4
  <2> QED BY <2>1 DEF forward_DCT, ImageBlock
<1> HIDE DEF v, d, Y
<1>6. CASE first + k < l
  <2>1. first + k \in Nat
    OBVIOUS
  <2>2. BlockAt(c, w, Y, first, k) = [dc |-> ImageBlock(c, Y, first + k), ac |-> ImageBlock(c, Y, first + k)]
    BY <1>2, <1>6, Zenon DEF BlockAt
  <2> QED BY <1>5, <1>6, <2>1, <2>2 DEF v, Y
<1>7. CASE ~(first + k < l)
  <2>1. l - 1 \in Nat
    BY <1>1
  <2>2. BlockAt(c, w, Y, first, k) = [dc |-> ImageBlock(c, Y, l - 1), ac |-> "zeroes"]
    BY <1>2, <1>7, Zenon DEF BlockAt
  <2>3. DummyOf(forward_DCT(c, y, l - 1)) = [dc |-> ImageBlock(c, Y, l - 1), ac |-> "zeroes"]
    <3>1. forward_DCT(c, y, l - 1).dc = ImageBlock(c, Y, l - 1)
      BY <1>5, <2>1
    <3> QED BY <3>1 DEF DummyOf
  <2> QED BY <1>7, <2>2, <2>3 DEF Y, v
<1> QED BY <1>6, <1>7

\* A dummy below the image is made from the last block of the row above it.
LEMMA DummyBelow ==
  ASSUME Sized, NEW c \in Components, NEW y \in Nat \ {0}, height_in_blocks(c) <= y,
         NEW w \in 1 .. 4, NEW first \in Nat, NEW k \in 0 .. w - 1
  PROVE  BlockAt(c, w, y, first, k) = DummyOf(BlockAt(c, w, y - 1, first, w - 1))
<1> DEFINE n == height_in_blocks(c)
           l == width_in_blocks(c)
           last == first + w - 1
           column == IF last < l THEN last ELSE l - 1
<1>1. n \in Nat \ {0}
  BY Geometry
<1>2. BlockAt(c, w, y, first, k) = [dc |-> ImageBlock(c, n - 1, column), ac |-> "zeroes"]
  <2>1. ~(y < n)
    BY <1>1
  <2> QED BY <2>1, Zenon DEF BlockAt
<1>3. BlockAt(c, w, y - 1, first, w - 1).dc = ImageBlock(c, n - 1, column)
  <2>1. CASE y - 1 < n
    <3>1. y - 1 = n - 1
      BY <1>1, <2>1
    <3>2. first + (w - 1) = last
      OBVIOUS
    <3> QED BY <2>1, <3>1, <3>2 DEF BlockAt
  <2>2. CASE ~(y - 1 < n)
    BY <2>2 DEF BlockAt
  <2> QED BY <2>1, <2>2
<1> QED BY <1>2, <1>3 DEF DummyOf

\* The coefficient controller has MCUs to send.
CoefAt ==
  /\ coef.iMCU_row_num \in 0 .. iMCU_rows - 1
  /\ coef.mcu_ctr \in 0 .. MCUs_per_row - 1
  /\ coef.MCU_vert_offset \in 0 .. MCU_rows_per_iMCU_row(coef.iMCU_row_num) - 1

\* The row of MCUs of the scan it is in, or their number when all are sent.
MCURow ==
  IF interleaved THEN coef.iMCU_row_num
  ELSE IF coef.iMCU_row_num = iMCU_rows THEN height_in_blocks(scan[1])
  ELSE coef.iMCU_row_num * comp(scan[1]).v + coef.MCU_vert_offset

\* Where block row y of the MCU is, in the image and in the iMCU row.
LEMMA BlockRowOfMCU ==
  ASSUME InScan, CoefAt, NEW j \in DOMAIN scan
  PROVE  LET c == scan[j]
             num == coef.iMCU_row_num
             top == coef.MCU_vert_offset
         IN /\ MCURow \in Nat /\ top \in 0 .. BlockRows(c, num) - 1
            /\ MCURow * MCU_height(c) < height_in_blocks(c)
            /\ coef.mcu_ctr * MCU_width(c) < width_in_blocks(c)
            /\ \A y \in 0 .. MCU_height(c) - 1 :
                 /\ MCURow * MCU_height(c) + y = num * comp(c).v + (top + y)
                 /\ top + y \in 0 .. comp(c).v - 1
                 /\ top + y < BlockRows(c, num) <=> MCURow * MCU_height(c) + y < height_in_blocks(c)
<1> DEFINE c == scan[j]
           num == coef.iMCU_row_num
           top == coef.MCU_vert_offset
           v == comp(c).v
           w == MCU_width(c)
           b == BlockRows(c, num)
<1>1. /\ c \in Components /\ num \in 0 .. iMCU_rows - 1 /\ Sized
      /\ w \in 1 .. 4 /\ MCUs_per_row \in Nat \ {0} /\ coef.mcu_ctr \in 0 .. MCUs_per_row - 1
      /\ (MCUs_per_row - 1) * w < width_in_blocks(c)
      /\ width_in_blocks(c) \in Nat \ {0} /\ height_in_blocks(c) \in Nat \ {0}
      /\ iMCU_rows \in Nat \ {0}
      /\ interleaved \in BOOLEAN
  BY ScanGeometry, ScanTypes, Geometry DEF CoefAt, InScan
<1>2. /\ v \in 1 .. 4 /\ b \in 1 .. v
      /\ \A y \in 0 .. v - 1 : y < b <=> num * v + y < height_in_blocks(c)
  BY <1>1, JobTypes, RowsInIMCU
<1>3. coef.mcu_ctr * w < width_in_blocks(c)
  <2> DEFINE k == coef.mcu_ctr
             m == MCUs_per_row - 1
  <2>1. k \in Int /\ m \in Int /\ k <= m /\ w \in Nat \ {0}
    BY <1>1
  <2> HIDE DEF k, m, w
  <2>2. k * w <= m * w
    BY <2>1, ProductOrder
  <2>3. m * w < width_in_blocks(c)
    BY <1>1 DEF m
  <2>4. k * w \in Int /\ m * w \in Int
    BY <2>1
  <2> HIDE DEF c
  <2>5. k * w < width_in_blocks(c)
    BY <1>1, <2>2, <2>3, <2>4
  <2> QED BY <2>5 DEF k
<1>4. top \in 0 .. b - 1
  <2>1. CASE interleaved
    <3>1. top \in 0 .. 1 - 1
      BY <2>1 DEF CoefAt, MCU_rows_per_iMCU_row
    <3> HIDE DEF b, v, top
    <3> QED BY <3>1, <1>2
  <2>2. CASE ~interleaved
    <3>1. scan[1] = c
      BY <2>2, ScanGeometry
    <3> QED BY <2>2, <3>1 DEF CoefAt, MCU_rows_per_iMCU_row
  <2> QED BY <1>1, <2>1, <2>2
<1>5. /\ MCURow \in Nat
      /\ \A y \in 0 .. MCU_height(c) - 1 :
           MCURow * MCU_height(c) + y = num * v + (top + y) /\ top + y \in 0 .. v - 1
  <2>1. CASE interleaved
    <3>1. MCURow = num /\ MCU_height(c) = v /\ top = 0
      BY <2>1, <1>2 DEF CoefAt, MCU_rows_per_iMCU_row, MCURow, MCU_height
    <3> HIDE DEF top, v, num, c
    <3>2. num \in Nat /\ num * v \in Nat
      BY <1>1, <1>2
    <3> QED BY <3>1, <3>2, <1>2
  <2>2. CASE ~interleaved
    <3>1. scan[1] = c
      BY <2>2, ScanGeometry
    <3>2. MCURow = num * v + top /\ MCU_height(c) = 1
      <4>1. num # iMCU_rows
        BY <1>1
      <4> QED BY <2>2, <3>1, <4>1 DEF MCURow, MCU_height
    <3> HIDE DEF top, v, num, c, b
    <3>3. num \in Nat /\ num * v \in Nat /\ top \in 0 .. v - 1
      BY <1>1, <1>2, <1>4
    <3> QED BY <3>2, <3>3
  <2> QED BY <1>1, <2>1, <2>2
<1>6. MCU_height(c) \in 1 .. 4
  BY ScanGeometry
<1> HIDE DEF c, num, top, v, w, b
<1>7. ASSUME NEW y \in 0 .. MCU_height(c) - 1
      PROVE  top + y < b <=> MCURow * MCU_height(c) + y < height_in_blocks(c)
  BY <1>2, <1>5
<1>8. MCURow * MCU_height(c) < height_in_blocks(c)
  <2>1. 0 \in 0 .. MCU_height(c) - 1 /\ top + 0 < b
    BY <1>2, <1>4, <1>6
  <2>2. MCURow * MCU_height(c) + 0 < height_in_blocks(c)
    BY <1>7, <2>1
  <2>3. MCURow * MCU_height(c) \in Int
    BY <1>5, <1>6
  <2> QED BY <2>2, <2>3
<1> QED BY <1>3, <1>4, <1>5, <1>7, <1>8 DEF c, num, top, v, w, b

\* What MCUBlocks makes of the rows above.
MadeBlock(c, row, y, x) ==
  LET width == MCU_width(c)
      real == IF coef.mcu_ctr < MCUs_per_row - 1 THEN width ELSE last_col_width(c)
      top == coef.MCU_vert_offset
  IN IF top + y < BlockRows(c, coef.iMCU_row_num)
     THEN LET block == forward_DCT(c, top + y, coef.mcu_ctr * width + Min({x, real}) - 1)
          IN IF x <= real THEN block ELSE DummyOf(block)
     ELSE DummyOf(row[y - 1][width])

MadeRows(row, c) ==
  row = [y \in 0 .. MCU_height(c) - 1 |-> [x \in 1 .. MCU_width(c) |-> MadeBlock(c, row, y, x)]]

\* What it should make.
RowOfMCU(c, y) ==
  [x \in 1 .. MCU_width(c) |->
     BlockAt(c, MCU_width(c), MCURow * MCU_height(c) + y, coef.mcu_ctr * MCU_width(c), x - 1)]

LEMMA MadeRight ==
  ASSUME InScan, CoefAt, StripHolds(coef.iMCU_row_num, min_DCT), NEW j \in DOMAIN scan,
         NEW row, NEW y \in 0 .. MCU_height(scan[j]) - 1,
         y # 0 => row[y - 1] = RowOfMCU(scan[j], y - 1),
         NEW x \in 1 .. MCU_width(scan[j])
  PROVE  MadeBlock(scan[j], row, y, x) = RowOfMCU(scan[j], y)[x]
<1> DEFINE c == scan[j]
           num == coef.iMCU_row_num
           top == coef.MCU_vert_offset
           w == MCU_width(c)
           h == MCU_height(c)
           l == width_in_blocks(c)
           m == coef.mcu_ctr
           M == MCUs_per_row
           first == m * w
           real == IF m < M - 1 THEN w ELSE last_col_width(c)
           b == BlockRows(c, num)
           Y == MCURow * h + y
<1>1. /\ c \in Components /\ w \in 1 .. 4 /\ h \in 1 .. 4 /\ M \in Nat \ {0} /\ l \in Nat \ {0}
      /\ (M - 1) * w < l /\ l <= M * w /\ last_col_width(c) = l - (M - 1) * w
      /\ m \in 0 .. M - 1 /\ num \in 0 .. iMCU_rows - 1 /\ Sized
  BY ScanGeometry, Geometry DEF CoefAt, InScan
<1>2. /\ MCURow \in Nat /\ top \in 0 .. b - 1
      /\ Y = num * comp(c).v + (top + y)
      /\ top + y \in 0 .. comp(c).v - 1
      /\ top + y < b <=> Y < height_in_blocks(c)
      /\ b \in Nat /\ top \in Nat
  <2>1. comp(c).v \in 1 .. 4 /\ b \in 1 .. comp(c).v
    BY <1>1, JobTypes, RowsInIMCU
  <2>2. b \in Nat
    <3> HIDE DEF b, c
    <3> QED BY <2>1
  <2> QED BY <2>2, BlockRowOfMCU
<1>3. /\ first \in Nat
      /\ x <= real <=> first + (x - 1) < l
      /\ first + Min({x, real}) - 1 = IF first + (x - 1) < l THEN first + (x - 1) ELSE l - 1
  <2>1. first \in Nat /\ (M - 1) * w \in Int
    BY <1>1
  <2>2. real \in Int /\ x \in Int /\ x <= w
    BY <1>1, <2>1
  <2>3. Min({x, real}) = IF x <= real THEN x ELSE real
    <3> HIDE DEF real
    <3> QED BY <2>2, MinOfTwo
  <2>4. IF m < M - 1 THEN real = w /\ first + w <= (M - 1) * w
        ELSE first = (M - 1) * w /\ real = l - first
    <3>1. CASE m < M - 1
      <4> HIDE DEF m, M, w, c, num, l
      <4>1. m + 1 \in Int /\ M - 1 \in Int /\ m + 1 <= M - 1 /\ w \in Nat \ {0} /\ m \in Int
        BY <1>1, <3>1
      <4>2. (m + 1) * w <= (M - 1) * w
        BY <4>1, ProductOrder
      <4>3. (m + 1) * w = m * w + w
        BY <4>1
      <4> QED BY <3>1, <4>2, <4>3
    <3>2. CASE ~(m < M - 1)
      <4>1. m = M - 1
        BY <1>1, <3>2
      <4> QED BY <4>1, <1>1, <3>2
    <3> QED BY <3>1, <3>2
  <2> DEFINE q == (M - 1) * w
  <2>5. q \in Int /\ q < l
    BY <1>1, <2>1
  <2> HIDE DEF q, real
  <2>6. IF m < M - 1 THEN real = w /\ first + w <= q ELSE first = q /\ real = l - first
    BY <2>4 DEF q
  <2> HIDE DEF first
  <2>7. x <= real <=> first + (x - 1) < l
    <3>1. CASE m < M - 1
      BY <2>1, <2>2, <2>5, <2>6, <1>1, <3>1
    <3>2. CASE ~(m < M - 1)
      BY <2>1, <2>2, <2>5, <2>6, <1>1, <3>2
    <3> QED BY <3>1, <3>2
  <2>8. first + Min({x, real}) - 1 = IF first + (x - 1) < l THEN first + (x - 1) ELSE l - 1
    <3>1. CASE x <= real
      BY <2>1, <2>2, <2>3, <2>7, <3>1
    <3>2. CASE ~(x <= real)
      <4>1. ~(m < M - 1) /\ real = l - first
        BY <2>2, <2>6, <3>2
      <4> QED BY <1>1, <2>1, <2>2, <2>3, <2>7, <3>2, <4>1
    <3> QED BY <3>1, <3>2
  <2> QED BY <2>1, <2>7, <2>8
<1>4. RowOfMCU(c, y)[x] = BlockAt(c, w, Y, first, x - 1)
  BY DEF RowOfMCU
<1>5. MadeBlock(c, row, y, x) =
        IF top + y < b
        THEN LET block == forward_DCT(c, top + y, first + Min({x, real}) - 1)
             IN IF x <= real THEN block ELSE DummyOf(block)
        ELSE DummyOf(row[y - 1][w])
  BY DEF MadeBlock
<1>6. x - 1 \in 0 .. w - 1 /\ y \in Nat /\ y <= h - 1
  <2>1. y \in 0 .. h - 1 /\ x \in 1 .. w
    OBVIOUS
  <2> HIDE DEF h, w
  <2> QED BY <1>1, <2>1
<1>7. CASE top + y < b
  <2>1. top + y \in 0 .. b - 1
    <3> HIDE DEF top, b, Y, num, c
    <3> QED BY <1>2, <1>6, <1>7
  <2>2. BlockAt(c, w, num * comp(c).v + (top + y), first, x - 1) =
          IF first + (x - 1) < l THEN forward_DCT(c, top + y, first + (x - 1))
          ELSE DummyOf(forward_DCT(c, top + y, l - 1))
    <3> HIDE DEF c, num, top, w, first
    <3> QED BY <1>1, <1>3, <1>6, <2>1, RealRow DEF l, b, num
  <2> HIDE DEF c, num, top, w, l, first, real, b, Y
  <2>3. BlockAt(c, w, Y, first, x - 1) = MadeBlock(c, row, y, x)
    <3>1. CASE x <= real
      BY <1>2, <1>3, <1>5, <1>7, <2>2, <3>1, Zenon
    <3>2. CASE ~(x <= real)
      BY <1>2, <1>3, <1>5, <1>7, <2>2, <3>2, Zenon
    <3> QED BY <3>1, <3>2
  <2> QED BY <1>4, <2>3 DEF c
<1>8. CASE ~(top + y < b)
  <2>1. y # 0
    <3> HIDE DEF top, b, Y, num, c
    <3> QED BY <1>2, <1>6, <1>8
  <2>2. w \in 1 .. w /\ w - 1 \in 0 .. w - 1
    BY <1>1
  <2>3. row[y - 1][w] = BlockAt(c, w, MCURow * h + (y - 1), first, w - 1)
    <3>1. row[y - 1] = RowOfMCU(c, y - 1)
      BY <2>1
    <3>2. RowOfMCU(c, y - 1)[w] = BlockAt(c, w, MCURow * h + (y - 1), first, w - 1)
      BY <2>2 DEF RowOfMCU
    <3> QED BY <3>1, <3>2
  <2>4. MCURow * h + (y - 1) = Y - 1 /\ Y \in Nat \ {0} /\ height_in_blocks(c) <= Y
    <3>1. h \in Nat /\ MCURow * h \in Nat /\ height_in_blocks(c) \in Nat
      BY <1>1, <1>2, Geometry
    <3> DEFINE q == MCURow * h
    <3> HIDE DEF q
    <3>2. q \in Nat /\ Y = q + y
      BY <3>1 DEF q
    <3> HIDE DEF Y, c
    <3>3. q + (y - 1) = Y - 1 /\ Y \in Nat \ {0} /\ height_in_blocks(c) <= Y
      BY <3>1, <3>2, <1>2, <1>8, <2>1
    <3> QED BY <3>3 DEF q
  <2>5. BlockAt(c, w, Y, first, x - 1) = DummyOf(BlockAt(c, w, Y - 1, first, w - 1))
    <3> HIDE DEF c, w, Y, first
    <3> QED BY <1>1, <1>3, <1>6, <2>4, DummyBelow
  <2> HIDE DEF c, num, top, w, l, first, real, b, Y
  <2> QED BY <1>4, <1>5, <1>8, <2>3, <2>4, <2>5 DEF c
<1> QED BY <1>7, <1>8

\* compress_data makes the blocks of the image.
LEMMA MCUBlocksRight ==
  ASSUME InScan, CoefAt, StripHolds(coef.iMCU_row_num, min_DCT), NEW j \in DOMAIN scan
  PROVE  MCUBlocks(scan[j]) = FlattenSeq(Grid(scan[j], MCURow, coef.mcu_ctr))
<1> DEFINE c == scan[j]
           h == MCU_height(c)
           w == MCU_width(c)
           made == CHOOSE row : MadeRows(row, c)
           right == [y \in 0 .. h - 1 |-> RowOfMCU(c, y)]
<1>1. h \in 1 .. 4
  BY ScanGeometry
<1>2. ASSUME NEW row, NEW y \in 0 .. h - 1, y # 0 => row[y - 1] = RowOfMCU(c, y - 1)
      PROVE  [x \in 1 .. w |-> MadeBlock(c, row, y, x)] = RowOfMCU(c, y)
  <2>1. \A x \in 1 .. w : MadeBlock(c, row, y, x) = RowOfMCU(c, y)[x]
    BY <1>2, MadeRight
  <2>2. RowOfMCU(c, y) = [x \in 1 .. w |-> RowOfMCU(c, y)[x]]
    BY DEF RowOfMCU
  <2> HIDE DEF c, w
  <2> QED BY <2>1, <2>2
<1> HIDE DEF c, h, w
<1>3. MadeRows(right, c)
  <2>1. ASSUME NEW y \in 0 .. h - 1
        PROVE  [x \in 1 .. w |-> MadeBlock(c, right, y, x)] = RowOfMCU(c, y)
    <3>1. ASSUME y # 0  PROVE right[y - 1] = RowOfMCU(c, y - 1)
      <4>1. y - 1 \in 0 .. h - 1
        BY <1>1, <3>1
      <4> QED BY <4>1
    <3> QED BY <1>2, <3>1
  <2>2. right = [y \in 0 .. h - 1 |-> [x \in 1 .. w |-> MadeBlock(c, right, y, x)]]
    BY <2>1
  <2> HIDE DEF right
  <2> QED BY <2>2 DEF MadeRows, h, w
<1>4. MadeRows(made, c)
  BY <1>3
<1> HIDE DEF made, right
<1>5. \A y \in 0 .. h - 1 : made[y] = [x \in 1 .. w |-> MadeBlock(c, made, y, x)]
  BY <1>4 DEF MadeRows, h, w
<1>6. \A y \in 0 .. h - 1 : made[y] = RowOfMCU(c, y)
  <2> DEFINE P == {y \in 0 .. h - 1 : made[y] = RowOfMCU(c, y)}
  <2>1. 0 \in P
    <3>1. 0 \in 0 .. h - 1
      BY <1>1
    <3> QED BY <1>2, <1>5, <3>1
  <2>2. ASSUME NEW y \in 0 .. h - 1, y # 0, y - 1 \in P  PROVE y \in P
    BY <1>2, <1>5, <2>2
  <2> HIDE DEF P
  <2>3. \A y \in 0 .. h - 1 : y \in P
    <3>1. 0 \in Int /\ h - 1 \in Int
      BY <1>1
    <3> QED BY <2>1, <2>2, <3>1, IntervalInduction
  <2> QED BY <2>3 DEF P
<1>7. MCUBlocks(c) = FlattenSeq([y \in 1 .. h |-> made[y - 1]])
  BY DEF MCUBlocks, MadeRows, MadeBlock, made, h
<1>8. ASSUME NEW y \in 1 .. h  PROVE made[y - 1] = Grid(c, MCURow, coef.mcu_ctr)[y]
  <2>1. y - 1 \in 0 .. h - 1 /\ y \in 1 .. MCU_height(c)
    BY <1>1 DEF h
  <2>2. made[y - 1] = RowOfMCU(c, y - 1)
    BY <1>6, <2>1
  <2>3. h \in Nat /\ MCURow \in Nat
    BY <1>1, BlockRowOfMCU
  <2>4. MCURow * h + (y - 1) = MCURow * h + y - 1
    BY <2>3
  <2> QED BY <2>1, <2>2, <2>4, Zenon DEF RowOfMCU, Grid, h
<1>9. [y \in 1 .. h |-> made[y - 1]] = Grid(c, MCURow, coef.mcu_ctr)
  <2>1. Grid(c, MCURow, coef.mcu_ctr) = [y \in 1 .. h |-> Grid(c, MCURow, coef.mcu_ctr)[y]]
    BY DEF Grid, h
  <2> QED BY <1>8, <2>1
<1> QED BY <1>7, <1>9 DEF c

\* Where column x of an array is in its MCUs of w blocks in a row.
LEMMA PlaceInRow ==
  ASSUME NEW w \in 1 .. 4, NEW n \in Nat, NEW x \in 0 .. n * w - 1
  PROVE  LET first == (x \div w) * w
         IN /\ first \in Nat /\ x % w \in 0 .. w - 1 /\ first + (x % w) = x
            /\ x - (x % w) + w - 1 = first + w - 1
            /\ first + w - 1 \in 0 .. n * w - 1
            /\ ((first + w - 1) \div w) * w = first /\ (first + w - 1) % w = w - 1
<1> DEFINE d == x \div w
           r == x % w
           first == d * w
<1>1. w \in Nat \ {0} /\ n * w \in Nat
  OBVIOUS
<1>2. x \in Nat /\ x < n * w
  BY <1>1
<1>3. d \in Int /\ first <= x /\ x < first + w /\ r = x - first
  BY <1>1, <1>2, DivIs, RemainderIs
<1>4. d \in Nat /\ d < n
  BY <1>1, <1>2, DivBelow
<1> HIDE DEF d, r
<1>5. d + 1 <= n /\ d + 1 \in Int
  BY <1>4
<1>6. (d + 1) * w <= n * w /\ (d + 1) * w = first + w /\ first \in Nat
  BY <1>1, <1>4, <1>5, ProductOrder
<1>7. first + w - 1 \in Int /\ d * w <= first + w - 1 /\ first + w - 1 < d * w + w
  BY <1>1, <1>6
<1>8. (first + w - 1) \div w = d
  BY <1>1, <1>4, <1>7, DivUnique
<1>9. (first + w - 1) % w = (first + w - 1) - d * w
  <2>1. \A a \in Int : a \div w = d => a % w = a - d * w
    <3>1. \A a \in Int : a % w = a - (a \div w) * w
      BY <1>1, RemainderIs
    <3> QED BY <3>1
  <2> QED BY <1>7, <1>8, <2>1, Zenon
<1> HIDE DEF first
<1>10. /\ first \in Nat /\ r \in 0 .. w - 1 /\ first + r = x
       /\ x - r + w - 1 = first + w - 1
       /\ first + w - 1 \in 0 .. n * w - 1
       /\ (first + w - 1) % w = w - 1
  <2>1. (first + w - 1) % w = (first + w - 1) - first
    BY <1>9, Zenon DEF first
  <2> DEFINE q == (first + w - 1) % w
             p == n * w
  <2>2. q = (first + w - 1) - first /\ p \in Nat
    BY <2>1, <1>1
  <2>3. first + w <= p /\ first \in Nat /\ first <= x /\ x < first + w /\ r = x - first
    BY <1>3, <1>6 DEF first
  <2> HIDE DEF q, p
  <2>4. /\ first \in Nat /\ r \in 0 .. w - 1 /\ first + r = x
        /\ x - r + w - 1 = first + w - 1
        /\ first + w - 1 \in 0 .. p - 1
        /\ q = w - 1
    BY <1>1, <1>2, <2>2, <2>3
  <2> QED BY <2>4 DEF q, p
<1> QED BY <1>8, <1>10 DEF first, d, r

\* What compress_first_pass makes, of the row above for a dummy.
KeptBlock(c, row, y, x) ==
  IF y < BlockRows(c, coef.iMCU_row_num)
  THEN LET last == width_in_blocks(c) - 1
       IN IF x <= last THEN forward_DCT(c, y, x) ELSE DummyOf(forward_DCT(c, y, last))
  ELSE DummyOf(row[y - 1][x - (x % comp(c).h) + comp(c).h - 1])

KeptRows(row, c) ==
  row = [y \in 0 .. comp(c).v - 1 |->
           [x \in 0 .. round_up(width_in_blocks(c), comp(c).h) * comp(c).h - 1 |->
              KeptBlock(c, row, y, x)]]

\* What the array should have in row y.
RowOfArray(c, y) ==
  [x \in 0 .. across * comp(c).h - 1 |->
     BlockAt(c, comp(c).h, y, (x \div comp(c).h) * comp(c).h, x % comp(c).h)]

LEMMA KeptRight ==
  ASSUME Sized, NEW c \in Components, coef.iMCU_row_num \in 0 .. iMCU_rows - 1,
         StripHolds(coef.iMCU_row_num, min_DCT),
         NEW row, NEW y \in 0 .. comp(c).v - 1,
         y # 0 => row[y - 1] = RowOfArray(c, coef.iMCU_row_num * comp(c).v + y - 1),
         NEW x \in 0 .. across * comp(c).h - 1
  PROVE  KeptBlock(c, row, y, x) = RowOfArray(c, coef.iMCU_row_num * comp(c).v + y)[x]
<1> DEFINE num == coef.iMCU_row_num
           v == comp(c).v
           w == comp(c).h
           l == width_in_blocks(c)
           b == BlockRows(c, num)
           Y == num * v + y
           first == (x \div w) * w
           k == x % w
           n == height_in_blocks(c)
<1>1. /\ v \in 1 .. 4 /\ w \in 1 .. 4 /\ l \in Nat \ {0} /\ b \in 1 .. v /\ num \in Nat
      /\ across \in Nat \ {0} /\ n \in Nat \ {0}
      /\ \A t \in 0 .. v - 1 : t < b <=> num * v + t < n
  <2>1. iMCU_rows \in Nat \ {0} /\ num \in 0 .. iMCU_rows - 1
    BY Geometry
  <2>2. num \in Nat
    <3> HIDE DEF num
    <3> QED BY <2>1
  <2>3. v \in 1 .. 4 /\ w \in 1 .. 4 /\ l \in Nat \ {0} /\ across \in Nat \ {0} /\ n \in Nat \ {0}
    BY JobTypes, Geometry
  <2>4. b \in 1 .. v /\ \A t \in 0 .. v - 1 : t < b <=> num * v + t < n
    BY <2>1, RowsInIMCU
  <2> QED BY <2>2, <2>3, <2>4
<1>2. /\ first \in Nat /\ k \in 0 .. w - 1 /\ first + k = x
      /\ x - (x % w) + w - 1 = first + w - 1
      /\ first + w - 1 \in 0 .. across * w - 1
      /\ ((first + w - 1) \div w) * w = first /\ (first + w - 1) % w = w - 1
  <2> HIDE DEF w
  <2>1. x \in 0 .. across * w - 1 /\ across \in Nat
    BY <1>1 DEF w
  <2> QED BY <1>1, <2>1, PlaceInRow
<1>3. RowOfArray(c, Y)[x] = BlockAt(c, w, Y, first, k)
  BY DEF RowOfArray
<1>4. x \in Nat /\ y \in Nat /\ y <= v - 1
  <2>1. across * w \in Nat
    BY <1>1
  <2> HIDE DEF w, v
  <2> QED BY <1>1, <2>1 DEF v, w
<1>5. CASE y < b
  <2>1. y \in 0 .. b - 1
    <3> HIDE DEF b
    <3> QED BY <1>1, <1>4, <1>5
  <2>2. BlockAt(c, w, Y, first, k) =
          IF first + k < l THEN forward_DCT(c, y, first + k)
          ELSE DummyOf(forward_DCT(c, y, l - 1))
    <3>1. num \in 0 .. iMCU_rows - 1 /\ StripHolds(num, min_DCT)
      OBVIOUS
    <3> HIDE DEF num, w, first, k
    <3>2. w \in 1 .. 4 /\ first \in Nat /\ k \in 0 .. w - 1
      BY <1>1, <1>2
    <3> QED BY <2>1, <3>1, <3>2, RealRow, Zenon DEF b, l, v
  <2>3. KeptBlock(c, row, y, x) =
          IF x <= l - 1 THEN forward_DCT(c, y, x) ELSE DummyOf(forward_DCT(c, y, l - 1))
    BY <1>5 DEF KeptBlock
  <2> HIDE DEF num, v, w, l, b, Y, first, k, n
  <2>4. x <= l - 1 <=> first + k < l
    BY <1>1, <1>2, <1>4
  <2>5. KeptBlock(c, row, y, x) = RowOfArray(c, Y)[x]
    BY <1>2, <1>3, <2>2, <2>3, <2>4, Zenon
  <2> QED BY <2>5 DEF Y, num, v
<1>6. CASE ~(y < b)
  <2>1. y # 0 /\ ~(num * v + y < n)
    <3> HIDE DEF b, v, n
    <3> QED BY <1>1, <1>4, <1>6
  <2>2. row[y - 1][first + w - 1] = BlockAt(c, w, num * v + y - 1, first, w - 1)
    <3>1. row[y - 1] = RowOfArray(c, num * v + y - 1)
      BY <2>1
    <3>2. RowOfArray(c, num * v + y - 1)[first + w - 1]
            = BlockAt(c, w, num * v + y - 1, ((first + w - 1) \div w) * w, (first + w - 1) % w)
      BY <1>2 DEF RowOfArray
    <3> HIDE DEF first, w, num, v
    <3> QED BY <1>2, <3>1, <3>2
  <2>3. KeptBlock(c, row, y, x) = DummyOf(row[y - 1][first + w - 1])
    <3>1. KeptBlock(c, row, y, x) = DummyOf(row[y - 1][x - (x % w) + w - 1])
      BY <1>6 DEF KeptBlock
    <3> HIDE DEF first, w
    <3> QED BY <1>2, <3>1
  <2>4. Y \in Nat \ {0} /\ n <= Y
    <3>1. num * v \in Nat
      BY <1>1
    <3> HIDE DEF n, v, num
    <3> QED BY <1>1, <1>4, <2>1, <3>1
  <2>5. BlockAt(c, w, Y, first, k) = DummyOf(BlockAt(c, w, Y - 1, first, w - 1))
    <3> HIDE DEF w, Y, first, k
    <3> QED BY <1>1, <1>2, <2>4, DummyBelow DEF n
  <2> HIDE DEF num, v, w, l, b, first, k, n
  <2>6. Y - 1 = num * v + y - 1
    <3>1. num * v \in Nat
      BY <1>1
    <3> QED BY <3>1, <1>4
  <2> HIDE DEF Y
  <2>7. KeptBlock(c, row, y, x) = RowOfArray(c, Y)[x]
    BY <1>3, <2>2, <2>3, <2>5, <2>6, Zenon
  <2> QED BY <2>7 DEF num, v, Y
<1> QED BY <1>5, <1>6

LEMMA StoredRight ==
  ASSUME Sized, NEW c \in Components, coef.iMCU_row_num \in 0 .. iMCU_rows - 1,
         StripHolds(coef.iMCU_row_num, min_DCT), NEW y \in 0 .. comp(c).v - 1
  PROVE  StoredBlocks(c)[y] = RowOfArray(c, coef.iMCU_row_num * comp(c).v + y)
<1> DEFINE v == comp(c).v
           w == comp(c).h
           base == coef.iMCU_row_num * v
           kept == CHOOSE row : KeptRows(row, c)
           right == [t \in 0 .. v - 1 |-> RowOfArray(c, base + t)]
           n == across * w
<1>1. v \in 1 .. 4 /\ base \in Nat
  <2>1. iMCU_rows \in Nat \ {0} /\ v \in 1 .. 4
    BY JobTypes, Geometry
  <2>2. coef.iMCU_row_num \in Nat
    BY <2>1
  <2> HIDE DEF v
  <2> QED BY <2>1, <2>2
<1>2. round_up(width_in_blocks(c), w) * w = n
  BY Geometry
<1>3. ASSUME NEW row, NEW t \in 0 .. v - 1, t # 0 => row[t - 1] = RowOfArray(c, base + (t - 1))
      PROVE  [x \in 0 .. n - 1 |-> KeptBlock(c, row, t, x)] = RowOfArray(c, base + t)
  <2>1. base + (t - 1) = base + t - 1
    <3> HIDE DEF base, v
    <3> QED BY <1>1
  <2>2. \A x \in 0 .. n - 1 : KeptBlock(c, row, t, x) = RowOfArray(c, base + t)[x]
    BY <1>3, <2>1, KeptRight
  <2>3. RowOfArray(c, base + t) = [x \in 0 .. n - 1 |-> RowOfArray(c, base + t)[x]]
    BY DEF RowOfArray
  <2> HIDE DEF n, base, v
  <2> QED BY <2>2, <2>3
<1>4. StoredBlocks(c) = kept
  BY DEF StoredBlocks, KeptRows, KeptBlock
<1>5. \A row : KeptRows(row, c) <=>
        row = [t \in 0 .. v - 1 |-> [x \in 0 .. n - 1 |-> KeptBlock(c, row, t, x)]]
  <2> HIDE DEF n
  <2> QED BY <1>2 DEF KeptRows, w
<1> HIDE DEF n, w, base, v
<1>6. KeptRows(right, c)
  <2>1. ASSUME NEW t \in 0 .. v - 1
        PROVE  [x \in 0 .. n - 1 |-> KeptBlock(c, right, t, x)] = RowOfArray(c, base + t)
    <3>1. ASSUME t # 0  PROVE right[t - 1] = RowOfArray(c, base + (t - 1))
      <4>1. t - 1 \in 0 .. v - 1
        BY <1>1, <3>1
      <4> QED BY <4>1
    <3> HIDE DEF right
    <3> QED BY <1>3, <3>1
  <2>2. right = [t \in 0 .. v - 1 |-> [x \in 0 .. n - 1 |-> KeptBlock(c, right, t, x)]]
    BY <2>1
  <2> HIDE DEF right
  <2> QED BY <1>5, <2>2
<1>7. KeptRows(kept, c)
  BY <1>6
<1> HIDE DEF kept, right
<1>8. \A t \in 0 .. v - 1 : kept[t] = [x \in 0 .. n - 1 |-> KeptBlock(c, kept, t, x)]
  <2>1. kept = [t \in 0 .. v - 1 |-> [x \in 0 .. n - 1 |-> KeptBlock(c, kept, t, x)]]
    BY <1>5, <1>7, Zenon
  <2> QED BY <2>1
<1> DEFINE P == {t \in 0 .. v - 1 : kept[t] = RowOfArray(c, base + t)}
<1>9. 0 \in P
  <2>1. 0 \in 0 .. v - 1
    BY <1>1
  <2> QED BY <1>3, <1>8, <2>1
<1>10. ASSUME NEW t \in 0 .. v - 1, t # 0, t - 1 \in P  PROVE t \in P
  BY <1>3, <1>8, <1>10
<1> HIDE DEF P
<1>11. \A t \in 0 .. v - 1 : t \in P
  <2>1. 0 \in Int /\ v - 1 \in Int
    BY <1>1
  <2> QED BY <1>9, <1>10, <2>1, IntervalInduction
<1> QED BY <1>4, <1>11 DEF P, v, base

\* The arrays hold the first n iMCU rows of the image.
ArraysHold(n) ==
  MultiPass => \A c \in Components : \A y \in 0 .. n * comp(c).v - 1 : arrays[c][y] = RowOfArray(c, y)

\* compress_output finds the blocks of the image.
LEMMA StoredMCURight ==
  ASSUME InScan, CoefAt, MultiPass, ArraysHold(coef.iMCU_row_num + 1), NEW j \in DOMAIN scan
  PROVE  StoredMCU(scan[j]) = FlattenSeq(Grid(scan[j], MCURow, coef.mcu_ctr))
<1> DEFINE c == scan[j]
           num == coef.iMCU_row_num
           top == coef.MCU_vert_offset
           m == coef.mcu_ctr
           M == MCUs_per_row
           mh == MCU_height(c)
           mw == MCU_width(c)
           v == comp(c).v
           h == comp(c).h
           l == width_in_blocks(c)
<1>1. /\ c \in Components /\ mw \in 1 .. 4 /\ mh \in 1 .. 4 /\ v \in 1 .. 4 /\ h \in 1 .. 4
      /\ M \in Nat \ {0} /\ m \in 0 .. M - 1 /\ num \in 0 .. iMCU_rows - 1
      /\ l \in Nat \ {0} /\ across \in Nat \ {0} /\ l <= across * h
      /\ interleaved \in BOOLEAN /\ MCURow \in Nat
      /\ interleaved => M = across /\ mw = h
      /\ ~interleaved => M = l /\ mw = 1
  <2>1. c \in Components /\ Sized
    BY ScanGeometry DEF InScan
  <2>2. interleaved => mw = h
    BY DEF MCU_width
  <2>3. ~interleaved => mw = 1
    BY DEF MCU_width
  <2> QED BY <2>1, <2>2, <2>3, JobTypes, ScanGeometry, ScanTypes, BlockRowOfMCU, Geometry DEF CoefAt
<1>2. \A y \in 0 .. mh - 1 :
        /\ MCURow * mh + y = num * v + (top + y) /\ top + y \in 0 .. v - 1
        /\ top + y < BlockRows(c, num) <=> MCURow * mh + y < height_in_blocks(c)
  BY BlockRowOfMCU
<1>3. top \in 0 .. BlockRows(c, num) - 1 /\ MCURow * mh < height_in_blocks(c) /\ num \in Nat
      /\ m * mw < l
  <2>1. iMCU_rows \in Nat
    BY Geometry DEF InScan
  <2>2. num \in Nat
    <3> HIDE DEF num
    <3> QED BY <1>1, <2>1
  <2> QED BY <2>2, BlockRowOfMCU
<1>4. \A y \in 0 .. (num + 1) * v - 1 : arrays[c][y] = RowOfArray(c, y)
  BY <1>1 DEF ArraysHold
<1> HIDE DEF c, num, top, m, M, mh, mw, v, h, l
<1>5. m \in Nat /\ m < M
  BY <1>1
<1>6. ASSUME NEW y \in 1 .. mh, NEW x \in 1 .. mw
      PROVE  arrays[c][num * v + top + y - 1][m * mw + x - 1]
               = BlockAt(c, mw, MCURow * mh + y - 1, m * mw, x - 1)
  <2> DEFINE Y == MCURow * mh + y - 1
             X == m * mw + x - 1
  <2>1. y - 1 \in 0 .. mh - 1 /\ y \in Nat /\ x \in Nat /\ x - 1 \in 0 .. mw - 1
    BY <1>1
  <2>2. MCURow * mh + (y - 1) = num * v + (top + (y - 1)) /\ top + (y - 1) \in 0 .. v - 1
    BY <1>2, <2>1
  <2>3. num * v \in Nat /\ (num + 1) * v = num * v + v /\ MCURow * mh \in Nat
    BY <1>1, <1>3
  <2>4. top \in Int
    <3>1. BlockRows(c, num) \in Int
      <4>1. BlockRows(c, num) \in 1 .. v /\ v \in 1 .. 4
        <5>1. Sized /\ num \in 0 .. iMCU_rows - 1
          BY <1>1 DEF InScan
        <5> QED BY <1>1, <5>1, RowsInIMCU DEF v
      <4> QED BY <4>1
    <3> QED BY <1>3, <3>1
  <2>5. num * v + top + y - 1 = Y /\ Y \in 0 .. (num + 1) * v - 1
    BY <1>1, <2>1, <2>2, <2>3, <2>4
  <2>6. X \in 0 .. across * h - 1 /\ m * mw \in Nat
    <3>1. CASE interleaved
      <4>1. (m + 1) * h <= across * h /\ (m + 1) * h = m * h + h /\ m * h \in Nat /\ across * h \in Nat
        <5>1. m + 1 \in Int /\ across \in Int /\ m + 1 <= across /\ h \in Nat \ {0}
          BY <1>1, <1>5, <3>1
        <5> QED BY <1>5, <5>1, ProductOrder
      <4>2. mw = h
        BY <1>1, <3>1
      <4> DEFINE p == m * h
                 q == across * h
      <4>3. p + h <= q /\ p \in Nat /\ q \in Nat
        BY <4>1
      <4> HIDE DEF p, q
      <4>4. p + x - 1 \in 0 .. q - 1
        BY <1>1, <2>1, <4>2, <4>3
      <4> QED BY <4>2, <4>3, <4>4 DEF p, q
    <3>2. CASE ~interleaved
      <4>1. mw = 1 /\ M = l /\ x = 1
        BY <1>1, <2>1, <3>2
      <4>2. across * h \in Nat
        BY <1>1
      <4> DEFINE q == across * h
      <4> HIDE DEF q
      <4>3. m * 1 + 1 - 1 \in 0 .. q - 1 /\ m * 1 \in Nat
        BY <1>1, <1>5, <4>1, <4>2 DEF q
      <4> QED BY <4>1, <4>3 DEF q
    <3> QED BY <1>1, <3>1, <3>2
  <2>7. arrays[c][Y][X] = BlockAt(c, h, Y, (X \div h) * h, X % h)
    <3>1. arrays[c][Y] = RowOfArray(c, Y)
      BY <1>4, <2>5
    <3> HIDE DEF X, Y
    <3> QED BY <2>6, <3>1 DEF RowOfArray, h
  <2>8. CASE interleaved
    <3>1. X \div h = m
      <4>1. m \in Int /\ h \in Nat \ {0} /\ X \in Int /\ m * h <= X /\ X < m * h + h
        <5> DEFINE p == m * h
        <5>1. p \in Nat /\ X = p + x - 1 /\ x - 1 \in 0 .. h - 1
          BY <1>1, <2>1, <2>6, <2>8
        <5> HIDE DEF p, X
        <5>2. X \in Int /\ p <= X /\ X < p + h
          BY <1>1, <2>1, <5>1
        <5> QED BY <1>1, <1>5, <5>2 DEF p
      <4> HIDE DEF X
      <4> QED BY <4>1, DivUnique
    <3>2. X % h = x - 1
      <4>1. X \in Int /\ h \in Nat \ {0}
        BY <1>1, <2>6
      <4>2. X = m * h + x - 1
        BY <1>1, <2>8
      <4> HIDE DEF X
      <4>3. X % h = X - m * h
        <5>1. X % h = X - (X \div h) * h
          BY <4>1, RemainderIs
        <5> QED BY <3>1, <5>1
      <4>4. m * h \in Int
        BY <1>1, <1>5
      <4> DEFINE p == m * h
                 r == X % h
      <4>5. r = X - p /\ X = p + x - 1 /\ p \in Int
        BY <4>2, <4>3, <4>4
      <4> HIDE DEF p, r
      <4>6. r = x - 1
        BY <2>1, <4>5
      <4> QED BY <4>6 DEF r
    <3>3. mw = h
      BY <1>1, <2>8
    <3> HIDE DEF X, Y
    <3>4. arrays[c][Y][X] = BlockAt(c, mw, Y, m * mw, x - 1)
      BY <2>7, <3>1, <3>2, <3>3
    <3> QED BY <2>5, <3>4 DEF X, Y
  <2>9. CASE ~interleaved
    <3>1. mw = 1 /\ mh = 1 /\ x = 1 /\ y = 1
      BY <1>1, <2>1, <2>9 DEF mh, MCU_height
    <3>2. X = m /\ X < l /\ Y = MCURow /\ Y < height_in_blocks(c)
      BY <1>1, <1>3, <1>5, <2>9, <3>1
    <3> DEFINE block == [dc |-> ImageBlock(c, Y, X), ac |-> ImageBlock(c, Y, X)]
    <3>3. BlockAt(c, h, Y, (X \div h) * h, X % h) = block
      <4>1. (X \div h) * h + (X % h) = X
        <5>1. across * h \in Nat
          BY <1>1
        <5>2. X \in Int /\ h \in Nat \ {0}
          BY <1>1, <1>5, <3>2
        <5> HIDE DEF X
        <5> DEFINE d == X \div h
                   r == X % h
        <5>3. d \in Int
          BY <5>2, DivIs
        <5>4. r = X - d * h
          BY <5>2, RemainderIs
        <5> HIDE DEF d, r
        <5>5. d * h + r = X
          <6>1. d * h \in Int
            BY <5>2, <5>3
          <6> QED BY <5>2, <5>4, <6>1
        <5> QED BY <5>5 DEF d, r
      <4> HIDE DEF X, Y
      <4> QED BY <3>2, <4>1, Zenon DEF BlockAt, l
    <3>4. BlockAt(c, mw, Y, m * mw, x - 1) = block
      <4>1. m * mw + (x - 1) = X
        BY <1>5, <3>1, <3>2
      <4> HIDE DEF X, Y
      <4> QED BY <3>2, <4>1, Zenon DEF BlockAt, l
    <3> HIDE DEF block
    <3>5. arrays[c][Y][X] = BlockAt(c, mw, Y, m * mw, x - 1)
      BY <2>7, <3>3, <3>4
    <3> QED BY <2>5, <3>5
  <2> QED BY <1>1, <2>8, <2>9
<1>7. StoredMCU(c) = FlattenSeq([y \in 1 .. mh |-> [x \in 1 .. mw |->
                        arrays[c][num * v + top + y - 1][m * mw + x - 1]]])
  BY DEF StoredMCU, mh, mw, num, v, top, m
<1>8. [y \in 1 .. mh |-> [x \in 1 .. mw |-> arrays[c][num * v + top + y - 1][m * mw + x - 1]]]
        = [y \in 1 .. mh |-> [x \in 1 .. mw |-> BlockAt(c, mw, MCURow * mh + y - 1, m * mw, x - 1)]]
  BY <1>6
<1>9. Grid(c, MCURow, m) =
        [y \in 1 .. mh |-> [x \in 1 .. mw |-> BlockAt(c, mw, MCURow * mh + y - 1, m * mw, x - 1)]]
  BY DEF Grid, mh, mw
<1>10. StoredMCU(c) = FlattenSeq(Grid(c, MCURow, m))
  BY <1>7, <1>8, <1>9
<1> QED BY <1>10 DEF c, m

\* The number of MCUs of the pass that are sent.
Position == MCURow * MCUs_per_row + coef.mcu_ctr

\* The MCU at that place in the scan is the one the entropy encoder gets.
LEMMA MCURight ==
  ASSUME InScan, CoefAt, MultiPass => ArraysHold(coef.iMCU_row_num + 1),
         ~MultiPass => StripHolds(coef.iMCU_row_num, min_DCT)
  PROVE  MCU = ImageMCU(Position)
<1> DEFINE m == coef.mcu_ctr
           M == MCUs_per_row
<1>1. M \in Nat \ {0} /\ m \in 0 .. M - 1 /\ MCURow \in Nat
  BY ScanTypes, ScanGeometry, BlockRowOfMCU DEF CoefAt
<1>2. Position \div M = MCURow /\ Position % M = m
  <2> HIDE DEF m, M
  <2> DEFINE p == MCURow * M
  <2>1. p \in Int /\ m \in Nat /\ m < M /\ Position = p + m
    BY <1>1 DEF Position, m, M
  <2> HIDE DEF p
  <2>2. Position \in Int /\ p <= Position /\ Position < p + M
    BY <1>1, <2>1
  <2>3. Position \div M = MCURow
    BY <1>1, <2>2, DivUnique DEF p
  <2>4. Position % M = Position - (Position \div M) * M
    BY <1>1, <2>2, RemainderIs
  <2>5. Position % M = Position - p
    BY <2>3, <2>4 DEF p
  <2> DEFINE r == Position % M
  <2>6. r = Position - p
    BY <2>5
  <2> HIDE DEF r
  <2>7. r = m
    BY <2>1, <2>6
  <2> QED BY <2>3, <2>7 DEF r
<1>3. ASSUME NEW i \in DOMAIN scan
      PROVE  /\ BlocksOf(scan[i], MCURow, m) = FlattenSeq(Grid(scan[i], MCURow, m))
             /\ IF MultiPass THEN StoredMCU(scan[i]) = FlattenSeq(Grid(scan[i], MCURow, m))
                ELSE MCUBlocks(scan[i]) = FlattenSeq(Grid(scan[i], MCURow, m))
  <2>1. /\ MCURow * MCU_height(scan[i]) < height_in_blocks(scan[i])
        /\ m * MCU_width(scan[i]) < width_in_blocks(scan[i])
    BY BlockRowOfMCU
  <2>2. m \in Nat
    <3> HIDE DEF m, M
    <3> QED BY <1>1
  <2>3. BlocksOf(scan[i], MCURow, m) = FlattenSeq(Grid(scan[i], MCURow, m))
    <3> HIDE DEF m
    <3> QED BY <1>1, <2>1, <2>2, BlocksOfMCU
  <2> QED BY <2>3, StoredMCURight, MCUBlocksRight
<1>4. ImageMCU(Position) = FlattenSeq([i \in DOMAIN scan |-> BlocksOf(scan[i], MCURow, m)])
  <2>1. ImageMCU(Position) = FlattenSeq([i \in DOMAIN scan |-> BlocksOf(scan[i], Position \div M, Position % M)])
    BY ImageMCUBlocks
  <2> HIDE DEF m, M
  <2> QED BY <1>2, <2>1
<1>5. [i \in DOMAIN scan |-> BlocksOf(scan[i], MCURow, m)] =
        [i \in DOMAIN scan |-> IF MultiPass THEN StoredMCU(scan[i]) ELSE MCUBlocks(scan[i])]
  <2> HIDE DEF m
  <2> QED BY <1>3
<1> QED BY <1>4, <1>5 DEF MCU

\* The coefficient controller puts the strip into the arrays.
LEMMA StripStored ==
  ASSUME Sized, coef.iMCU_row_num \in 0 .. iMCU_rows - 1,
         StripHolds(coef.iMCU_row_num, min_DCT), ArraysHold(coef.iMCU_row_num), MultiPass,
         DOMAIN arrays = Components,
         \A c \in Components : DOMAIN arrays[c] = 0 .. iMCU_rows * comp(c).v - 1,
         NEW c \in Components, NEW y \in 0 .. (coef.iMCU_row_num + 1) * comp(c).v - 1
  PROVE  /\ y \in DOMAIN arrays[c]
         /\ RowOfArray(c, y) = IF y \div comp(c).v = coef.iMCU_row_num
                               THEN StoredBlocks(c)[y % comp(c).v] ELSE arrays[c][y]
<1> DEFINE num == coef.iMCU_row_num
           v == comp(c).v
           p == num * v
<1>1. v \in Nat \ {0} /\ num \in Nat /\ num + 1 <= iMCU_rows /\ iMCU_rows \in Nat
  <2>1. v \in 1 .. 4 /\ iMCU_rows \in Nat \ {0} /\ num \in 0 .. iMCU_rows - 1
    BY JobTypes, Geometry
  <2> HIDE DEF v, num
  <2> QED BY <2>1
<1>2. \A t \in 0 .. p - 1 : arrays[c][t] = RowOfArray(c, t)
  BY DEF ArraysHold
<1>3. \A t \in 0 .. v - 1 : StoredBlocks(c)[t] = RowOfArray(c, p + t)
  BY StoredRight
<1>4. DOMAIN arrays[c] = 0 .. iMCU_rows * v - 1 /\ y \in 0 .. (num + 1) * v - 1
  OBVIOUS
<1> HIDE DEF num, v
<1>5. p \in Nat /\ (num + 1) * v = p + v /\ (num + 1) * v <= iMCU_rows * v /\ iMCU_rows * v \in Nat
  <2>1. num + 1 \in Int
    BY <1>1
  <2> QED BY <1>1, <2>1, ProductOrder
<1> DEFINE q == iMCU_rows * v
<1>6. y \in Nat /\ y < p + v /\ p + v <= q /\ q \in Nat
  <2> DEFINE e == (num + 1) * v
  <2>1. y \in 0 .. e - 1 /\ e = p + v /\ e <= q /\ p \in Nat /\ q \in Nat
    BY <1>4, <1>5
  <2> HIDE DEF e, p, q
  <2> QED BY <1>1, <2>1
<1> HIDE DEF q
<1>7. y \in DOMAIN arrays[c]
  <2> HIDE DEF p
  <2>1. DOMAIN arrays[c] = 0 .. q - 1
    BY <1>4 DEF q
  <2> QED BY <1>6, <2>1, <1>1, <1>5
<1>8. CASE y < p
  <2>0. y \in Nat /\ num \in Int /\ y < num * v
    BY <1>1, <1>6, <1>8
  <2>1. y \div v < num
    BY <1>1, <2>0, DivBelow
  <2>2. y \div v \in Int
    BY <1>1, <1>6, DivIs
  <2>3. y \in 0 .. p - 1
    <3> HIDE DEF p
    <3> QED BY <1>5, <1>6, <1>8
  <2>4. arrays[c][y] = RowOfArray(c, y)
    BY <1>2, <2>3
  <2> DEFINE d == y \div v
  <2>5. d < num /\ d \in Int
    BY <2>1, <2>2
  <2> HIDE DEF d
  <2>6. d # num
    BY <1>1, <2>5
  <2> QED BY <1>7, <2>4, <2>6 DEF d, num, v
<1>9. CASE ~(y < p)
  <2>1. y \div v = num
    <3>1. p <= y /\ y < p + v /\ y \in Int /\ num \in Int
      <4> HIDE DEF p
      <4> QED BY <1>1, <1>5, <1>6, <1>9
    <3> QED BY <1>1, <3>1, DivUnique
  <2>2. y % v = y - p
    <3>1. y \in Int
      BY <1>6
    <3>2. y % v = y - (y \div v) * v
      BY <1>1, <3>1, RemainderIs
    <3> QED BY <2>1, <3>2
  <2> DEFINE r == y % v
  <2>3. r = y - p
    BY <2>2
  <2> HIDE DEF r, p
  <2>4. r \in 0 .. v - 1 /\ p + r = y
    BY <1>1, <1>5, <1>6, <1>9, <2>3
  <2>5. StoredBlocks(c)[r] = RowOfArray(c, y)
    BY <1>3, <2>4
  <2> QED BY <1>7, <2>1, <2>5 DEF r, num, v
<1> QED BY <1>8, <1>9, <1>6

-------------------------------------------------------------------------------
(* The inductive invariant *)

\* The first pass, in which the lines come.
Filling == pass = 1 /\ step \in {"app", "main", "prep", "compress", "encode"}

Group == main.cur_iMCU_row * min_DCT + main.rowgroup_ctr

Taken == size.height - prep.rows_to_go

Shapes ==
  /\ InScan
  /\ step \in {"app", "main", "prep", "compress"} => pass = 1
  /\ app \in [next_scanline : Nat, in_row_ctr : Nat, in_rows_avail : Nat]
  /\ prep \in [rows_to_go : Nat, next_buf_row : Nat, this_row_group : Nat, next_buf_stop : Nat]
  /\ main \in [cur_iMCU_row : Nat, rowgroup_ctr : Nat, suspended : BOOLEAN]
  /\ main.cur_iMCU_row <= iMCU_rows /\ main.rowgroup_ctr <= min_DCT
  /\ DOMAIN conversion = 0 .. BufferedRows - 1
  /\ DOMAIN strip = Components
  /\ \A c \in Components : DOMAIN strip[c] = 0 .. comp(c).v * comp(c).dct_v - 1
  /\ MultiPass => /\ DOMAIN arrays = Components
                  /\ \A c \in Components : DOMAIN arrays[c] = 0 .. iMCU_rows * comp(c).v - 1

\* Lines are taken in their order.  The one that is there twice when the encoder
\* was refused counts once.
Counted ==
  /\ Taken = app.next_scanline + app.in_row_ctr + (IF main.suspended THEN 1 ELSE 0)
  /\ prep.rows_to_go <= size.height
  /\ app.next_scanline + app.in_rows_avail <= size.height
  /\ main.cur_iMCU_row < iMCU_rows => app.next_scanline < size.height
  /\ main.cur_iMCU_row = iMCU_rows => main.rowgroup_ctr = 0
  /\ step # "app" /\ main.cur_iMCU_row < iMCU_rows => app.in_rows_avail > 0
  /\ step = "app" => app.in_row_ctr = 0
  /\ step \in {"prep", "compress", "encode"} => main.cur_iMCU_row < iMCU_rows
  /\ step \in {"compress", "encode"} => main.rowgroup_ctr = min_DCT
  /\ step \in {"app", "main"} => (main.rowgroup_ctr = min_DCT <=> main.suspended)
  /\ step = "prep" => ~main.suspended /\ (main.rowgroup_ctr = min_DCT => app.in_row_ctr > 0)
  /\ main.suspended => app.in_row_ctr = 0
  /\ step \in {"compress", "encode"} /\ ~main.suspended => app.in_row_ctr > 0

Clamp(l) == Max({0, Min({size.height - 1, l})})

\* The buffer has the lines of a row group that are there.
PlainBuffer ==
  ~need_context_rows =>
    LET first == Group * max_v_samp
        n == prep.next_buf_row
    IN /\ n < max_v_samp
       /\ main.rowgroup_ctr = min_DCT => n = 0
       /\ Taken = IF first + n < size.height THEN first + n ELSE size.height
       /\ main.cur_iMCU_row < iMCU_rows /\ main.rowgroup_ctr < min_DCT => first + n < size.height
       /\ \A k \in 0 .. n - 1 : conversion[k] = first + k

\* Lines that are there below the first one of this_row_group.
Below == 2 * max_v_samp - (prep.next_buf_stop - prep.next_buf_row)

\* The buffer has those lines, and the row group above.
ContextBuffer ==
  need_context_rows =>
    LET V == max_v_samp
        first == Group * V
        p == prep.this_row_group
        q == prep.next_buf_stop
    IN /\ \/ p = 0 /\ q = 2 * V
          \/ p = V /\ q = 3 * V
          \/ p = 2 * V /\ q = V
       /\ prep.next_buf_row < q
       /\ Group = 0 => p = 0
       /\ Group # 0 => Below >= V
       /\ Taken = IF first + Below < size.height THEN first + Below ELSE size.height
       /\ Taken # 0 => \A k \in -V .. Below - 1 : conversion[ColorRow(p + k)] = Clamp(first + k)

StripFilled ==
  main.cur_iMCU_row < iMCU_rows => StripHolds(main.cur_iMCU_row, main.rowgroup_ctr)

ArraysFilled ==
  ArraysHold(IF pass # 1 THEN iMCU_rows
             ELSE IF step = "encode" THEN coef.iMCU_row_num + 1 ELSE coef.iMCU_row_num)

\* Everything before the coefficient controller's place in the scan is sent.
SentSoFar ==
  /\ coef \in [iMCU_row_num : Nat, mcu_ctr : Nat, MCU_vert_offset : Nat]
  /\ coef.iMCU_row_num = iMCU_rows \/ CoefAt
  /\ coef.iMCU_row_num = iMCU_rows => coef.mcu_ctr = 0 /\ coef.MCU_vert_offset = 0
  /\ Filling => coef.iMCU_row_num = main.cur_iMCU_row
  /\ step = "encode" => coef.iMCU_row_num # iMCU_rows
  /\ step \in {"finish", "done"} => coef.iMCU_row_num = iMCU_rows
  /\ sent.count = Position
  /\ sent.count > 0 => sent.mcu = ImageMCU(sent.count - 1)

RowsInv ==
  step # "none" =>
    /\ Shapes /\ SentSoFar /\ ArraysFilled
    /\ Filling => Counted /\ PlainBuffer /\ ContextBuffer /\ StripFilled

-------------------------------------------------------------------------------
(* Samples *)

LEMMA ClampIs ==
  ASSUME size.height \in Nat \ {0}, NEW l \in Int
  PROVE  Clamp(l) = IF l < 0 THEN 0 ELSE IF l < size.height THEN l ELSE size.height - 1
<1> DEFINE H == size.height
           m == Min({H - 1, l})
<1>1. m = IF H - 1 <= l THEN H - 1 ELSE l
  BY MinOfTwo, H - 1 \in Int
<1>2. m \in Int
  BY <1>1
<1>3. Clamp(l) = Max({0, m})
  BY DEF Clamp
<1> HIDE DEF m
<1>4. Max({0, m}) = IF 0 >= m THEN 0 ELSE m
  BY <1>2, MaxOfTwo
<1> QED BY <1>1, <1>3, <1>4

\* The lines a sample row is made from are those of its row group, and for smoothing
\* one on either side.
LEMMA TapsRange ==
  ASSUME Sized, NEW c \in Components, NEW k \in 0 .. rowgroup_height(c) - 1,
         NEW i \in DOMAIN Taps(c, k)
  PROVE  /\ Taps(c, k)[i] \in Int
         /\ IF need_context_rows THEN -1 <= Taps(c, k)[i] /\ Taps(c, k)[i] <= max_v_samp
            ELSE 0 <= Taps(c, k)[i] /\ Taps(c, k)[i] < max_v_samp
<1> DEFINE R == rowgroup_height(c)
           V == max_v_samp
           e == V \div R
           x == ContextRows(c)
<1>1. R \in Nat \ {0} /\ V \in 1 .. 4
  BY Factors
<1>2. x \in {0, 1} /\ (~need_context_rows => x = 0)
  BY DEF ContextRows, need_context_rows, Components
<1>3. e \in Int /\ e * R <= V /\ e \in Nat
  <2> HIDE DEF R, V
  <2>1. V \in Int /\ V \in Nat
    BY <1>1
  <2> QED BY <1>1, <2>1, DivIs, DivBelow
<1>4. e \in Nat
  BY <1>3
<1>5. i \in 1 .. e + 2 * x /\ Taps(c, k)[i] = k * e + i - 1 - x
  BY DEF Taps
<1>6. k \in Nat /\ k + 1 <= R
  BY <1>1
<1> HIDE DEF R, V, e, x
<1>7. k * e \in Nat /\ k * e + e <= V
  <2>1. CASE e = 0
    BY <1>1, <1>6, <2>1
  <2>2. CASE e # 0
    <3>1. (k + 1) * e <= R * e
      <4>1. k + 1 \in Int /\ R \in Int /\ e \in Nat \ {0}
        BY <1>1, <1>4, <1>6, <2>2
      <4> QED BY <4>1, <1>6, ProductOrder
    <3>2. (k + 1) * e = k * e + e /\ R * e = e * R /\ k * e \in Nat /\ e * R \in Int
      BY <1>1, <1>4, <1>6
    <3> QED BY <1>1, <1>3, <1>4, <3>1, <3>2
  <2> QED BY <2>1, <2>2
<1> DEFINE p == k * e
           t == Taps(c, k)[i]
<1>8. p \in Nat /\ p + e <= V /\ t = p + i - 1 - x
  BY <1>5, <1>7
<1> HIDE DEF p, t
<1>9. t \in Int /\ -x <= t /\ t < V + x
  BY <1>1, <1>2, <1>4, <1>5, <1>8
<1>10. /\ t \in Int
       /\ IF need_context_rows THEN -1 <= t /\ t <= V ELSE 0 <= t /\ t < V
  BY <1>1, <1>2, <1>9
<1> QED BY <1>10 DEF t, V

\* Sample row k of a row group.
LEMMA SampleOfGroup ==
  ASSUME Sized, NEW c \in Components, NEW k \in 0 .. rowgroup_height(c) - 1,
         NEW group \in Nat, need_context_rows \/ group * max_v_samp < size.height
  PROVE  Sample(c, group * rowgroup_height(c) + k) =
           [i \in DOMAIN Taps(c, k) |-> Clamp(group * max_v_samp + Taps(c, k)[i])]
<1> DEFINE R == rowgroup_height(c)
           V == max_v_samp
           H == size.height
           groups == round_up(H, V)
           s == group * R + k
           row == IF need_context_rows THEN s ELSE Min({s, groups * R - 1})
<1>1. R \in Nat \ {0} /\ V \in Nat \ {0} /\ H \in Nat \ {0} /\ k \in Nat /\ k < R
  BY Factors DEF Sized
<1>2. groups \in Nat \ {0} /\ H <= groups * V
  BY <1>1, RoundedUp DEF round_up
<1> HIDE DEF R, V, H, groups
<1>3. group * R \in Nat /\ groups * R \in Nat /\ group * V \in Nat /\ groups * V \in Nat
  BY <1>1, <1>2
<1>4. row = s
  <2>1. CASE need_context_rows
    BY <2>1
  <2>2. CASE ~need_context_rows
    <3>1. group * V < groups * V
      <4> DEFINE p == group * V
                 q == groups * V
      <4>1. p < H /\ H <= q /\ p \in Nat /\ q \in Nat
        BY <1>2, <1>3, <2>2 DEF V, H
      <4> HIDE DEF p, q
      <4>2. p < q
        BY <1>1, <4>1
      <4> QED BY <4>2 DEF p, q
    <3>2. group < groups
      BY <1>1, <1>2, <3>1, ProductOrder
    <3>3. (group + 1) * R <= groups * R /\ (group + 1) * R = group * R + R
      <4>1. group + 1 \in Int /\ groups \in Int /\ group + 1 <= groups
        BY <1>2, <3>2
      <4> QED BY <1>1, <4>1, ProductOrder
    <3> DEFINE p == group * R
               q == groups * R
    <3>4. p + R <= q /\ p \in Nat /\ q \in Nat /\ s = p + k
      BY <1>3, <3>3
    <3> HIDE DEF p, q, s
    <3>5. s <= q - 1 /\ s \in Int /\ q - 1 \in Int
      BY <1>1, <3>4
    <3>6. Min({s, q - 1}) = s
      BY <3>5, MinOfTwo
    <3> QED BY <2>2, <3>6 DEF q
  <2> QED BY <2>1, <2>2
<1>5. row \div R = group /\ row % R = k
  <2> DEFINE p == group * R
  <2>1. p \in Int /\ s = p + k
    BY <1>3
  <2> HIDE DEF p, s
  <2>2. s \in Int /\ p <= s /\ s < p + R
    BY <1>1, <2>1
  <2>3. s \div R = group
    BY <1>1, <2>2, DivUnique DEF p
  <2>4. s % R = s - (s \div R) * R
    BY <1>1, <2>2, RemainderIs
  <2>5. s % R = s - p
    BY <2>3, <2>4 DEF p
  <2> DEFINE r == s % R
  <2>6. r = s - p
    BY <2>5
  <2> HIDE DEF r
  <2>7. r = k
    BY <1>1, <2>1, <2>6
  <2> QED BY <1>4, <2>3, <2>7 DEF r
<1>6. Sample(c, s) =
        [i \in DOMAIN Taps(c, row % R) |-> Clamp((row \div R) * V + Taps(c, row % R)[i])]
  BY DEF Sample, Clamp, R, V, groups, H
<1> HIDE DEF row
<1>7. Sample(c, s) = [i \in DOMAIN Taps(c, k) |-> Clamp(group * V + Taps(c, k)[i])]
  BY <1>5, <1>6
<1> QED BY <1>7 DEF s, R, V

\* Without context the last sample row of the image is repeated below it.
LEMMA SampleBelow ==
  ASSUME Sized, NEW c \in Components, ~need_context_rows, NEW group \in Nat,
         group * max_v_samp < size.height, size.height <= (group + 1) * max_v_samp,
         NEW s \in Nat, (group + 1) * rowgroup_height(c) - 1 <= s
  PROVE  Sample(c, s) = Sample(c, (group + 1) * rowgroup_height(c) - 1)
<1> DEFINE R == rowgroup_height(c)
           V == max_v_samp
           H == size.height
           last == (group + 1) * R - 1
<1>1. R \in Nat \ {0} /\ V \in Nat \ {0} /\ H \in Nat \ {0}
  BY Factors DEF Sized
<1>2. round_up(H, V) = group + 1
  <2>1. group + 1 \in Int /\ (group + 1) - 1 = group
    OBVIOUS
  <2> HIDE DEF H, V
  <2>2. ((group + 1) - 1) * V < H /\ H <= (group + 1) * V
    BY <2>1 DEF H, V
  <2> QED BY <1>1, <2>1, <2>2, RoundedUnique DEF round_up
<1>3. last \in Int
  BY <1>1
<1>4. Min({s, last}) = last /\ Min({last, last}) = last
  <2> HIDE DEF last
  <2>1. last <= s /\ s \in Int
    BY DEF last
  <2>2. Min({s, last}) = last
    BY <1>3, <2>1, MinOfTwo
  <2>3. Min({last, last}) = last
    BY <1>3, MinOfTwo
  <2> QED BY <2>2, <2>3
<1>5. \A t : Sample(c, t) =
        LET row == Min({t, last})
            group_1 == row \div R
            lines == Taps(c, row % R)
        IN [i \in DOMAIN lines |-> Clamp(group_1 * V + lines[i])]
  BY <1>2, Zenon DEF Sample, Clamp
<1> HIDE DEF last, R, V
<1>6. Sample(c, s) = Sample(c, last)
  BY <1>4, <1>5
<1> QED BY <1>6 DEF last, R

\* The lines a row group is made from are in the buffer, its first one at that place.
LinesAt(buf, first, group) ==
  \A l \in Int :
    (IF need_context_rows THEN -1 <= l /\ l <= max_v_samp ELSE 0 <= l /\ l < max_v_samp) =>
       buf[ColorRow(first + l)] = Clamp(group * max_v_samp + l)

StripShape(s) ==
  /\ DOMAIN s = Components
  /\ \A c \in Components : DOMAIN s[c] = 0 .. comp(c).v * comp(c).dct_v - 1

\* As StripHolds, of what is to be the strip.
RowsHeld(s, row, n) ==
  \A c \in Components : \A r \in 0 .. n * rowgroup_height(c) - 1 :
    s[c][r] = Sample(c, row * (comp(c).v * comp(c).dct_v) + r)

LEMMA RowsOfComponent ==
  ASSUME Sized, NEW c \in Components
  PROVE  /\ rowgroup_height(c) \in Nat \ {0} /\ min_DCT \in Nat \ {0}
         /\ comp(c).v * comp(c).dct_v = min_DCT * rowgroup_height(c)
         /\ comp(c).v * comp(c).dct_v \in Nat \ {0}
<1>1. rowgroup_height(c) \in Nat \ {0} /\ rowgroup_height(c) * min_DCT = comp(c).v * comp(c).dct_v
  BY Factors
<1>2. min_DCT \in Nat \ {0}
  BY DctSize
<1>3. rowgroup_height(c) * min_DCT \in Nat \ {0}
  BY <1>1, <1>2, PositiveProduct
<1>4. rowgroup_height(c) * min_DCT = min_DCT * rowgroup_height(c)
  BY <1>1, <1>2
<1> QED BY <1>1, <1>2, <1>3, <1>4

LEMMA Downsampled ==
  ASSUME Sized, StripShape(strip),
         NEW row \in Nat, NEW ctr \in Nat, ctr < min_DCT, StripHolds(row, ctr),
         NEW buf, NEW first \in Int, LinesAt(buf, first, row * min_DCT + ctr),
         need_context_rows \/ (row * min_DCT + ctr) * max_v_samp < size.height
  PROVE  /\ StripShape(sep_downsample(buf, first, ctr))
         /\ RowsHeld(sep_downsample(buf, first, ctr), row, ctr + 1)
<1> DEFINE new == sep_downsample(buf, first, ctr)
           g == row * min_DCT + ctr
<1>1. /\ DOMAIN strip = Components
      /\ \A c \in Components : DOMAIN strip[c] = 0 .. comp(c).v * comp(c).dct_v - 1
  BY DEF StripShape
<1>2. new = [c \in Components |-> [r \in DOMAIN strip[c] |->
               IF r \div rowgroup_height(c) = ctr
               THEN [i \in DOMAIN Taps(c, r % rowgroup_height(c)) |->
                       buf[ColorRow(first + Taps(c, r % rowgroup_height(c))[i])]]
               ELSE strip[c][r]]]
  BY <1>1 DEF sep_downsample
<1>3. \A c \in Components : new[c] = [r \in 0 .. comp(c).v * comp(c).dct_v - 1 |->
               IF r \div rowgroup_height(c) = ctr
               THEN [i \in DOMAIN Taps(c, r % rowgroup_height(c)) |->
                       buf[ColorRow(first + Taps(c, r % rowgroup_height(c))[i])]]
               ELSE strip[c][r]]
  BY <1>1, <1>2
<1>4. StripShape(new)
  BY <1>2, <1>3 DEF StripShape
<1> HIDE DEF new
<1>5. min_DCT \in Nat \ {0} /\ g \in Nat
  <2>1. min_DCT \in Nat \ {0}
    BY DctSize
  <2>2. row * min_DCT \in Nat
    BY <2>1
  <2> QED BY <2>1, <2>2
<1>6. ASSUME NEW c \in Components, NEW r \in 0 .. (ctr + 1) * rowgroup_height(c) - 1
      PROVE  new[c][r] = Sample(c, row * (comp(c).v * comp(c).dct_v) + r)
  <2> DEFINE R == rowgroup_height(c)
             S == comp(c).v * comp(c).dct_v
             p == ctr * R
  <2>1. R \in Nat \ {0} /\ S = min_DCT * R /\ S \in Nat \ {0}
    BY RowsOfComponent
  <2>2. \A t \in 0 .. S - 1 : new[c][t] =
               IF t \div R = ctr
               THEN [i \in DOMAIN Taps(c, t % R) |-> buf[ColorRow(first + Taps(c, t % R)[i])]]
               ELSE strip[c][t]
    BY <1>3
  <2>3. \A t \in 0 .. p - 1 : strip[c][t] = Sample(c, row * S + t)
    BY DEF StripHolds
  <2>4. r \in 0 .. (ctr + 1) * R - 1
    OBVIOUS
  <2> HIDE DEF R, S
  <2>5. p \in Nat /\ (ctr + 1) * R = p + R /\ p + R <= S
    <3>1. (ctr + 1) * R <= min_DCT * R
      <4>1. ctr + 1 \in Int /\ min_DCT \in Int /\ ctr + 1 <= min_DCT
        BY <1>5
      <4> QED BY <2>1, <4>1, ProductOrder
    <3>2. (ctr + 1) * R = p + R /\ p \in Nat
      BY <2>1
    <3> QED BY <2>1, <3>1, <3>2
  <2>6. r \in Nat /\ r < p + R /\ r \in 0 .. S - 1
    <3> DEFINE e == (ctr + 1) * R
    <3>1. r \in 0 .. e - 1 /\ e = p + R /\ p + R <= S /\ p \in Nat
      BY <2>4, <2>5
    <3> HIDE DEF e, p
    <3> QED BY <2>1, <3>1
  <2>7. CASE r < p
    <3>1. r \in 0 .. p - 1
      <4> HIDE DEF p
      <4> QED BY <2>5, <2>6, <2>7
    <3> DEFINE d == r \div R
    <3>2. d < ctr /\ d \in Int
      <4>1. r \in Nat /\ r < ctr * R /\ ctr \in Int
        BY <2>6, <2>7
      <4> QED BY <2>1, <4>1, DivBelow
    <3> HIDE DEF d
    <3>3. d # ctr
      BY <3>2
    <3> QED BY <2>2, <2>3, <2>6, <3>1, <3>3 DEF d, S
  <2>8. CASE ~(r < p)
    <3> DEFINE k == r - p
    <3>1. k \in 0 .. R - 1 /\ r = p + k
      <4> HIDE DEF p
      <4> QED BY <2>1, <2>5, <2>6, <2>8
    <3>2. r \div R = ctr /\ r % R = k
      <4>1. r \in Int /\ p <= r /\ r < p + R /\ ctr \in Int
        <5> HIDE DEF p
        <5> QED BY <2>1, <2>5, <2>6, <2>8
      <4>2. r \div R = ctr
        BY <2>1, <4>1, DivUnique
      <4>3. r % R = r - (r \div R) * R
        BY <2>1, <4>1, RemainderIs
      <4> QED BY <4>2, <4>3
    <3> HIDE DEF k
    <3>3. new[c][r] = [i \in DOMAIN Taps(c, k) |-> buf[ColorRow(first + Taps(c, k)[i])]]
      BY <2>2, <2>6, <3>2
    <3>4. ASSUME NEW i \in DOMAIN Taps(c, k)
          PROVE  buf[ColorRow(first + Taps(c, k)[i])] = Clamp(g * max_v_samp + Taps(c, k)[i])
      <4> DEFINE l == Taps(c, k)[i]
      <4>1. /\ l \in Int
            /\ IF need_context_rows THEN -1 <= l /\ l <= max_v_samp ELSE 0 <= l /\ l < max_v_samp
        BY <3>1, TapsRange DEF R
      <4> HIDE DEF l
      <4>2. buf[ColorRow(first + l)] = Clamp(g * max_v_samp + l)
        BY <4>1 DEF LinesAt
      <4> QED BY <4>2 DEF l
    <3>5. new[c][r] = [i \in DOMAIN Taps(c, k) |-> Clamp(g * max_v_samp + Taps(c, k)[i])]
      BY <3>3, <3>4
    <3>6. Sample(c, g * R + k) = [i \in DOMAIN Taps(c, k) |-> Clamp(g * max_v_samp + Taps(c, k)[i])]
      <4>1. need_context_rows \/ g * max_v_samp < size.height
        OBVIOUS
      <4> HIDE DEF g
      <4> QED BY <1>5, <3>1, <4>1, SampleOfGroup DEF R
    <3>7. g * R + k = row * S + r
      <4> DEFINE q == min_DCT * R
      <4>1. g * R = row * q + ctr * R
        BY <1>5, <2>1
      <4>2. q \in Nat /\ row * q \in Nat /\ S = q
        BY <1>5, <2>1
      <4> DEFINE a == row * q
                 b == g * R
      <4>3. a \in Nat /\ b = a + p /\ row * S = a
        BY <4>1, <4>2
      <4> HIDE DEF a, b, p, q
      <4>4. b + k = a + r
        BY <2>5, <3>1, <4>3
      <4> QED BY <4>3, <4>4 DEF b
    <3> QED BY <3>5, <3>6, <3>7 DEF S
  <2> QED BY <2>7, <2>8
<1> QED BY <1>4, <1>6 DEF RowsHeld, new

-------------------------------------------------------------------------------
(* What a step leaves alone *)

LEMMA ImageKept ==
  ASSUME job' = job, size' = size
  PROVE  /\ Sized' <=> Sized
         /\ Components' = Components /\ min_DCT' = min_DCT /\ iMCU_rows' = iMCU_rows
         /\ max_v_samp' = max_v_samp /\ across' = across
         /\ need_context_rows' = need_context_rows /\ BufferedRows' = BufferedRows
         /\ passes' = passes /\ MultiPass' = MultiPass
         /\ \A c : comp(c)' = comp(c) /\ rowgroup_height(c)' = rowgroup_height(c)
         /\ \A c : height_in_blocks(c)' = height_in_blocks(c)
         /\ \A i : ColorRow(i)' = ColorRow(i) /\ Clamp(i)' = Clamp(i)
         /\ \A c, s : Sample(c, s)' = Sample(c, s) /\ RowOfArray(c, s)' = RowOfArray(c, s)
<1>1. /\ Sized' <=> Sized
      /\ Components' = Components /\ min_DCT' = min_DCT
      /\ \A c : comp(c)' = comp(c)
  BY DEF Sized, Components, min_DCT, comp
<1>2. max_v_samp' = max_v_samp /\ max_h_samp' = max_h_samp
  BY <1>1 DEF max_v_samp, max_h_samp
<1>3. /\ iMCU_rows' = iMCU_rows /\ across' = across
      /\ \A c : height_in_blocks(c)' = height_in_blocks(c) /\ width_in_blocks(c)' = width_in_blocks(c)
      /\ \A c : rowgroup_height(c)' = rowgroup_height(c) /\ rowgroup_width(c)' = rowgroup_width(c)
  BY <1>1, <1>2 DEF iMCU_rows, across, height_in_blocks, width_in_blocks, rowgroup_height, rowgroup_width, round_up
<1>4. \A c : Smoothed(c)' = Smoothed(c)
  BY <1>2, <1>3 DEF Smoothed
<1>5. /\ need_context_rows' = need_context_rows
      /\ \A c : ContextRows(c)' = ContextRows(c)
  BY <1>4 DEF need_context_rows, ContextRows
<1>6. BufferedRows' = BufferedRows /\ \A i : ColorRow(i)' = ColorRow(i) /\ Clamp(i)' = Clamp(i)
  BY <1>2, <1>5 DEF BufferedRows, ColorRow, Clamp
<1>7. passes' = passes /\ MultiPass' = MultiPass
  BY DEF passes, MultiPass
<1>8. \A c, k : Taps(c, k)' = Taps(c, k)
  BY <1>2, <1>3, <1>5 DEF Taps
<1>9. ASSUME NEW c, NEW s  PROVE Sample(c, s)' = Sample(c, s)
  <2> DEFINE R == rowgroup_height(c)
             V == max_v_samp
             H == size.height
             row == IF need_context_rows THEN s ELSE Min({s, round_up(H, V) * R - 1})
             lines == Taps(c, row % R)
             made == [i \in DOMAIN lines |-> Max({0, Min({H - 1, (row \div R) * V + lines[i]})})]
  <2>1. R' = R /\ V' = V /\ H' = H /\ need_context_rows' = need_context_rows
    BY <1>2, <1>3, <1>5
  <2>2. round_up(H, V)' = round_up(H, V)
    BY <2>1 DEF round_up
  <2>3. row' = row
    <3> HIDE DEF R, V, H
    <3> QED BY <2>1, <2>2
  <2> HIDE DEF row
  <2>4. lines' = lines
    <3> DEFINE k == row % R
    <3>1. k' = k
      <4> HIDE DEF R, V, H
      <4> QED BY <2>1, <2>3
    <3> HIDE DEF R, V, H, k
    <3>2. Taps(c, k)' = Taps(c, k)
      BY <1>2, <1>3, <1>5, <3>1 DEF Taps
    <3> QED BY <3>2 DEF k
  <2> HIDE DEF lines, R, V, H
  <2>5. made' = made
    BY <2>1, <2>3, <2>4
  <2>6. Sample(c, s) = made /\ Sample(c, s)' = made'
    BY DEF Sample, made, lines, row, R, V, H
  <2> QED BY <2>5, <2>6
<1>10. \A c, y, x : ImageBlock(c, y, x)' = ImageBlock(c, y, x)
  BY <1>1, <1>9 DEF ImageBlock
<1>11. \A c, w, y, first, k : BlockAt(c, w, y, first, k)' = BlockAt(c, w, y, first, k)
  BY <1>3, <1>10 DEF BlockAt
<1>12. \A c, y : RowOfArray(c, y)' = RowOfArray(c, y)
  BY <1>1, <1>3, <1>11 DEF RowOfArray
<1> QED BY <1>1, <1>2, <1>3, <1>5, <1>6, <1>7, <1>9, <1>12

LEMMA ScanKept ==
  ASSUME job' = job, size' = size, pass' = pass
  PROVE  /\ InScan' <=> InScan
         /\ scan' = scan /\ interleaved' = interleaved /\ MCUs_per_row' = MCUs_per_row
         /\ \A row : MCU_rows_per_iMCU_row(row)' = MCU_rows_per_iMCU_row(row)
         /\ \A n : ImageMCU(n)' = ImageMCU(n)
<1>1. scan' = scan /\ interleaved' = interleaved
  BY DEF scan, interleaved
<1>2. /\ InScan' <=> InScan
      /\ \A c : comp(c)' = comp(c) /\ height_in_blocks(c)' = height_in_blocks(c)
      /\ iMCU_rows' = iMCU_rows
  BY ImageKept DEF InScan
<1>3. max_h_samp' = max_h_samp
  BY DEF max_h_samp, comp
<1>4. \A c : width_in_blocks(c)' = width_in_blocks(c)
  BY <1>2, <1>3 DEF width_in_blocks, round_up
<1>5. /\ MCUs_per_row' = MCUs_per_row
      /\ \A c : MCU_width(c)' = MCU_width(c) /\ MCU_height(c)' = MCU_height(c)
  BY <1>1, <1>2, <1>3, <1>4 DEF MCUs_per_row, MCU_width, MCU_height, round_up
<1>6. \A row : MCU_rows_per_iMCU_row(row)' = MCU_rows_per_iMCU_row(row)
  <2>1. \A c, row : BlockRows(c, row)' = BlockRows(c, row)
    BY <1>2 DEF BlockRows, last_row_height
  <2> QED BY <1>1, <2>1 DEF MCU_rows_per_iMCU_row
<1>7. \A c, y, x : ImageBlock(c, y, x)' = ImageBlock(c, y, x)
  BY <1>2, ImageKept DEF ImageBlock
<1>8. \A c, row, col : PlacesOf(c, row, col)' = PlacesOf(c, row, col)
  BY <1>5 DEF PlacesOf, PlaceGrid
<1>9. \A c, row, col, i : RealBefore(c, row, col, i)' = RealBefore(c, row, col, i)
  BY <1>2, <1>4, <1>8 DEF RealBefore, RealPlace
<1>10. \A c, row, col : BlocksOf(c, row, col)' = BlocksOf(c, row, col)
  BY <1>7, <1>8, <1>9 DEF BlocksOf
<1>11. \A n : ImageMCU(n)' = ImageMCU(n)
  <2> TAKE n
  <2> DEFINE Made(row, col) == FlattenSeq([i \in DOMAIN scan |-> BlocksOf(scan[i], row, col)])
  <2>1. ImageMCU(n) = Made(n \div MCUs_per_row, n % MCUs_per_row)
    BY ImageMCUBlocks
  <2>2. ImageMCU(n)' = Made(n \div MCUs_per_row, n % MCUs_per_row)'
    BY DEF ImageMCU, BlocksOf, PlacesOf, PlaceGrid, RealPlace, RealBefore
  <2>3. Made(n \div MCUs_per_row, n % MCUs_per_row)' = Made(n \div MCUs_per_row, n % MCUs_per_row)
    BY <1>1, <1>5, <1>10
  <2> QED BY <2>1, <2>2, <2>3
<1> QED BY <1>1, <1>2, <1>5, <1>6, <1>11

LEMMA StripKept ==
  ASSUME StripFilled, UNCHANGED <<job, size, strip>>,
         main'.cur_iMCU_row = main.cur_iMCU_row, main'.rowgroup_ctr = main.rowgroup_ctr
  PROVE  StripFilled'
<1>1. /\ iMCU_rows' = iMCU_rows /\ Components' = Components
      /\ \A c : comp(c)' = comp(c) /\ rowgroup_height(c)' = rowgroup_height(c)
      /\ \A c, s : Sample(c, s)' = Sample(c, s)
      /\ strip' = strip
  BY ImageKept
<1> QED BY <1>1 DEF StripFilled, StripHolds

LEMMA ArraysUpTo ==
  ASSUME Sized, NEW n \in Nat, NEW m \in Nat, n <= m, ArraysHold(m)
  PROVE  ArraysHold(n)
<1> SUFFICES ASSUME MultiPass, NEW c \in Components, NEW y \in 0 .. n * comp(c).v - 1
             PROVE  arrays[c][y] = RowOfArray(c, y)
  BY DEF ArraysHold
<1> DEFINE v == comp(c).v
           p == n * v
           q == m * v
<1>1. v \in Nat \ {0}
  <2>1. v \in 1 .. 4
    BY JobTypes
  <2> HIDE DEF v
  <2> QED BY <2>1
<1>2. \A t \in 0 .. q - 1 : arrays[c][t] = RowOfArray(c, t)
  BY DEF ArraysHold
<1>3. y \in 0 .. p - 1
  OBVIOUS
<1> HIDE DEF v
<1>4. p \in Nat /\ q \in Nat /\ p <= q
  BY <1>1, ProductOrder
<1> HIDE DEF p, q
<1>5. y \in 0 .. q - 1
  BY <1>3, <1>4
<1> QED BY <1>2, <1>5

LEMMA ArraysKept ==
  ASSUME Sized, SentSoFar, ArraysFilled, UNCHANGED <<job, size, pass, coef, arrays>>,
         step' = "encode" => step = "encode"
  PROVE  ArraysFilled'
<1>1. /\ iMCU_rows' = iMCU_rows /\ Components' = Components /\ MultiPass' = MultiPass
      /\ \A c : comp(c)' = comp(c)
      /\ \A c, s : RowOfArray(c, s)' = RowOfArray(c, s)
      /\ arrays' = arrays /\ coef' = coef /\ pass' = pass
  BY ImageKept
<1>2. \A n : ArraysHold(n) => ArraysHold(n)'
  BY <1>1 DEF ArraysHold
<1>3. ASSUME pass = 1, step = "encode", step' # "encode"  PROVE ArraysHold(coef.iMCU_row_num)
  <2>1. ArraysHold(coef.iMCU_row_num + 1)
    BY <1>3 DEF ArraysFilled
  <2>2. coef.iMCU_row_num \in Nat
    BY DEF SentSoFar
  <2>3. coef.iMCU_row_num + 1 \in Nat /\ coef.iMCU_row_num <= coef.iMCU_row_num + 1
    BY <2>2
  <2> QED BY <2>1, <2>2, <2>3, ArraysUpTo
<1>4. ASSUME NEW n, n = IF pass' # 1 THEN iMCU_rows'
                         ELSE IF step' = "encode" THEN coef'.iMCU_row_num + 1 ELSE coef'.iMCU_row_num
      PROVE  ArraysHold(n)'
  <2>1. ArraysHold(n)
    <3>1. CASE pass # 1
      BY <1>1, <1>4, <3>1 DEF ArraysFilled
    <3>2. CASE pass = 1 /\ step' = "encode"
      BY <1>1, <1>4, <3>2 DEF ArraysFilled
    <3>3. CASE pass = 1 /\ step' # "encode"
      <4>1. n = coef.iMCU_row_num
        BY <1>1, <1>4, <3>3
      <4> QED BY <1>3, <3>3, <4>1 DEF ArraysFilled
    <3> QED BY <3>1, <3>2, <3>3
  <2> QED BY <1>2, <2>1
<1> QED BY <1>4 DEF ArraysFilled, ArraysHold

LEMMA SentKept ==
  ASSUME SentSoFar, UNCHANGED <<job, size, pass, coef, sent>>,
         Filling' => coef.iMCU_row_num = main'.cur_iMCU_row,
         step' = "encode" => coef.iMCU_row_num # iMCU_rows,
         step' \in {"finish", "done"} => coef.iMCU_row_num = iMCU_rows
  PROVE  SentSoFar'
<1>1. /\ iMCU_rows' = iMCU_rows /\ coef' = coef /\ sent' = sent
      /\ \A c : comp(c)' = comp(c) /\ height_in_blocks(c)' = height_in_blocks(c)
  BY ImageKept
<1>2. /\ scan' = scan /\ interleaved' = interleaved /\ MCUs_per_row' = MCUs_per_row
      /\ \A row : MCU_rows_per_iMCU_row(row)' = MCU_rows_per_iMCU_row(row)
      /\ \A n : ImageMCU(n)' = ImageMCU(n)
  BY ScanKept
<1>3. CoefAt' <=> CoefAt
  BY <1>1, <1>2 DEF CoefAt
<1>4. Position' = Position
  <2>1. MCURow' = MCURow
    BY <1>1, <1>2 DEF MCURow
  <2> QED BY <1>1, <1>2, <2>1 DEF Position
<1> QED BY <1>1, <1>2, <1>3, <1>4 DEF SentSoFar

LEMMA BuffersKept ==
  ASSUME PlainBuffer, ContextBuffer, UNCHANGED <<job, size, prep, conversion>>,
         main'.cur_iMCU_row = main.cur_iMCU_row, main'.rowgroup_ctr = main.rowgroup_ctr
  PROVE  PlainBuffer' /\ ContextBuffer'
<1>1. /\ iMCU_rows' = iMCU_rows /\ min_DCT' = min_DCT /\ max_v_samp' = max_v_samp
      /\ need_context_rows' = need_context_rows
      /\ \A i : ColorRow(i)' = ColorRow(i) /\ Clamp(i)' = Clamp(i)
      /\ prep' = prep /\ conversion' = conversion /\ size' = size
  BY ImageKept
<1>2. Group' = Group /\ Taken' = Taken /\ Below' = Below
  BY <1>1 DEF Group, Taken, Below
<1>3. PlainBuffer'
  BY <1>1, <1>2 DEF PlainBuffer
<1>4. ContextBuffer'
  BY <1>1, <1>2 DEF ContextBuffer
<1> QED BY <1>3, <1>4

LEMMA ShapesKept ==
  ASSUME Shapes, UNCHANGED <<job, size, pass, arrays>>,
         step' \in {"app", "main", "prep", "compress"} => pass = 1,
         app' \in [next_scanline : Nat, in_row_ctr : Nat, in_rows_avail : Nat],
         prep' \in [rows_to_go : Nat, next_buf_row : Nat, this_row_group : Nat, next_buf_stop : Nat],
         main' \in [cur_iMCU_row : Nat, rowgroup_ctr : Nat, suspended : BOOLEAN],
         main'.cur_iMCU_row <= iMCU_rows, main'.rowgroup_ctr <= min_DCT,
         DOMAIN conversion' = DOMAIN conversion, StripShape(strip)'
  PROVE  Shapes'
<1>1. /\ Components' = Components /\ min_DCT' = min_DCT /\ iMCU_rows' = iMCU_rows
      /\ BufferedRows' = BufferedRows /\ MultiPass' = MultiPass
      /\ \A c : comp(c)' = comp(c)
      /\ pass' = pass /\ arrays' = arrays
  BY ImageKept
<1>2. InScan' <=> InScan
  BY ScanKept
<1> QED BY <1>1, <1>2 DEF Shapes, StripShape

-------------------------------------------------------------------------------
(* The invariant holds initially *)

LEMMA SomeSizes ==
  ASSUME InScan
  PROVE  /\ iMCU_rows \in Nat \ {0} /\ min_DCT \in 1 .. 16 /\ max_v_samp \in 1 .. 4
         /\ MCUs_per_row \in Nat \ {0} /\ size.height \in Nat \ {0} /\ scan[1] \in Components
         /\ interleaved \in BOOLEAN
         /\ \A c \in Components : comp(c).v \in 1 .. 4 /\ rowgroup_height(c) \in Nat \ {0}
         /\ \A j \in DOMAIN scan : scan[j] \in Components
         /\ \A row \in 0 .. iMCU_rows - 1 : MCU_rows_per_iMCU_row(row) \in 1 .. 4
<1>1. /\ iMCU_rows \in Nat \ {0} /\ min_DCT \in 1 .. 16 /\ max_v_samp \in 1 .. 4
      /\ size.height \in Nat \ {0} /\ scan[1] \in Components /\ interleaved \in BOOLEAN
      /\ \A c \in Components : comp(c).v \in 1 .. 4 /\ rowgroup_height(c) \in Nat \ {0}
      /\ \A j \in DOMAIN scan : scan[j] \in Components
  BY Geometry, JobTypes, Factors, ScanTypes DEF InScan, Sized
<1>2. MCUs_per_row \in Nat \ {0}
  BY ScanTypes, ScanGeometry
<1>3. ASSUME NEW row \in 0 .. iMCU_rows - 1  PROVE MCU_rows_per_iMCU_row(row) \in 1 .. 4
  <2>1. BlockRows(scan[1], row) \in 1 .. comp(scan[1]).v /\ comp(scan[1]).v \in 1 .. 4
    BY <1>1, RowsInIMCU DEF InScan
  <2>2. BlockRows(scan[1], row) \in 1 .. 4
    BY <2>1
  <2> QED BY <1>1, <2>2 DEF MCU_rows_per_iMCU_row
<1> QED BY <1>1, <1>2, <1>3

\* At the start of a pass nothing of it is sent.
LEMMA AtTheStart ==
  ASSUME InScan, coef = [iMCU_row_num |-> 0, mcu_ctr |-> 0, MCU_vert_offset |-> 0]
  PROVE  CoefAt /\ Position = 0
<1>1. coef.iMCU_row_num = 0 /\ coef.mcu_ctr = 0 /\ coef.MCU_vert_offset = 0
  OBVIOUS
<1>2. 0 \in 0 .. iMCU_rows - 1 /\ iMCU_rows # 0 /\ 0 \in 0 .. MCUs_per_row - 1
  BY SomeSizes
<1>3. 0 \in 0 .. MCU_rows_per_iMCU_row(0) - 1
  BY <1>2, SomeSizes
<1>4. CoefAt
  BY <1>1, <1>2, <1>3 DEF CoefAt
<1>5. MCURow = 0
  <2>1. 0 * comp(scan[1]).v + 0 = 0
    BY SomeSizes
  <2> QED BY <1>1, <1>2, <2>1 DEF MCURow
<1>6. 0 * MCUs_per_row + 0 = 0
  BY SomeSizes
<1> QED BY <1>1, <1>4, <1>5, <1>6 DEF Position

LEMMA InitInv == CompressInit => RowsInv
<1> SUFFICES ASSUME CompressInit PROVE RowsInv
  OBVIOUS
<1>1. Sized
  <2>1. job \in Jobs /\ job.Heights \cup job.Widths \subseteq Nat \ {0}
    BY JobsAssumption DEF CompressInit, JobsAssumption
  <2>2. PICK h \in job.Heights, w \in job.Widths : size = [height |-> h, width |-> w]
    BY DEF CompressInit
  <2> QED BY <2>1, <2>2 DEF Sized
<1>2. InScan
  BY <1>1, PassTypes DEF InScan, CompressInit, StartCompress
<1>3. /\ pass = 1 /\ step = "app"
      /\ app = [next_scanline |-> 0, in_row_ctr |-> 0, in_rows_avail |-> 0]
      /\ prep = [rows_to_go |-> size.height, next_buf_row |-> 0, this_row_group |-> 0,
                 next_buf_stop |-> 2 * max_v_samp]
      /\ conversion = [r \in 0 .. BufferedRows - 1 |-> Unwritten]
      /\ main = [cur_iMCU_row |-> 0, rowgroup_ctr |-> 0, suspended |-> FALSE]
      /\ strip = [c \in Components |-> [r \in 0 .. comp(c).v * comp(c).dct_v - 1 |-> <<>>]]
      /\ coef = [iMCU_row_num |-> 0, mcu_ctr |-> 0, MCU_vert_offset |-> 0]
      /\ arrays = IF ~MultiPass THEN <<>>
                  ELSE [c \in Components |-> [y \in 0 .. iMCU_rows * comp(c).v - 1 |-> <<>>]]
      /\ sent = [count |-> 0, mcu |-> <<>>]
  BY DEF CompressInit, StartCompress, FirstStop, Components
<1>4. Shapes
  <2>1. 2 * max_v_samp \in Nat /\ size.height \in Nat /\ 0 <= iMCU_rows /\ 0 <= min_DCT
    BY <1>2, SomeSizes
  <2> QED BY <1>2, <1>3, <2>1 DEF Shapes
<1>5. SentSoFar
  <2>1. CoefAt /\ Position = 0
    BY <1>2, <1>3, AtTheStart
  <2>2. iMCU_rows # 0
    BY <1>2, SomeSizes
  <2> QED BY <1>3, <2>1, <2>2 DEF SentSoFar
<1>6. ArraysFilled
  <2>1. \A c \in Components : 0 .. 0 * comp(c).v - 1 = {}
    BY <1>2, SomeSizes
  <2>2. ArraysHold(0)
    BY <2>1 DEF ArraysHold
  <2> QED BY <1>3, <2>2 DEF ArraysFilled
<1>7. Counted
  <2>1. /\ size.height \in Nat \ {0} /\ iMCU_rows \in Nat \ {0} /\ min_DCT \in Nat \ {0}
    BY <1>2, SomeSizes
  <2>2. Taken = 0 /\ 0 < size.height /\ 0 # iMCU_rows /\ 0 # min_DCT
    <3>1. prep.rows_to_go = size.height
      BY <1>3
    <3> QED BY <2>1, <3>1 DEF Taken
  <2>3. /\ app.next_scanline = 0 /\ app.in_row_ctr = 0 /\ app.in_rows_avail = 0
        /\ main.cur_iMCU_row = 0 /\ main.rowgroup_ctr = 0 /\ main.suspended = FALSE
        /\ prep.rows_to_go = size.height /\ step = "app"
    BY <1>3
  <2> QED BY <2>1, <2>2, <2>3 DEF Counted
<1>8. Group = 0 /\ Taken = 0 /\ Below = 0
  <2>1. 0 * min_DCT + 0 = 0 /\ size.height - size.height = 0
        /\ 2 * max_v_samp - (2 * max_v_samp - 0) = 0
    BY <1>2, SomeSizes
  <2> QED BY <1>3, <2>1 DEF Group, Taken, Below
<1>9. 0 * max_v_samp = 0 /\ max_v_samp > 0 /\ min_DCT # 0 /\ size.height > 0
  BY <1>2, SomeSizes
<1>10. PlainBuffer
  BY <1>3, <1>8, <1>9 DEF PlainBuffer
<1>11. ContextBuffer
  BY <1>2, <1>3, <1>8, <1>9, SomeSizes DEF ContextBuffer
<1>12. StripFilled
  <2>1. \A c \in Components : 0 .. 0 * rowgroup_height(c) - 1 = {}
    BY <1>2, SomeSizes
  <2> QED BY <1>3, <2>1 DEF StripFilled, StripHolds
<1> QED BY <1>4, <1>5, <1>6, <1>7, <1>10, <1>11, <1>12 DEF RowsInv

-------------------------------------------------------------------------------
(* Steps that take no line and send no MCU *)

LEMMA OnlyCalls ==
  ASSUME RowsInv, Filling, UNCHANGED <<job, size, pass, prep, conversion, strip, coef, arrays, sent>>,
         step' \in {"app", "main", "prep", "compress"},
         app' \in [next_scanline : Nat, in_row_ctr : Nat, in_rows_avail : Nat],
         main' \in [cur_iMCU_row : Nat, rowgroup_ctr : Nat, suspended : BOOLEAN],
         main'.cur_iMCU_row = main.cur_iMCU_row, main'.rowgroup_ctr = main.rowgroup_ctr,
         Counted'
  PROVE  RowsInv'
<1>1. /\ Shapes /\ SentSoFar /\ ArraysFilled /\ PlainBuffer /\ ContextBuffer /\ StripFilled /\ Sized
  BY DEF RowsInv, Filling, Shapes, InScan
<1>2. PlainBuffer' /\ ContextBuffer'
  BY <1>1, BuffersKept
<1>3. StripFilled'
  BY <1>1, StripKept
<1>4. ArraysFilled'
  BY <1>1, ArraysKept
<1>5. SentSoFar'
  <2>1. coef.iMCU_row_num = main'.cur_iMCU_row
    BY <1>1 DEF SentSoFar
  <2> QED BY <1>1, <2>1, SentKept
<1>6. Shapes'
  <2>1. StripShape(strip)'
    <3>1. Components' = Components /\ \A c : comp(c)' = comp(c)
      BY ImageKept
    <3> QED BY <1>1, <3>1 DEF Shapes, StripShape
  <2>2. prep' \in [rows_to_go : Nat, next_buf_row : Nat, this_row_group : Nat, next_buf_stop : Nat]
        /\ main'.cur_iMCU_row <= iMCU_rows /\ main'.rowgroup_ctr <= min_DCT /\ pass = 1
    BY <1>1 DEF Shapes, Filling
  <2> QED BY <1>1, <2>1, <2>2, ShapesKept
<1> QED BY <1>2, <1>3, <1>4, <1>5, <1>6 DEF RowsInv

\* What the invariant says in the first pass.
LEMMA InFirstPass ==
  ASSUME RowsInv, step \in {"app", "main", "prep", "compress"} \/ (step = "encode" /\ pass = 1)
  PROVE  /\ Filling /\ Shapes /\ SentSoFar /\ ArraysFilled
         /\ Counted /\ PlainBuffer /\ ContextBuffer /\ StripFilled
         /\ InScan /\ Sized /\ pass = 1
         /\ size.height \in Nat \ {0} /\ iMCU_rows \in Nat \ {0} /\ min_DCT \in Nat \ {0}
         /\ app.next_scanline \in Nat /\ app.in_row_ctr \in Nat /\ app.in_rows_avail \in Nat
         /\ main.cur_iMCU_row \in Nat /\ main.rowgroup_ctr \in Nat /\ main.suspended \in BOOLEAN
         /\ main.cur_iMCU_row <= iMCU_rows /\ main.rowgroup_ctr <= min_DCT
         /\ prep.rows_to_go \in Nat /\ prep.next_buf_row \in Nat /\ prep.this_row_group \in Nat
         /\ prep.next_buf_stop \in Nat
<1>1. step # "none" /\ Shapes
  BY DEF RowsInv
<1>2. Filling /\ pass = 1
  BY <1>1 DEF Shapes, Filling
<1>3. InScan
  BY <1>1 DEF Shapes
<1>4. /\ size.height \in Nat \ {0} /\ iMCU_rows \in Nat \ {0} /\ min_DCT \in Nat \ {0}
  BY <1>3, SomeSizes
<1>5. /\ SentSoFar /\ ArraysFilled /\ Counted /\ PlainBuffer /\ ContextBuffer /\ StripFilled
  BY <1>1, <1>2 DEF RowsInv
<1>6. /\ app \in [next_scanline : Nat, in_row_ctr : Nat, in_rows_avail : Nat]
      /\ prep \in [rows_to_go : Nat, next_buf_row : Nat, this_row_group : Nat, next_buf_stop : Nat]
      /\ main \in [cur_iMCU_row : Nat, rowgroup_ctr : Nat, suspended : BOOLEAN]
      /\ main.cur_iMCU_row <= iMCU_rows /\ main.rowgroup_ctr <= min_DCT
  BY <1>1 DEF Shapes
<1>7. Sized
  BY <1>3 DEF InScan
<1> QED BY <1>1, <1>2, <1>3, <1>4, <1>5, <1>6, <1>7

LEMMA WriteKeepsRows ==
  ASSUME RowsInv, WriteScanlines
  PROVE  RowsInv'
<1>1. /\ Filling /\ Shapes /\ Counted /\ Sized /\ step = "app"
      /\ size.height \in Nat \ {0}
      /\ app.next_scanline \in Nat /\ app.in_row_ctr \in Nat /\ app.in_rows_avail \in Nat
      /\ UNCHANGED <<job, size, pass, prep, conversion, main, strip, coef, arrays, sent>>
      /\ main \in [cur_iMCU_row : Nat, rowgroup_ctr : Nat, suspended : BOOLEAN]
  BY InFirstPass DEF WriteScanlines, Shapes
<1>2. PICK n \in job.MaxLines : Calls(n)
  BY DEF WriteScanlines
<1> DEFINE left == size.height - app.next_scanline
           a == Min({n, left})
<1>3. n \in Nat \ {0}
  BY <1>1, JobTypes
<1>4. left \in Nat /\ app.next_scanline <= size.height
  BY <1>1 DEF Counted
<1>5. a = IF n <= left THEN n ELSE left
  <2> HIDE DEF left
  <2> QED BY <1>3, <1>4, MinOfTwo
<1>6. a \in Nat /\ a <= left /\ (left > 0 => a > 0)
  BY <1>3, <1>4, <1>5
<1>7. app' = [app EXCEPT !.in_row_ctr = 0, !.in_rows_avail = a] /\ step' = "main"
  BY <1>2 DEF Calls
<1> HIDE DEF a
<1>8. app' = [next_scanline |-> app.next_scanline, in_row_ctr |-> 0, in_rows_avail |-> a]
  <2>1. app \in [next_scanline : Nat, in_row_ctr : Nat, in_rows_avail : Nat]
    BY <1>1 DEF Shapes
  <2> QED BY <1>7, <2>1
<1>9. /\ app' \in [next_scanline : Nat, in_row_ctr : Nat, in_rows_avail : Nat]
      /\ app'.next_scanline = app.next_scanline /\ app'.in_row_ctr = 0 /\ app'.in_rows_avail = a
  BY <1>1, <1>6, <1>8
<1>10. iMCU_rows' = iMCU_rows /\ min_DCT' = min_DCT /\ Taken' = Taken
  BY <1>1, ImageKept DEF Taken
<1>11. Counted'
  <2>1. app.next_scanline + a <= size.height
    BY <1>1, <1>4, <1>6
  <2>2. main.cur_iMCU_row < iMCU_rows => a > 0
    BY <1>1, <1>4, <1>6 DEF Counted
  <2> QED BY <1>1, <1>7, <1>9, <1>10, <2>1, <2>2 DEF Counted
<1> QED BY <1>1, <1>7, <1>9, <1>11, OnlyCalls

LEMMA ProcessKeepsRows ==
  ASSUME RowsInv, ProcessData
  PROVE  RowsInv'
<1>1. /\ Filling /\ Shapes /\ Counted /\ Sized /\ step = "main"
      /\ size.height \in Nat \ {0} /\ iMCU_rows \in Nat \ {0} /\ min_DCT \in Nat \ {0}
      /\ app.next_scanline \in Nat /\ app.in_row_ctr \in Nat /\ app.in_rows_avail \in Nat
      /\ UNCHANGED <<job, size, pass, prep, conversion, main, strip, coef, arrays, sent>>
      /\ main \in [cur_iMCU_row : Nat, rowgroup_ctr : Nat, suspended : BOOLEAN]
      /\ main.cur_iMCU_row <= iMCU_rows /\ main.rowgroup_ctr <= min_DCT
      /\ app \in [next_scanline : Nat, in_row_ctr : Nat, in_rows_avail : Nat]
      /\ prep.rows_to_go \in Nat
  BY InFirstPass DEF ProcessData, Shapes
<1>2. iMCU_rows' = iMCU_rows /\ min_DCT' = min_DCT /\ Taken' = Taken
  BY <1>1, ImageKept DEF Taken
<1>3. CASE main.cur_iMCU_row = iMCU_rows
  <2>1. /\ step' = "app"
        /\ app' = [next_scanline |-> app.next_scanline + app.in_row_ctr, in_row_ctr |-> 0,
                   in_rows_avail |-> 0]
    BY <1>3 DEF ProcessData, ReturnsWith
  <2>2. /\ app' \in [next_scanline : Nat, in_row_ctr : Nat, in_rows_avail : Nat]
        /\ app'.next_scanline = app.next_scanline + app.in_row_ctr /\ app'.in_row_ctr = 0
        /\ app'.in_rows_avail = 0
    BY <1>1, <2>1
  <2>3. main.rowgroup_ctr = 0 /\ main.suspended = FALSE
    BY <1>1, <1>3 DEF Counted
  <2>4. Taken = app.next_scanline + app.in_row_ctr /\ Taken <= size.height
    BY <1>1, <2>3 DEF Counted, Taken
  <2>5. Counted'
    <3>1. main' = main /\ size' = size /\ prep' = prep
      BY <1>1
    <3> QED BY <1>1, <1>2, <1>3, <2>1, <2>2, <2>3, <2>4, <3>1 DEF Counted
  <2> QED BY <1>1, <2>1, <2>2, <2>5, OnlyCalls
<1>4. CASE main.cur_iMCU_row # iMCU_rows
  <2>1. step' = (IF main.rowgroup_ctr < min_DCT THEN "prep" ELSE "compress") /\ app' = app
    BY <1>4 DEF ProcessData
  <2>2. main.cur_iMCU_row < iMCU_rows
    BY <1>1, <1>4
  <2>3. main.rowgroup_ctr < min_DCT \/ main.rowgroup_ctr = min_DCT
    BY <1>1
  <2>4. main' = main /\ size' = size /\ prep' = prep /\ app' = app
    BY <1>1, <2>1
  <2>5. CASE main.rowgroup_ctr < min_DCT
    <3>1. step' = "prep" /\ main.rowgroup_ctr # min_DCT /\ main.suspended = FALSE
      BY <1>1, <2>1, <2>5 DEF Counted
    <3>2. Counted'
      BY <1>1, <1>2, <2>2, <2>4, <3>1 DEF Counted
    <3> QED BY <1>1, <2>4, <3>1, <3>2, OnlyCalls
  <2>6. CASE main.rowgroup_ctr = min_DCT
    <3>1. step' = "compress" /\ main.suspended = TRUE
      BY <1>1, <2>1, <2>6 DEF Counted
    <3>2. Counted'
      BY <1>1, <1>2, <2>2, <2>4, <2>6, <3>1 DEF Counted
    <3> QED BY <1>1, <2>4, <3>1, <3>2, OnlyCalls
  <2> QED BY <2>3, <2>5, <2>6
<1> QED BY <1>3, <1>4

LEMMA PreprocessedKeepsRows ==
  ASSUME RowsInv, Preprocessed
  PROVE  RowsInv'
<1>1. /\ Filling /\ Shapes /\ Counted /\ PlainBuffer /\ Sized /\ step = "prep"
      /\ size.height \in Nat \ {0} /\ iMCU_rows \in Nat \ {0} /\ min_DCT \in Nat \ {0}
      /\ app.next_scanline \in Nat /\ app.in_row_ctr \in Nat /\ app.in_rows_avail \in Nat
      /\ UNCHANGED <<job, size, pass, prep, conversion, main, strip, coef, arrays, sent>>
      /\ main \in [cur_iMCU_row : Nat, rowgroup_ctr : Nat, suspended : BOOLEAN]
      /\ main.cur_iMCU_row \in Nat /\ main.rowgroup_ctr \in Nat
      /\ main.cur_iMCU_row <= iMCU_rows /\ main.rowgroup_ctr <= min_DCT
      /\ app \in [next_scanline : Nat, in_row_ctr : Nat, in_rows_avail : Nat]
      /\ prep.rows_to_go \in Nat /\ prep.next_buf_row \in Nat
  BY InFirstPass DEF Preprocessed, Shapes
<1>2. iMCU_rows' = iMCU_rows /\ min_DCT' = min_DCT /\ Taken' = Taken
  BY <1>1, ImageKept DEF Taken
<1>3. main.cur_iMCU_row < iMCU_rows /\ main.suspended = FALSE
  BY <1>1 DEF Counted
<1>4. CASE main.rowgroup_ctr = min_DCT
  <2>1. step' = "compress" /\ app' = app
    BY <1>4 DEF Preprocessed
  <2>2. main' = main /\ size' = size /\ prep' = prep /\ app' = app
    BY <1>1, <2>1
  <2>3. app.in_row_ctr > 0
    BY <1>1, <1>4 DEF Counted
  <2>4. Counted'
    BY <1>1, <1>2, <1>3, <1>4, <2>1, <2>2, <2>3 DEF Counted
  <2> QED BY <1>1, <2>1, <2>2, <2>4, OnlyCalls
<1>5. CASE main.rowgroup_ctr # min_DCT
  <2>1. /\ step' = "app"
        /\ app' = [next_scanline |-> app.next_scanline + app.in_row_ctr, in_row_ctr |-> 0,
                   in_rows_avail |-> 0]
        /\ need_context_rows => prep.rows_to_go # 0
    BY <1>5 DEF Preprocessed, ReturnsWith
  <2>2. /\ app' \in [next_scanline : Nat, in_row_ctr : Nat, in_rows_avail : Nat]
        /\ app'.next_scanline = app.next_scanline + app.in_row_ctr /\ app'.in_row_ctr = 0
        /\ app'.in_rows_avail = 0
    BY <1>1, <2>1
  <2>3. Taken = app.next_scanline + app.in_row_ctr
    BY <1>1, <1>3 DEF Counted
  <2>4. Taken < size.height
    <3>1. CASE need_context_rows
      BY <1>1, <2>1, <3>1 DEF Taken
    <3>2. CASE ~need_context_rows
      <4> DEFINE t == Group * max_v_samp + prep.next_buf_row
      <4>1. main.rowgroup_ctr < min_DCT
        BY <1>1, <1>5
      <4>2. /\ Taken = IF t < size.height THEN t ELSE size.height
            /\ t < size.height
        BY <1>1, <1>3, <3>2, <4>1 DEF PlainBuffer
      <4> HIDE DEF t
      <4> QED BY <4>2
    <3> QED BY <3>1, <3>2
  <2>5. Counted'
    <3>1. main' = main /\ size' = size /\ prep' = prep
      BY <1>1
    <3> QED BY <1>1, <1>2, <1>3, <1>5, <2>1, <2>2, <2>3, <2>4, <3>1 DEF Counted
  <2> QED BY <1>1, <2>1, <2>2, <2>5, OnlyCalls
<1> QED BY <1>4, <1>5

\* Nothing changes but what is done next, and the first pass is over.
LEMMA OnlyEnds ==
  ASSUME RowsInv, step # "none",
         UNCHANGED <<job, size, pass, app, prep, conversion, main, strip, coef, arrays, sent>>,
         step' \notin {"none", "app", "main", "prep", "compress", "encode"},
         step' \in {"finish", "done"} => coef.iMCU_row_num = iMCU_rows
  PROVE  RowsInv'
<1>1. /\ Shapes /\ SentSoFar /\ ArraysFilled /\ Sized
  BY DEF RowsInv, Shapes, InScan
<1>2. ~Filling'
  BY DEF Filling
<1>3. ArraysFilled'
  BY <1>1, ArraysKept
<1>4. SentSoFar'
  BY <1>1, <1>2, SentKept
<1>5. Shapes'
  <2>1. StripShape(strip)'
    <3>1. Components' = Components /\ \A c : comp(c)' = comp(c)
      BY ImageKept
    <3> QED BY <1>1, <3>1 DEF Shapes, StripShape
  <2>2. /\ app' \in [next_scanline : Nat, in_row_ctr : Nat, in_rows_avail : Nat]
        /\ prep' \in [rows_to_go : Nat, next_buf_row : Nat, this_row_group : Nat, next_buf_stop : Nat]
        /\ main' \in [cur_iMCU_row : Nat, rowgroup_ctr : Nat, suspended : BOOLEAN]
        /\ main'.cur_iMCU_row <= iMCU_rows /\ main'.rowgroup_ctr <= min_DCT
    BY <1>1 DEF Shapes
  <2> QED BY <1>1, <2>1, <2>2, ShapesKept
<1> QED BY <1>2, <1>3, <1>4, <1>5 DEF RowsInv

LEMMA RefuseKeepsRows ==
  ASSUME RowsInv, RefuseMCU
  PROVE  RowsInv'
<1>1. CASE pass # 1
  <2>1. /\ UNCHANGED <<job, size, pass, app, prep, conversion, main, strip, coef, arrays, sent>>
        /\ step = "encode" /\ step' = "CANT_SUSPEND"
    BY <1>1 DEF RefuseMCU
  <2> QED BY <2>1, OnlyEnds
<1>2. CASE pass = 1
  <2>1. /\ Filling /\ Shapes /\ Counted /\ Sized /\ step = "encode"
        /\ size.height \in Nat \ {0} /\ iMCU_rows \in Nat \ {0} /\ min_DCT \in Nat \ {0}
        /\ app.next_scanline \in Nat /\ app.in_row_ctr \in Nat /\ app.in_rows_avail \in Nat
        /\ UNCHANGED <<job, size, pass, prep, conversion, strip, coef, arrays, sent>>
        /\ main \in [cur_iMCU_row : Nat, rowgroup_ctr : Nat, suspended : BOOLEAN]
        /\ main.cur_iMCU_row \in Nat /\ main.rowgroup_ctr \in Nat /\ main.suspended \in BOOLEAN
        /\ prep.rows_to_go \in Nat
    BY <1>2, InFirstPass DEF RefuseMCU, Shapes
  <2> DEFINE rows == IF main.suspended THEN app.in_row_ctr ELSE app.in_row_ctr - 1
             ns == app.next_scanline + rows
  <2>2. /\ step' = "app" /\ main' = [main EXCEPT !.suspended = TRUE]
        /\ app' = [next_scanline |-> ns, in_row_ctr |-> 0, in_rows_avail |-> 0]
    BY <1>2 DEF RefuseMCU, ReturnsWith
  <2>3. ns \in Nat /\ Taken = ns + 1 /\ main.cur_iMCU_row < iMCU_rows /\ main.rowgroup_ctr = min_DCT
    <3>1. CASE main.suspended
      BY <2>1, <3>1 DEF Counted
    <3>2. CASE ~main.suspended
      BY <2>1, <3>2 DEF Counted
    <3> QED BY <3>1, <3>2
  <2>4. Taken <= size.height
    BY <2>1 DEF Taken
  <2> HIDE DEF ns
  <2>5. /\ app' \in [next_scanline : Nat, in_row_ctr : Nat, in_rows_avail : Nat]
        /\ app'.next_scanline = ns /\ app'.in_row_ctr = 0 /\ app'.in_rows_avail = 0
        /\ main' \in [cur_iMCU_row : Nat, rowgroup_ctr : Nat, suspended : BOOLEAN]
        /\ main'.cur_iMCU_row = main.cur_iMCU_row /\ main'.rowgroup_ctr = main.rowgroup_ctr
        /\ main'.suspended = TRUE
    BY <2>1, <2>2, <2>3
  <2>6. iMCU_rows' = iMCU_rows /\ min_DCT' = min_DCT /\ Taken' = Taken /\ size' = size
        /\ prep' = prep
    BY <2>1, ImageKept DEF Taken
  <2>7. Counted'
    BY <2>1, <2>2, <2>3, <2>4, <2>5, <2>6 DEF Counted
  <2> QED BY <2>1, <2>2, <2>5, <2>7, OnlyCalls
<1> QED BY <1>1, <1>2

LEMMA FinishKeepsRows ==
  ASSUME RowsInv, FinishCompress
  PROVE  RowsInv'
<1>1. /\ Filling /\ Counted /\ SentSoFar /\ step = "app"
      /\ size.height \in Nat \ {0} /\ app.next_scanline \in Nat
      /\ main.cur_iMCU_row \in Nat /\ iMCU_rows \in Nat /\ main.cur_iMCU_row <= iMCU_rows
      /\ UNCHANGED <<job, size, pass, app, prep, conversion, main, strip, coef, arrays, sent>>
  BY InFirstPass DEF FinishCompress
<1>2. /\ step' \in {"TOO_LITTLE_DATA", "finish"}
      /\ step' = "finish" => ~(app.next_scanline < size.height)
  BY DEF FinishCompress
<1>3. step' = "finish" => coef.iMCU_row_num = iMCU_rows
  BY <1>1, <1>2 DEF Counted, SentSoFar
<1> QED BY <1>1, <1>2, <1>3, OnlyEnds

-------------------------------------------------------------------------------
(* Blocks are made and sent *)

LEMMA CompressKeepsRows ==
  ASSUME RowsInv, CompressData
  PROVE  RowsInv'
<1>1. /\ Filling /\ Shapes /\ SentSoFar /\ ArraysFilled /\ Sized /\ InScan /\ pass = 1
      /\ Counted /\ PlainBuffer /\ ContextBuffer /\ StripFilled
      /\ iMCU_rows \in Nat \ {0} /\ main.cur_iMCU_row \in Nat /\ main.cur_iMCU_row <= iMCU_rows
      /\ step = "compress"
  BY InFirstPass DEF CompressData
<1>2. /\ UNCHANGED <<job, size, pass, app, prep, conversion, main, strip, coef, sent>>
      /\ step' = "encode"
  BY DEF CompressData
<1>3. main.cur_iMCU_row < iMCU_rows /\ main.rowgroup_ctr = min_DCT
      /\ coef.iMCU_row_num = main.cur_iMCU_row
  BY <1>1 DEF Counted, SentSoFar
<1>4. coef.iMCU_row_num \in 0 .. iMCU_rows - 1 /\ coef.iMCU_row_num # iMCU_rows
  BY <1>1, <1>3
<1>5. StripHolds(coef.iMCU_row_num, min_DCT) /\ ArraysHold(coef.iMCU_row_num)
  BY <1>1, <1>3 DEF StripFilled, ArraysFilled
<1>6. /\ iMCU_rows' = iMCU_rows /\ Components' = Components /\ MultiPass' = MultiPass
      /\ min_DCT' = min_DCT /\ BufferedRows' = BufferedRows
      /\ \A c : comp(c)' = comp(c)
      /\ \A c, s : RowOfArray(c, s)' = RowOfArray(c, s)
  BY <1>2, ImageKept
<1>7. MultiPass => DOMAIN arrays = Components
                   /\ \A c \in Components : DOMAIN arrays[c] = 0 .. iMCU_rows * comp(c).v - 1
  BY <1>1 DEF Shapes
<1>8. MultiPass =>
        arrays' = [c \in Components |-> [y \in DOMAIN arrays[c] |->
                     IF y \div comp(c).v = coef.iMCU_row_num
                     THEN StoredBlocks(c)[y % comp(c).v] ELSE arrays[c][y]]]
  BY <1>7 DEF CompressData
<1>9. Shapes'
  <2>1. MultiPass => DOMAIN arrays' = Components
                     /\ \A c \in Components : DOMAIN arrays'[c] = 0 .. iMCU_rows * comp(c).v - 1
    BY <1>7, <1>8
  <2>2. InScan'
    BY <1>1, <1>2, ScanKept
  <2> QED BY <1>1, <1>2, <1>6, <2>1, <2>2 DEF Shapes
<1>10. SentSoFar'
  BY <1>1, <1>2, <1>3, <1>4, SentKept
<1>11. ArraysFilled'
  <2>1. ASSUME MultiPass, NEW c \in Components,
               NEW y \in 0 .. (coef.iMCU_row_num + 1) * comp(c).v - 1
        PROVE  arrays'[c][y] = RowOfArray(c, y)
    <3>1. /\ y \in DOMAIN arrays[c]
          /\ RowOfArray(c, y) = IF y \div comp(c).v = coef.iMCU_row_num
                                THEN StoredBlocks(c)[y % comp(c).v] ELSE arrays[c][y]
      BY <1>1, <1>4, <1>5, <1>7, <2>1, StripStored
    <3> QED BY <1>8, <2>1, <3>1
  <2>2. ASSUME NEW n, n = coef.iMCU_row_num + 1  PROVE ArraysHold(n)'
    BY <1>6, <2>1, <2>2 DEF ArraysHold
  <2>3. ASSUME NEW n, n = coef'.iMCU_row_num + 1  PROVE ArraysHold(n)'
    BY <1>2, <2>2, <2>3
  <2> QED BY <1>1, <1>2, <2>3 DEF ArraysFilled, ArraysHold
<1>12. PlainBuffer' /\ ContextBuffer' /\ StripFilled'
  BY <1>1, <1>2, BuffersKept, StripKept
<1>13. Counted'
  <2>1. Taken' = Taken
    BY <1>2 DEF Taken
  <2> QED BY <1>1, <1>2, <1>3, <1>6, <2>1 DEF Counted
<1> QED BY <1>9, <1>10, <1>11, <1>12, <1>13 DEF RowsInv

\* The place in the scan after an MCU was sent.
LEMMA PlaceFields ==
  ASSUME NEW r, NEW n, NEW m, NEW v,
         r = [iMCU_row_num |-> n, mcu_ctr |-> m, MCU_vert_offset |-> v]
  PROVE  /\ n = r.iMCU_row_num /\ m = r.mcu_ctr /\ v = r.MCU_vert_offset
         /\ n \in Nat /\ m \in Nat /\ v \in Nat =>
              r \in [iMCU_row_num : Nat, mcu_ctr : Nat, MCU_vert_offset : Nat]
  OBVIOUS

LEMMA Advances ==
  ASSUME InScan, CoefAt, UNCHANGED <<job, size, pass>>,
         coef \in [iMCU_row_num : Nat, mcu_ctr : Nat, MCU_vert_offset : Nat],
         NEW num1 \in Nat, NEW ctr1 \in Nat, NEW vert1 \in Nat,
         coef' = [iMCU_row_num |-> num1, mcu_ctr |-> ctr1, MCU_vert_offset |-> vert1],
         LastOfiMCURow => num1 = coef.iMCU_row_num + 1 /\ ctr1 = 0 /\ vert1 = 0,
         ~LastOfiMCURow => /\ num1 = coef.iMCU_row_num
                           /\ IF LastOfMCURow THEN ctr1 = 0 /\ vert1 = coef.MCU_vert_offset + 1
                              ELSE ctr1 = coef.mcu_ctr + 1 /\ vert1 = coef.MCU_vert_offset
  PROVE  /\ coef' \in [iMCU_row_num : Nat, mcu_ctr : Nat, MCU_vert_offset : Nat]
         /\ coef'.iMCU_row_num = IF LastOfiMCURow THEN coef.iMCU_row_num + 1 ELSE coef.iMCU_row_num
         /\ coef'.iMCU_row_num = iMCU_rows \/ CoefAt'
         /\ coef'.iMCU_row_num = iMCU_rows => coef'.mcu_ctr = 0 /\ coef'.MCU_vert_offset = 0
         /\ Position \in Nat /\ Position' = Position + 1
<1> DEFINE num == coef.iMCU_row_num
           ctr == coef.mcu_ctr
           vert == coef.MCU_vert_offset
           I == iMCU_rows
           M == MCUs_per_row
           c == scan[1]
           V == comp(c).v
           rows(n) == MCU_rows_per_iMCU_row(n)
           RowAt(n, v) == IF interleaved THEN n ELSE IF n = I THEN height_in_blocks(c) ELSE n * V + v
<1>1. /\ I \in Nat \ {0} /\ M \in Nat \ {0} /\ V \in 1 .. 4 /\ c \in Components /\ Sized
      /\ interleaved \in BOOLEAN
      /\ \A n \in 0 .. I - 1 : rows(n) \in 1 .. 4
  BY SomeSizes DEF InScan
<1>2. num \in 0 .. I - 1 /\ ctr \in 0 .. M - 1 /\ vert \in 0 .. rows(num) - 1
      /\ num \in Nat /\ ctr \in Nat /\ vert \in Nat
  BY DEF CoefAt
<1>3. coef = [iMCU_row_num |-> num, mcu_ctr |-> ctr, MCU_vert_offset |-> vert]
  OBVIOUS
<1>4. MCURow \in Nat /\ MCURow = RowAt(num, vert)
  <2>1. MCURow \in Nat
    BY <1>1, ScanTypes, BlockRowOfMCU
  <2> QED BY <2>1 DEF MCURow
<1>5. /\ scan' = scan /\ interleaved' = interleaved /\ M' = M /\ I' = I
      /\ \A n : rows(n)' = rows(n)
      /\ \A k : comp(k)' = comp(k) /\ height_in_blocks(k)' = height_in_blocks(k)
  BY ScanKept, ImageKept
<1>0. /\ num1 = coef'.iMCU_row_num /\ ctr1 = coef'.mcu_ctr /\ vert1 = coef'.MCU_vert_offset
      /\ coef' \in [iMCU_row_num : Nat, mcu_ctr : Nat, MCU_vert_offset : Nat]
  BY PlaceFields
<1>6. /\ Position' = RowAt(num1, vert1) * M + ctr1
      /\ CoefAt' <=> num1 \in 0 .. I - 1 /\ ctr1 \in 0 .. M - 1 /\ vert1 \in 0 .. rows(num1) - 1
  <2>1. MCURow' = RowAt(num1, vert1)
    BY <1>0, <1>5 DEF MCURow
  <2>2. Position' = RowAt(num1, vert1) * M + ctr1
    BY <1>0, <1>5, <2>1 DEF Position
  <2>3. CoefAt' <=> num1 \in 0 .. I - 1 /\ ctr1 \in 0 .. M - 1 /\ vert1 \in 0 .. rows(num1) - 1
    BY <1>0, <1>5 DEF CoefAt
  <2> QED BY <2>2, <2>3
<1>7. LastOfMCURow <=> ctr = M - 1
  BY DEF LastOfMCURow
<1>8. LastOfiMCURow <=> ctr = M - 1 /\ vert = rows(num) - 1
  BY <1>7 DEF LastOfiMCURow
<1>9. Position = MCURow * M + ctr
  BY DEF Position
<1>10. \A n : rows(n) = IF interleaved THEN 1 ELSE BlockRows(c, n)
  BY DEF MCU_rows_per_iMCU_row
<1>11. /\ \A n \in 0 .. I - 1 : n < I - 1 => BlockRows(c, n) = V
       /\ \A n \in 0 .. I - 1 : n = I - 1 => n * V + BlockRows(c, n) = height_in_blocks(c)
       /\ height_in_blocks(c) \in Nat
  BY <1>1, RowsInIMCU, Geometry
<1>12. (MCURow + 1) * M = MCURow * M + M /\ MCURow * M \in Nat
  BY <1>1, <1>4
<1>17. LastOfiMCURow => LastOfMCURow
  BY <1>7, <1>8
<1>18. /\ LastOfiMCURow => num1 = num + 1 /\ ctr1 = 0 /\ vert1 = 0
       /\ LastOfMCURow /\ ~LastOfiMCURow => num1 = num /\ ctr1 = 0 /\ vert1 = vert + 1
       /\ ~LastOfMCURow => num1 = num /\ ctr1 = ctr + 1 /\ vert1 = vert
  BY <1>17
<1> HIDE DEF num, ctr, vert, I, M, c, V, rows
<1>13. ASSUME ~LastOfMCURow
       PROVE  /\ num1 = IF LastOfiMCURow THEN num + 1 ELSE num
              /\ num1 = I \/ CoefAt'
              /\ num1 = I => ctr1 = 0 /\ vert1 = 0
              /\ Position \in Nat /\ Position' = Position + 1
  <2>2. num1 = num /\ ctr1 = ctr + 1 /\ vert1 = vert
    BY <1>13, <1>18
  <2>3. ctr + 1 \in 0 .. M - 1 /\ ctr + 1 \in Nat
    BY <1>1, <1>2, <1>7, <1>13
  <2>4. Position' = MCURow * M + (ctr + 1) /\ CoefAt'
    BY <1>2, <1>4, <1>6, <2>2, <2>3
  <2> DEFINE p == MCURow * M
  <2>5. p \in Nat /\ Position = p + ctr /\ Position' = p + (ctr + 1)
    BY <1>9, <1>12, <2>4
  <2> HIDE DEF p
  <2>6. Position \in Nat /\ Position' = Position + 1
    BY <1>2, <2>5
  <2>7. ~LastOfiMCURow /\ num # I
    BY <1>1, <1>2, <1>7, <1>8, <1>13
  <2> QED BY <2>2, <2>4, <2>6, <2>7
<1>14. ASSUME LastOfMCURow, RowAt(num1, vert1) = MCURow + 1, ctr1 = 0
       PROVE  Position \in Nat /\ Position' = Position + 1
  <2>1. Position' = (MCURow + 1) * M + 0
    BY <1>6, <1>14
  <2> DEFINE p == MCURow * M
             q == (MCURow + 1) * M
  <2>2. p \in Nat /\ q = p + M /\ Position = p + ctr /\ Position' = q + 0 /\ ctr = M - 1
    BY <1>7, <1>9, <1>12, <1>14, <2>1
  <2> HIDE DEF p, q
  <2> QED BY <1>1, <1>2, <2>2
<1>15. ASSUME LastOfMCURow /\ ~LastOfiMCURow
       PROVE  /\ num1 = IF LastOfiMCURow THEN num + 1 ELSE num
              /\ num1 = I \/ CoefAt'
              /\ num1 = I => ctr1 = 0 /\ vert1 = 0
              /\ Position \in Nat /\ Position' = Position + 1
  <2>2. num1 = num /\ ctr1 = 0 /\ vert1 = vert + 1
    BY <1>15, <1>18
  <2>3. rows(num) \in 1 .. 4
    BY <1>1, <1>2
  <2>4. vert + 1 \in 0 .. rows(num) - 1 /\ 0 \in 0 .. M - 1 /\ num # I
    BY <1>1, <1>2, <1>7, <1>8, <1>15, <2>3
  <2>5. ~interleaved
    BY <1>2, <1>10, <2>3, <2>4
  <2>6. RowAt(num, vert + 1) = MCURow + 1
    <3>1. MCURow = num * V + vert
      BY <1>4, <2>4, <2>5
    <3>2. num * V \in Nat /\ num * V + (vert + 1) = (num * V + vert) + 1
      BY <1>1, <1>2
    <3> QED BY <2>4, <2>5, <3>1, <3>2
  <2>7. CoefAt'
    BY <1>2, <1>6, <2>2, <2>4
  <2>8. vert + 1 \in Nat
    BY <1>2
  <2>9. Position \in Nat /\ Position' = Position + 1
    BY <1>2, <1>14, <1>15, <2>2, <2>6, <2>8
  <2> QED BY <1>15, <2>2, <2>4, <2>7, <2>9
<1>16. ASSUME LastOfiMCURow
       PROVE  /\ num1 = IF LastOfiMCURow THEN num + 1 ELSE num
              /\ num1 = I \/ CoefAt'
              /\ num1 = I => ctr1 = 0 /\ vert1 = 0
              /\ Position \in Nat /\ Position' = Position + 1
  <2>2. num1 = num + 1 /\ ctr1 = 0 /\ vert1 = 0
    BY <1>16, <1>18
  <2>3. num + 1 \in Nat /\ 0 \in 0 .. M - 1
    BY <1>1, <1>2
  <2>4. num + 1 = I \/ num + 1 \in 0 .. I - 1
    BY <1>1, <1>2
  <2>5. num + 1 = I \/ CoefAt'
    <3>1. num + 1 \in 0 .. I - 1 => 0 \in 0 .. rows(num + 1) - 1
      BY <1>1
    <3> QED BY <1>6, <2>2, <2>3, <2>4, <3>1
  <2>6. RowAt(num + 1, 0) = MCURow + 1
    <3>1. CASE interleaved
      BY <1>4, <3>1
    <3>2. CASE ~interleaved
      <4> DEFINE b == BlockRows(c, num)
                 p == num * V
      <4>1. vert = b - 1 /\ b \in 1 .. 4
        BY <1>1, <1>2, <1>8, <1>10, <1>16, <3>2
      <4>2. MCURow = p + vert /\ p \in Nat
        <5>1. num # I
          BY <1>1, <1>2
        <5>2. p \in Nat
          BY <1>1, <1>2
        <5> QED BY <1>4, <3>2, <5>1, <5>2
      <4>3. CASE num + 1 = I
        <5>1. p + b = height_in_blocks(c)
          BY <1>1, <1>2, <1>11, <4>3
        <5>2. RowAt(num + 1, 0) = height_in_blocks(c)
          BY <3>2, <4>3
        <5> HIDE DEF b, p
        <5> QED BY <4>1, <4>2, <5>1, <5>2
      <4>4. CASE num + 1 # I
        <5>1. b = V
          BY <1>1, <1>2, <1>11, <4>4
        <5>2. (num + 1) * V + 0 = p + V
          BY <1>1, <1>2
        <5>3. RowAt(num + 1, 0) = (num + 1) * V + 0
          BY <3>2, <4>4
        <5> HIDE DEF b, p
        <5>4. p + V = (p + vert) + 1
          BY <1>1, <1>2, <4>1, <4>2, <5>1
        <5> QED BY <4>2, <5>2, <5>3, <5>4
      <4> QED BY <4>3, <4>4
    <3> QED BY <1>1, <3>1, <3>2
  <2>7. LastOfMCURow
    BY <1>7, <1>8, <1>16
  <2>8. Position \in Nat /\ Position' = Position + 1
    BY <1>14, <2>2, <2>6, <2>7
  <2> QED BY <1>16, <2>2, <2>5, <2>8
<1>19. /\ num1 = IF LastOfiMCURow THEN num + 1 ELSE num
       /\ num1 = I \/ CoefAt'
       /\ num1 = I => ctr1 = 0 /\ vert1 = 0
       /\ Position \in Nat /\ Position' = Position + 1
  <2> USE <1>17
  <2> QED BY <1>13, <1>15, <1>16
<1> QED BY <1>0, <1>19 DEF num, I

\* The entropy encoder gets the MCU that is next.
LEMMA SentRight ==
  ASSUME RowsInv, step = "encode"
  PROVE  /\ CoefAt /\ MCU = ImageMCU(sent.count) /\ sent.count = Position
         /\ pass = 1 => /\ ArraysHold(coef.iMCU_row_num + 1)
                        /\ coef.iMCU_row_num = main.cur_iMCU_row
<1>1. /\ Shapes /\ SentSoFar /\ ArraysFilled /\ InScan /\ Sized
  BY DEF RowsInv, Shapes, InScan
<1>2. CoefAt /\ sent.count = Position
  BY <1>1 DEF SentSoFar
<1>3. coef.iMCU_row_num + 1 \in Nat /\ coef.iMCU_row_num + 1 <= iMCU_rows /\ iMCU_rows \in Nat
  BY <1>1, <1>2, SomeSizes DEF CoefAt
<1>4. ArraysHold(coef.iMCU_row_num + 1)
  <2>1. CASE pass = 1
    BY <1>1, <2>1 DEF ArraysFilled
  <2>2. CASE pass # 1
    BY <1>1, <1>3, <2>2, ArraysUpTo DEF ArraysFilled
  <2> QED BY <2>1, <2>2
<1>5. pass = 1 => coef.iMCU_row_num = main.cur_iMCU_row
  BY <1>1 DEF SentSoFar, Filling
<1>6. ASSUME ~MultiPass  PROVE StripHolds(coef.iMCU_row_num, min_DCT)
  <2>1. pass = 1
    BY <1>1, <1>6, PassTypes DEF InScan, MultiPass
  <2>2. Counted /\ StripFilled
    BY <2>1, InFirstPass
  <2> QED BY <1>5, <2>1, <2>2 DEF Counted, StripFilled
<1>7. MCU = ImageMCU(Position)
  BY <1>1, <1>2, <1>4, <1>6, MCURight
<1> QED BY <1>2, <1>4, <1>5, <1>7

\* At the end of an iMCU row in the first pass the main controller goes on.
LEMMA NextIMCURow ==
  ASSUME Filling, Shapes, Counted, PlainBuffer, ContextBuffer, step = "encode",
         UNCHANGED <<job, size, pass, prep, conversion, strip>>, step' = "main",
         app' = IF main.suspended THEN [app EXCEPT !.in_row_ctr = @ + 1] ELSE app,
         main' = [cur_iMCU_row |-> main.cur_iMCU_row + 1, rowgroup_ctr |-> 0, suspended |-> FALSE]
  PROVE  /\ Counted' /\ PlainBuffer' /\ ContextBuffer' /\ StripFilled'
         /\ app' \in [next_scanline : Nat, in_row_ctr : Nat, in_rows_avail : Nat]
         /\ main' \in [cur_iMCU_row : Nat, rowgroup_ctr : Nat, suspended : BOOLEAN]
         /\ main'.cur_iMCU_row <= iMCU_rows /\ main'.rowgroup_ctr <= min_DCT
<1> DEFINE cur == main.cur_iMCU_row
           I == iMCU_rows
           D == min_DCT
           V == max_v_samp
           H == size.height
<1>1. InScan /\ Sized
  BY DEF Shapes, InScan
<1>2. /\ I \in Nat \ {0} /\ D \in Nat \ {0} /\ V \in Nat \ {0} /\ H \in Nat \ {0}
  BY <1>1, SomeSizes
<1>3. cur \in Nat /\ cur < I /\ main.rowgroup_ctr = D
  BY DEF Shapes, Counted
<1>4. /\ main'.cur_iMCU_row = cur + 1 /\ main'.rowgroup_ctr = 0 /\ main'.suspended = FALSE
      /\ main' \in [cur_iMCU_row : Nat, rowgroup_ctr : Nat, suspended : BOOLEAN]
  BY <1>3
<1>5. /\ app' \in [next_scanline : Nat, in_row_ctr : Nat, in_rows_avail : Nat]
      /\ app'.next_scanline = app.next_scanline /\ app'.in_rows_avail = app.in_rows_avail
      /\ app'.in_row_ctr = app.in_row_ctr + (IF main.suspended THEN 1 ELSE 0)
  BY DEF Shapes
<1>6. /\ I' = I /\ D' = D /\ V' = V /\ H' = H /\ prep' = prep
      /\ need_context_rows' = need_context_rows /\ Components' = Components
      /\ \A i : ColorRow(i)' = ColorRow(i) /\ Clamp(i)' = Clamp(i)
      /\ \A c : rowgroup_height(c)' = rowgroup_height(c)
      /\ Taken' = Taken /\ Below' = Below /\ conversion' = conversion
  <2>1. V' = V /\ prep' = prep /\ size' = size
    BY ImageKept
  <2> QED BY <2>1, ImageKept DEF Taken, Below
<1>7. Group' = Group /\ Group = (cur + 1) * D
  <2>1. (cur + 1) * D = cur * D + D /\ (cur + 1) * D + 0 = (cur + 1) * D
    <3> HIDE DEF cur, D
    <3>1. cur * D \in Nat
      BY <1>2, <1>3
    <3>2. (cur + 1) * D = cur * D + D
      BY <1>2, <1>3
    <3>3. cur * D + D + 0 = cur * D + D
      <4> DEFINE p == cur * D
      <4>1. p \in Nat
        BY <3>1
      <4> HIDE DEF p
      <4>2. p + D + 0 = p + D
        BY <1>2, <4>1
      <4> QED BY <4>2 DEF p
    <3> QED BY <3>2, <3>3
  <2> QED BY <1>3, <1>4, <1>6, <2>1 DEF Group
<1>8. Counted'
  <2>1. app.next_scanline \in Nat /\ app.in_row_ctr \in Nat
    BY DEF Shapes
  <2>2. /\ Taken' = app'.next_scanline + app'.in_row_ctr + 0
    BY <1>5, <1>6, <2>1 DEF Counted
  <2>3. /\ prep.rows_to_go <= H /\ app.next_scanline + app.in_rows_avail <= H
        /\ app.next_scanline < H /\ app.in_rows_avail > 0
    BY <1>3 DEF Counted
  <2> HIDE DEF cur, I, D, H
  <2> QED BY <1>2, <1>3, <1>4, <1>5, <1>6, <2>2, <2>3 DEF Counted, I, D, H
<1>9. cur + 1 < I => Group * V < H
  <2> SUFFICES ASSUME cur + 1 < I PROVE Group * V < H
    OBVIOUS
  <2>1. (I - 1) * (V * D) < H
    BY <1>1, Geometry
  <2> HIDE DEF cur, I, D, V, H
  <2>2. Group * V = (cur + 1) * (V * D) /\ V * D \in Nat \ {0}
    BY <1>2, <1>3, <1>7, PositiveProduct
  <2> DEFINE e == V * D
  <2>3. (cur + 1) * e <= (I - 1) * e /\ (cur + 1) * e \in Int /\ (I - 1) * e \in Int
    <3>1. cur + 1 \in Int /\ I - 1 \in Int /\ cur + 1 <= I - 1 /\ e \in Nat \ {0}
      BY <1>2, <1>3, <2>2
    <3> HIDE DEF e
    <3> QED BY <3>1, ProductOrder
  <2> DEFINE p == (cur + 1) * e
             q == (I - 1) * e
             g == Group * V
  <2>4. p <= q /\ q < H /\ g = p /\ p \in Int /\ q \in Int
    BY <2>1, <2>2, <2>3
  <2> HIDE DEF p, q, g
  <2>5. g < H
    BY <1>2, <2>4
  <2> QED BY <2>5 DEF g
<1>10. PlainBuffer'
  <2> SUFFICES ASSUME ~need_context_rows PROVE PlainBuffer'
    BY <1>6 DEF PlainBuffer
  <2> DEFINE first == Group * V
             n == prep.next_buf_row
  <2>1. /\ n < V /\ n = 0
        /\ Taken = IF first + n < H THEN first + n ELSE H
        /\ \A k \in 0 .. n - 1 : conversion[k] = first + k
    BY <1>3 DEF PlainBuffer
  <2>2. cur + 1 < I => first + n < H
    <3>1. first \in Nat
      BY <1>2, <1>3, <1>7
    <3> HIDE DEF first, n
    <3>2. first + n = first
      BY <2>1, <3>1
    <3> QED BY <1>9, <3>2 DEF first
  <2> HIDE DEF cur, I, D, V, H
  <2>3. /\ main'.rowgroup_ctr = D => n = 0
        /\ main'.cur_iMCU_row < I /\ main'.rowgroup_ctr < D => first + n < H
    BY <1>4, <2>1, <2>2
  <2> QED BY <1>6, <1>7, <2>1, <2>3 DEF PlainBuffer, I, D, V, H
<1>11. ContextBuffer'
  <2> HIDE DEF cur, D
  <2> QED BY <1>6, <1>7 DEF ContextBuffer
<1>12. StripFilled'
  <2>1. \A c \in Components : 0 .. 0 * rowgroup_height(c) - 1 = {}
    BY <1>1, SomeSizes
  <2> QED BY <1>4, <1>6, <2>1 DEF StripFilled, StripHolds
<1>13. main'.cur_iMCU_row <= I /\ main'.rowgroup_ctr <= D
  <2> HIDE DEF cur, I, D
  <2> QED BY <1>2, <1>3, <1>4
<1> QED BY <1>4, <1>5, <1>8, <1>10, <1>11, <1>12, <1>13

LEMMA EncodeKeepsRows ==
  ASSUME RowsInv, EncodeMCU
  PROVE  RowsInv'
<1>1. /\ Shapes /\ SentSoFar /\ ArraysFilled /\ InScan /\ Sized /\ step = "encode"
  BY DEF RowsInv, Shapes, InScan, EncodeMCU
<1>2. /\ CoefAt /\ MCU = ImageMCU(sent.count) /\ sent.count = Position
      /\ pass = 1 => /\ ArraysHold(coef.iMCU_row_num + 1)
                     /\ coef.iMCU_row_num = main.cur_iMCU_row
  BY <1>1, SentRight
<1>3. /\ UNCHANGED <<job, size, pass, prep, conversion, strip, arrays>>
      /\ sent' = [count |-> sent.count + 1, mcu |-> MCU]
  BY DEF EncodeMCU
<1>4. /\ coef \in [iMCU_row_num : Nat, mcu_ctr : Nat, MCU_vert_offset : Nat]
      /\ iMCU_rows \in Nat \ {0} /\ coef.iMCU_row_num \in 0 .. iMCU_rows - 1
      /\ main.cur_iMCU_row \in Nat
  BY <1>1, <1>2, SomeSizes DEF SentSoFar, CoefAt, Shapes
<1> DEFINE num1 == IF LastOfiMCURow THEN coef.iMCU_row_num + 1 ELSE coef.iMCU_row_num
           ctr1 == IF LastOfMCURow THEN 0 ELSE coef.mcu_ctr + 1
           vert1 == IF LastOfiMCURow THEN 0
                    ELSE IF LastOfMCURow THEN coef.MCU_vert_offset + 1 ELSE coef.MCU_vert_offset
<1>5. /\ num1 \in Nat /\ ctr1 \in Nat /\ vert1 \in Nat
      /\ coef' = [iMCU_row_num |-> num1, mcu_ctr |-> ctr1, MCU_vert_offset |-> vert1]
      /\ LastOfiMCURow => num1 = coef.iMCU_row_num + 1 /\ ctr1 = 0 /\ vert1 = 0
      /\ ~LastOfiMCURow => /\ num1 = coef.iMCU_row_num
                           /\ IF LastOfMCURow THEN ctr1 = 0 /\ vert1 = coef.MCU_vert_offset + 1
                              ELSE ctr1 = coef.mcu_ctr + 1 /\ vert1 = coef.MCU_vert_offset
  <2>1. LastOfiMCURow => LastOfMCURow
    BY DEF LastOfiMCURow
  <2>2. CASE LastOfiMCURow
    <3>1. coef' = [iMCU_row_num |-> coef.iMCU_row_num + 1, mcu_ctr |-> 0, MCU_vert_offset |-> 0]
      BY <2>2 DEF EncodeMCU
    <3>2. num1 = coef.iMCU_row_num + 1 /\ ctr1 = 0 /\ vert1 = 0
      BY <2>1, <2>2
    <3> QED BY <1>4, <2>2, <3>1, <3>2
  <2>3. CASE ~LastOfiMCURow /\ LastOfMCURow
    <3>1. coef' = [coef EXCEPT !.mcu_ctr = 0, !.MCU_vert_offset = @ + 1]
      BY <2>3 DEF EncodeMCU
    <3>2. coef' = [iMCU_row_num |-> coef.iMCU_row_num, mcu_ctr |-> 0,
                   MCU_vert_offset |-> coef.MCU_vert_offset + 1]
      BY <1>4, <3>1
    <3>3. num1 = coef.iMCU_row_num /\ ctr1 = 0 /\ vert1 = coef.MCU_vert_offset + 1
      BY <2>3
    <3> QED BY <1>4, <2>3, <3>2, <3>3
  <2>4. CASE ~LastOfiMCURow /\ ~LastOfMCURow
    <3>1. coef' = [coef EXCEPT !.mcu_ctr = @ + 1]
      BY <2>4 DEF EncodeMCU
    <3>2. coef' = [iMCU_row_num |-> coef.iMCU_row_num, mcu_ctr |-> coef.mcu_ctr + 1,
                   MCU_vert_offset |-> coef.MCU_vert_offset]
      BY <1>4, <3>1
    <3>3. num1 = coef.iMCU_row_num /\ ctr1 = coef.mcu_ctr + 1 /\ vert1 = coef.MCU_vert_offset
      BY <2>4
    <3> QED BY <1>4, <2>4, <3>2, <3>3
  <2> QED BY <2>2, <2>3, <2>4
<1> HIDE DEF num1, ctr1, vert1
<1>6. /\ coef' \in [iMCU_row_num : Nat, mcu_ctr : Nat, MCU_vert_offset : Nat]
      /\ coef'.iMCU_row_num = IF LastOfiMCURow THEN coef.iMCU_row_num + 1 ELSE coef.iMCU_row_num
      /\ coef'.iMCU_row_num = iMCU_rows \/ CoefAt'
      /\ coef'.iMCU_row_num = iMCU_rows => coef'.mcu_ctr = 0 /\ coef'.MCU_vert_offset = 0
      /\ Position \in Nat /\ Position' = Position + 1
  BY <1>1, <1>2, <1>3, <1>4, <1>5, Advances
<1>7. /\ LastOfiMCURow /\ pass = 1 =>
           /\ step' = "main"
           /\ app' = IF main.suspended THEN [app EXCEPT !.in_row_ctr = @ + 1] ELSE app
           /\ main' = [cur_iMCU_row |-> main.cur_iMCU_row + 1, rowgroup_ctr |-> 0,
                       suspended |-> FALSE]
      /\ ~(LastOfiMCURow /\ pass = 1) =>
           /\ step' = IF LastOfiMCURow /\ coef.iMCU_row_num = iMCU_rows - 1
                      THEN "finish" ELSE "encode"
           /\ app' = app /\ main' = main
  BY DEF EncodeMCU
<1>8. /\ iMCU_rows' = iMCU_rows /\ Components' = Components /\ MultiPass' = MultiPass
      /\ \A c : comp(c)' = comp(c)
      /\ \A c, s : RowOfArray(c, s)' = RowOfArray(c, s)
      /\ \A n : ImageMCU(n)' = ImageMCU(n)
  BY <1>3, ImageKept, ScanKept
<1>9. ArraysFilled'
  <2>1. \A n : ArraysHold(n) => ArraysHold(n)'
    BY <1>3, <1>8 DEF ArraysHold
  <2>2. ASSUME NEW n, n = IF pass' # 1 THEN iMCU_rows'
                         ELSE IF step' = "encode" THEN coef'.iMCU_row_num + 1 ELSE coef'.iMCU_row_num
        PROVE  ArraysHold(n)'
    <3>1. CASE pass # 1
      BY <1>1, <1>3, <1>8, <2>1, <2>2, <3>1 DEF ArraysFilled
    <3>2. CASE pass = 1
      <4>1. n = coef.iMCU_row_num + 1
        BY <1>3, <1>6, <1>7, <2>2, <3>2
      <4> QED BY <1>2, <2>1, <3>2, <4>1
    <3> QED BY <3>1, <3>2
  <2> QED BY <2>2 DEF ArraysFilled, ArraysHold
<1>10. SentSoFar'
  <2>1. /\ sent'.count = Position' /\ sent'.count - 1 = sent.count /\ sent'.mcu = MCU
    BY <1>2, <1>3, <1>6
  <2>2. (sent.count > 0 => sent.mcu = ImageMCU(sent.count - 1))'
    BY <1>2, <1>8, <2>1
  <2>3. Filling' => coef'.iMCU_row_num = main'.cur_iMCU_row
    <3>1. CASE LastOfiMCURow /\ pass = 1
      BY <1>2, <1>6, <1>7, <3>1
    <3>2. CASE ~(LastOfiMCURow /\ pass = 1)
      BY <1>2, <1>3, <1>6, <1>7, <3>2 DEF Filling
    <3> QED BY <3>1, <3>2
  <2>4. step' = "encode" => coef'.iMCU_row_num # iMCU_rows
    BY <1>4, <1>6, <1>7
  <2>5. step' \in {"finish", "done"} => coef'.iMCU_row_num = iMCU_rows
    BY <1>4, <1>6, <1>7
  <2> QED BY <1>6, <1>8, <2>1, <2>2, <2>3, <2>4, <2>5 DEF SentSoFar
<1>11. StripShape(strip)'
  <2>1. strip' = strip
    BY <1>3
  <2> QED BY <1>1, <1>8, <2>1 DEF Shapes, StripShape
<1>12. prep' \in [rows_to_go : Nat, next_buf_row : Nat, this_row_group : Nat, next_buf_stop : Nat]
       /\ DOMAIN conversion' = DOMAIN conversion
  BY <1>1, <1>3 DEF Shapes
<1>13. CASE LastOfiMCURow /\ pass = 1
  <2>1. Filling /\ Counted /\ PlainBuffer /\ ContextBuffer
    BY <1>1, <1>13, InFirstPass
  <2>2. /\ Counted' /\ PlainBuffer' /\ ContextBuffer' /\ StripFilled'
        /\ app' \in [next_scanline : Nat, in_row_ctr : Nat, in_rows_avail : Nat]
        /\ main' \in [cur_iMCU_row : Nat, rowgroup_ctr : Nat, suspended : BOOLEAN]
        /\ main'.cur_iMCU_row <= iMCU_rows /\ main'.rowgroup_ctr <= min_DCT
    BY <1>1, <1>3, <1>7, <1>13, <2>1, NextIMCURow
  <2>3. Shapes'
    BY <1>1, <1>3, <1>7, <1>11, <1>12, <1>13, <2>2, ShapesKept
  <2> QED BY <1>9, <1>10, <2>2, <2>3 DEF RowsInv
<1>14. CASE ~(LastOfiMCURow /\ pass = 1)
  <2>1. app' = app /\ main' = main /\ step' \in {"encode", "finish"}
    BY <1>7, <1>14
  <2>2. Shapes'
    <3>1. /\ app' \in [next_scanline : Nat, in_row_ctr : Nat, in_rows_avail : Nat]
          /\ main' \in [cur_iMCU_row : Nat, rowgroup_ctr : Nat, suspended : BOOLEAN]
          /\ main'.cur_iMCU_row <= iMCU_rows /\ main'.rowgroup_ctr <= min_DCT
      BY <1>1, <2>1 DEF Shapes
    <3> QED BY <1>1, <1>3, <1>11, <1>12, <2>1, <3>1, ShapesKept
  <2>3. ASSUME Filling'  PROVE Counted' /\ PlainBuffer' /\ ContextBuffer' /\ StripFilled'
    <3>1. pass = 1 /\ step' = "encode"
      BY <1>3, <2>1, <2>3 DEF Filling
    <3>2. Counted /\ PlainBuffer /\ ContextBuffer /\ StripFilled
      BY <1>1, <3>1, InFirstPass
    <3>3. PlainBuffer' /\ ContextBuffer' /\ StripFilled'
      BY <1>3, <2>1, <3>2, BuffersKept, StripKept
    <3>4. Counted'
      <4>1. Taken' = Taken /\ min_DCT' = min_DCT /\ size' = size /\ prep' = prep
        BY <1>3, ImageKept DEF Taken
      <4> QED BY <1>1, <1>8, <2>1, <3>1, <3>2, <4>1 DEF Counted
    <3> QED BY <3>3, <3>4
  <2> QED BY <1>9, <1>10, <2>2, <2>3 DEF RowsInv
<1> QED BY <1>13, <1>14

-------------------------------------------------------------------------------
(* From pass to pass *)

LEMMA NextPassKeepsRows ==
  ASSUME RowsInv, NextPass
  PROVE  RowsInv'
<1>1. /\ Shapes /\ SentSoFar /\ ArraysFilled /\ InScan /\ Sized /\ step = "finish"
      /\ UNCHANGED <<job, size, app, prep, conversion, main, strip, arrays>>
  BY DEF RowsInv, Shapes, InScan, NextPass
<1>2. coef.iMCU_row_num = iMCU_rows
  BY <1>1 DEF SentSoFar
<1>3. CASE pass = passes
  <2>1. step' = "done" /\ UNCHANGED <<pass, coef, sent>>
    BY <1>3 DEF NextPass
  <2> QED BY <1>1, <1>2, <2>1, OnlyEnds
<1>4. CASE pass # passes
  <2>1. /\ step' = "encode" /\ pass' = pass + 1
        /\ coef' = [iMCU_row_num |-> 0, mcu_ctr |-> 0, MCU_vert_offset |-> 0]
        /\ sent' = [count |-> 0, mcu |-> <<>>]
    BY <1>4 DEF NextPass
  <2>2. /\ iMCU_rows' = iMCU_rows /\ Components' = Components /\ MultiPass' = MultiPass
        /\ min_DCT' = min_DCT /\ BufferedRows' = BufferedRows /\ passes' = passes
        /\ (Sized' <=> Sized)
        /\ \A c : comp(c)' = comp(c)
        /\ \A c, s : RowOfArray(c, s)' = RowOfArray(c, s)
    BY <1>1, ImageKept
  <2>3. pass \in Nat /\ pass' \in 2 .. passes
    BY <1>1, <1>4, <2>1, PassTypes DEF InScan
  <2>4. InScan' /\ pass' # 1
    <3>1. pass' \in 1 .. passes' /\ pass' # 1
      BY <1>1, <2>2, <2>3, PassTypes
    <3> QED BY <1>1, <2>2, <3>1 DEF InScan
  <2>5. Shapes'
    BY <1>1, <2>1, <2>2, <2>4 DEF Shapes
  <2>6. CoefAt' /\ Position' = 0
    <3>1. (InScan /\ coef = [iMCU_row_num |-> 0, mcu_ctr |-> 0, MCU_vert_offset |-> 0]
             => CoefAt /\ Position = 0)'
      BY AtTheStart, PTL
    <3> QED BY <2>1, <2>4, <3>1
  <2>7. ~Filling'
    BY <2>4 DEF Filling
  <2>8. SentSoFar'
    <3>1. coef'.iMCU_row_num # iMCU_rows'
      BY <1>1, <2>1, <2>2, SomeSizes
    <3>2. sent'.count = 0 /\ coef' \in [iMCU_row_num : Nat, mcu_ctr : Nat, MCU_vert_offset : Nat]
      BY <2>1
    <3> QED BY <2>1, <2>6, <2>7, <3>1, <3>2 DEF SentSoFar
  <2>9. ArraysFilled'
    <3>1. ArraysHold(iMCU_rows)
      BY <1>1, <1>2 DEF ArraysFilled
    <3>2. ASSUME NEW n, n = iMCU_rows  PROVE ArraysHold(n)'
      <4>1. arrays' = arrays
        BY <1>1
      <4> QED BY <2>2, <3>1, <3>2, <4>1 DEF ArraysHold
    <3>3. ASSUME NEW n, n = IF pass' # 1 THEN iMCU_rows'
                             ELSE IF step' = "encode" THEN coef'.iMCU_row_num + 1 ELSE coef'.iMCU_row_num
          PROVE  ArraysHold(n)'
      BY <2>2, <2>4, <3>2, <3>3
    <3> QED BY <3>3 DEF ArraysFilled, ArraysHold
  <2> QED BY <2>5, <2>7, <2>8, <2>9 DEF RowsInv
<1> QED BY <1>3, <1>4

LEMMA StutterKeepsRows ==
  ASSUME RowsInv, UNCHANGED cvars
  PROVE  RowsInv'
<1>1. UNCHANGED <<job, size, pass, step, app, prep, conversion, main, strip, coef, arrays, sent>>
  BY DEF cvars
<1>2. CASE step = "none"
  BY <1>1, <1>2 DEF RowsInv
<1>3. CASE step # "none"
  <2>1. /\ Shapes /\ SentSoFar /\ ArraysFilled /\ Sized
    BY <1>3 DEF RowsInv, Shapes, InScan
  <2>2. ArraysFilled'
    BY <1>1, <2>1, ArraysKept
  <2>3. SentSoFar'
    BY <1>1, <2>1, SentKept DEF SentSoFar, Filling
  <2>4. Shapes'
    <3>1. StripShape(strip)'
      <4>1. Components' = Components /\ \A c : comp(c)' = comp(c) /\ strip' = strip
        BY <1>1, ImageKept
      <4> QED BY <2>1, <4>1 DEF Shapes, StripShape
    <3>2. /\ app' \in [next_scanline : Nat, in_row_ctr : Nat, in_rows_avail : Nat]
          /\ prep' \in [rows_to_go : Nat, next_buf_row : Nat, this_row_group : Nat, next_buf_stop : Nat]
          /\ main' \in [cur_iMCU_row : Nat, rowgroup_ctr : Nat, suspended : BOOLEAN]
          /\ main'.cur_iMCU_row <= iMCU_rows /\ main'.rowgroup_ctr <= min_DCT
          /\ DOMAIN conversion' = DOMAIN conversion
          /\ step' \in {"app", "main", "prep", "compress"} => pass = 1
      BY <1>1, <2>1 DEF Shapes
    <3> QED BY <1>1, <2>1, <3>1, <3>2, ShapesKept
  <2>5. ASSUME Filling'  PROVE Counted' /\ PlainBuffer' /\ ContextBuffer' /\ StripFilled'
    <3>1. Filling
      BY <1>1, <2>5 DEF Filling
    <3>2. Counted /\ PlainBuffer /\ ContextBuffer /\ StripFilled
      BY <1>3, <3>1 DEF RowsInv
    <3>3. PlainBuffer' /\ ContextBuffer' /\ StripFilled'
      BY <1>1, <3>2, BuffersKept, StripKept
    <3>4. Counted'
      <4>1. Taken' = Taken /\ min_DCT' = min_DCT /\ size' = size /\ prep' = prep
            /\ iMCU_rows' = iMCU_rows
        BY <1>1, ImageKept DEF Taken
      <4> QED BY <1>1, <3>2, <4>1 DEF Counted
    <3> QED BY <3>3, <3>4
  <2> QED BY <2>2, <2>3, <2>4, <2>5 DEF RowsInv
<1> QED BY <1>2, <1>3

-------------------------------------------------------------------------------
(* Preprocessing *)

LEMMA LinesTakenIs ==
  ASSUME NEW limit \in Nat, prep.next_buf_row \in Nat, app.in_row_ctr \in Nat,
         app.in_rows_avail \in Nat, prep.next_buf_row < limit, app.in_row_ctr < app.in_rows_avail
  PROVE  /\ LinesTaken(limit) \in Nat \ {0}
         /\ prep.next_buf_row + LinesTaken(limit) <= limit
         /\ app.in_row_ctr + LinesTaken(limit) <= app.in_rows_avail
<1> DEFINE a == limit - prep.next_buf_row
           b == app.in_rows_avail - app.in_row_ctr
           m == Min({a, b})
<1>1. a \in Nat \ {0} /\ b \in Nat \ {0}
  OBVIOUS
<1>2. m = IF a <= b THEN a ELSE b
  <2> HIDE DEF a, b
  <2> QED BY <1>1, MinOfTwo
<1>3. LinesTaken(limit) = m
  BY DEF LinesTaken
<1> HIDE DEF m
<1> QED BY <1>1, <1>2, <1>3

\* What is left to show of a step of the preprocessor.
LEMMA PrepKeepsRows ==
  ASSUME RowsInv, step = "prep", UNCHANGED <<job, size, pass, step, coef, arrays, sent>>,
         app' \in [next_scanline : Nat, in_row_ctr : Nat, in_rows_avail : Nat],
         prep' \in [rows_to_go : Nat, next_buf_row : Nat, this_row_group : Nat, next_buf_stop : Nat],
         main' \in [cur_iMCU_row : Nat, rowgroup_ctr : Nat, suspended : BOOLEAN],
         main'.cur_iMCU_row = main.cur_iMCU_row, main'.rowgroup_ctr <= min_DCT,
         DOMAIN conversion' = DOMAIN conversion, StripShape(strip)',
         Counted', PlainBuffer', ContextBuffer', StripFilled'
  PROVE  RowsInv'
<1>1. /\ Filling /\ Shapes /\ SentSoFar /\ ArraysFilled /\ Sized /\ pass = 1
  BY InFirstPass
<1>2. SentSoFar'
  BY <1>1, SentKept DEF SentSoFar
<1>3. ArraysFilled'
  BY <1>1, ArraysKept
<1>4. Shapes'
  <2>1. main'.cur_iMCU_row <= iMCU_rows
    BY <1>1 DEF Shapes
  <2> QED BY <1>1, <2>1, ShapesKept
<1> QED BY <1>2, <1>3, <1>4 DEF RowsInv

\* Lines are taken from the call, and row groups of this iMCU row are made.
LEMMA PrepCounted ==
  ASSUME RowsInv, step = "prep", UNCHANGED <<job, size, step>>, NEW k \in Nat,
         app'.next_scanline = app.next_scanline, app'.in_row_ctr = app.in_row_ctr + k,
         app'.in_rows_avail = app.in_rows_avail, app.in_row_ctr + k <= app.in_rows_avail,
         main'.cur_iMCU_row = main.cur_iMCU_row, main'.rowgroup_ctr \in Nat,
         main'.suspended = main.suspended,
         prep'.rows_to_go = prep.rows_to_go - k,
         main'.rowgroup_ctr = min_DCT => app.in_row_ctr + k > 0
  PROVE  /\ Counted' /\ prep'.rows_to_go \in Nat
         /\ Taken = app.next_scanline + app.in_row_ctr /\ Taken' = Taken + k /\ Taken + k <= size.height
<1>1. /\ Counted /\ size.height \in Nat \ {0} /\ iMCU_rows \in Nat \ {0} /\ min_DCT \in Nat \ {0}
      /\ app.next_scanline \in Nat /\ app.in_row_ctr \in Nat /\ app.in_rows_avail \in Nat
      /\ main.cur_iMCU_row \in Nat /\ main.suspended \in BOOLEAN /\ prep.rows_to_go \in Nat
  BY InFirstPass
<1>2. /\ main.cur_iMCU_row < iMCU_rows /\ main.suspended = FALSE
      /\ app.next_scanline < size.height /\ app.in_rows_avail > 0
      /\ app.next_scanline + app.in_rows_avail <= size.height
      /\ Taken = app.next_scanline + app.in_row_ctr
  BY <1>1 DEF Counted
<1>3. Taken = size.height - prep.rows_to_go /\ Taken' = size.height - (prep.rows_to_go - k)
  BY DEF Taken
<1>4. Taken + k <= size.height /\ Taken' = Taken + k /\ prep'.rows_to_go \in Nat
      /\ prep'.rows_to_go <= size.height
  BY <1>1, <1>2, <1>3
<1>5. iMCU_rows' = iMCU_rows /\ min_DCT' = min_DCT /\ size' = size
  BY ImageKept
<1>6. Counted'
  BY <1>1, <1>2, <1>4, <1>5 DEF Counted
<1> QED BY <1>2, <1>4, <1>6

LEMMA StripNext ==
  ASSUME UNCHANGED <<job, size>>, main'.cur_iMCU_row = main.cur_iMCU_row,
         NEW s, strip' = s, StripShape(s), RowsHeld(s, main.cur_iMCU_row, main'.rowgroup_ctr)
  PROVE  StripFilled' /\ StripShape(strip)'
<1>1. /\ iMCU_rows' = iMCU_rows /\ Components' = Components
      /\ \A c : comp(c)' = comp(c) /\ rowgroup_height(c)' = rowgroup_height(c)
      /\ \A c, r : Sample(c, r)' = Sample(c, r)
  BY ImageKept
<1>2. StripShape(strip)'
  BY <1>1 DEF StripShape
<1>3. StripHolds(main.cur_iMCU_row, main.rowgroup_ctr)'
  BY <1>1 DEF StripHolds, RowsHeld
<1> QED BY <1>2, <1>3 DEF StripFilled

\* The rest of the iMCU row below the image.
LEMMA BottomFilled ==
  ASSUME Sized, ~need_context_rows, NEW s, StripShape(s),
         NEW row \in Nat, NEW ctr \in Nat, ctr < min_DCT, RowsHeld(s, row, ctr + 1),
         (row * min_DCT + ctr) * max_v_samp < size.height,
         size.height <= (row * min_DCT + ctr + 1) * max_v_samp,
         NEW t, t = [c \in Components |-> expand_bottom_edge(s[c], (ctr + 1) * rowgroup_height(c),
                                                             min_DCT * rowgroup_height(c))]
  PROVE  StripShape(t) /\ RowsHeld(t, row, min_DCT)
<1> DEFINE D == min_DCT
           g == row * D + ctr
           V == max_v_samp
           H == size.height
<1>1. D \in Nat \ {0}
  <2>1. D \in 1 .. 16
    BY JobTypes
  <2> HIDE DEF D
  <2> QED BY <2>1
<1>2. g \in Nat /\ g * V < H /\ H <= (g + 1) * V
  <2>1. row * D \in Nat
    BY <1>1
  <2> QED BY <2>1
<1>3. ASSUME NEW c \in Components
      PROVE  /\ DOMAIN t[c] = 0 .. comp(c).v * comp(c).dct_v - 1
             /\ \A r \in 0 .. D * rowgroup_height(c) - 1 :
                  t[c][r] = Sample(c, row * (comp(c).v * comp(c).dct_v) + r)
  <2> DEFINE R == rowgroup_height(c)
             S == comp(c).v * comp(c).dct_v
             a == (ctr + 1) * R
             q == D * R
             e == row * S
             b == (g + 1) * R
  <2>1. R \in Nat \ {0} /\ S = q /\ S \in Nat \ {0}
    BY RowsOfComponent
  <2>2. DOMAIN s[c] = 0 .. S - 1
    BY DEF StripShape
  <2>3. t[c] = [r \in 0 .. S - 1 |-> IF r \in a .. q - 1 THEN s[c][a - 1] ELSE s[c][r]]
    BY <2>2 DEF expand_bottom_edge
  <2>4. \A r \in 0 .. a - 1 : s[c][r] = Sample(c, e + r)
    BY DEF RowsHeld
  <2>5. a \in Nat \ {0} /\ a <= q
    <3>1. ctr + 1 \in Nat \ {0} /\ ctr + 1 <= D
      BY <1>1
    <3> HIDE DEF D, R
    <3> QED BY <1>1, <2>1, <3>1, PositiveProduct, ProductOrder
  <2>6. e \in Nat /\ e + a = b
    <3> HIDE DEF R, S
    <3>1. b = row * D * R + a
      <4> HIDE DEF D
      <4>1. b = (row * D + (ctr + 1)) * R
        <5>1. g + 1 = row * D + (ctr + 1)
          BY <1>1, row * D \in Nat
        <5> QED BY <5>1
      <4>2. (row * D + (ctr + 1)) * R = row * D * R + (ctr + 1) * R
        BY <1>1, <2>1, row * D \in Int, SumTimes
      <4> QED BY <4>1, <4>2
    <3>2. row * D * R = e
      BY <1>1, <2>1
    <3>3. e \in Nat
      BY <2>1
    <3> DEFINE p == row * D * R
    <3>4. b = p + a /\ p = e
      BY <3>1, <3>2
    <3> HIDE DEF a, b, e, p
    <3> QED BY <2>5, <3>3, <3>4
  <2> HIDE DEF R, S, a, q, e, b
  <2>7. ASSUME NEW r \in 0 .. q - 1  PROVE t[c][r] = Sample(c, e + r)
    <3>1. t[c][r] = IF r \in a .. q - 1 THEN s[c][a - 1] ELSE s[c][r]
      BY <2>1, <2>3
    <3>2. CASE r < a
      BY <2>4, <2>5, <3>1, <3>2
    <3>3. CASE ~(r < a)
      <4>1. t[c][r] = Sample(c, e + (a - 1))
        BY <2>4, <2>5, <3>1, <3>3
      <4>2. e + (a - 1) = b - 1 /\ e + r \in Nat /\ b - 1 <= e + r
        BY <2>1, <2>5, <2>6, <3>3
      <4>3. Sample(c, e + r) = Sample(c, b - 1)
        <5> DEFINE n == e + r
        <5>1. n \in Nat /\ b - 1 <= n
          BY <4>2
        <5> HIDE DEF n, g, V, H
        <5>2. Sample(c, n) = Sample(c, (g + 1) * R - 1)
          <6>1. (g + 1) * rowgroup_height(c) - 1 <= n
            BY <5>1 DEF b, R
          <6>2. g * max_v_samp < size.height /\ size.height <= (g + 1) * max_v_samp
            BY <1>2 DEF V, H
          <6> QED BY <1>2, <5>1, <6>1, <6>2, SampleBelow DEF R
        <5> QED BY <5>2 DEF n, b
      <4> QED BY <4>1, <4>2, <4>3
    <3> QED BY <3>2, <3>3
  <2>8. DOMAIN t[c] = 0 .. S - 1
    BY <2>3
  <2> QED BY <2>7, <2>8 DEF S, e, q, R
<1>4. StripShape(t)
  BY <1>3 DEF StripShape
<1> QED BY <1>3, <1>4 DEF RowsHeld

\* The lines of the row group that are in the buffer after some were converted.
LEMMA PlainLines ==
  ASSUME RowsInv, step = "prep", ~need_context_rows, main.rowgroup_ctr < min_DCT,
         NEW k \in Nat \ {0}, prep.next_buf_row + k <= max_v_samp,
         Taken = app.next_scanline + app.in_row_ctr, Taken + k <= size.height
  PROVE  LET first == Group * max_v_samp
             next == prep.next_buf_row + k
         IN /\ Group \in Nat /\ first \in Nat /\ first < size.height
            /\ Taken + k = first + next /\ prep.next_buf_row \in Nat
            /\ DOMAIN ColorConverted(k) = 0 .. max_v_samp - 1
            /\ \A r \in 0 .. next - 1 : ColorConverted(k)[r] = first + r
<1> DEFINE V == max_v_samp
           first == Group * V
           n == prep.next_buf_row
           cc == ColorConverted(k)
           T == app.next_scanline + app.in_row_ctr
<1>1. /\ Counted /\ PlainBuffer /\ Shapes /\ InScan
      /\ main.cur_iMCU_row \in Nat /\ main.rowgroup_ctr \in Nat /\ n \in Nat
      /\ size.height \in Nat \ {0} /\ min_DCT \in Nat \ {0}
      /\ app.next_scanline \in Nat /\ app.in_row_ctr \in Nat
  BY InFirstPass
<1>2. V \in Nat \ {0}
  BY <1>1, SomeSizes
<1>3. Group \in Nat /\ first \in Nat
  <2>1. Group \in Nat
    BY <1>1 DEF Group
  <2> QED BY <1>2, <2>1
<1>4. /\ Taken = first + n /\ first + n < size.height
      /\ \A r \in 0 .. n - 1 : conversion[r] = first + r
  BY <1>1 DEF PlainBuffer, Counted
<1>5. DOMAIN conversion = 0 .. V - 1
  BY <1>1 DEF Shapes, BufferedRows
<1>6. cc = [r \in 0 .. V - 1 |-> IF r \in n .. n + k - 1 THEN T + r - n ELSE conversion[r]]
  BY <1>5 DEF ColorConverted
<1> HIDE DEF first, T, V, n, cc
<1>7. T \in Nat /\ T = first + n
  BY <1>1, <1>4 DEF T
<1>8. ASSUME NEW r \in 0 .. n + k - 1  PROVE cc[r] = first + r
  <2>1. r \in 0 .. V - 1
    BY <1>1, <1>2 DEF n, V
  <2>2. cc[r] = IF r \in n .. n + k - 1 THEN T + r - n ELSE conversion[r]
    BY <1>6, <2>1
  <2>3. CASE r \in n .. n + k - 1
    <3>1. T + r - n = first + r
      BY <1>1, <1>3, <1>7
    <3> QED BY <2>2, <2>3, <3>1
  <2>4. CASE r \notin n .. n + k - 1
    <3>1. r \in 0 .. n - 1
      BY <1>1, <2>4
    <3> QED BY <1>4, <2>2, <2>4, <3>1
  <2> QED BY <2>3, <2>4
<1>9. first < size.height /\ Taken + k = first + (n + k)
  BY <1>1, <1>3, <1>4
<1>10. DOMAIN cc = 0 .. V - 1
  BY <1>6
<1> QED BY <1>1, <1>3, <1>8, <1>9, <1>10 DEF first, n, cc, V

\* With a row group or the image complete, the lines of the row group are there.
LEMMA PlainGroup ==
  ASSUME InScan, ~need_context_rows, NEW cc, NEW next \in Nat \ {0}, next <= max_v_samp,
         NEW group \in Nat, DOMAIN cc = 0 .. max_v_samp - 1,
         \A r \in 0 .. next - 1 : cc[r] = group * max_v_samp + r,
         group * max_v_samp + next <= size.height,
         NEW bottom \in BOOLEAN, bottom <=> group * max_v_samp + next = size.height,
         bottom \/ next = max_v_samp,
         NEW buf, buf = IF bottom THEN expand_bottom_edge(cc, next, max_v_samp) ELSE cc
  PROVE  LinesAt(buf, 0, group) /\ DOMAIN buf = DOMAIN cc
<1> DEFINE V == max_v_samp
           H == size.height
           first == group * V
<1>1. V \in Nat \ {0} /\ H \in Nat \ {0}
  BY SomeSizes
<1>2. first \in Nat
  BY <1>1
<1>3. ASSUME NEW l \in Int, 0 <= l, l < V  PROVE buf[ColorRow(0 + l)] = Clamp(first + l)
  <2>1. ColorRow(0 + l) = l /\ l \in 0 .. V - 1 /\ 0 + l = l
    BY <1>1, <1>3 DEF ColorRow
  <2>2. Clamp(first + l) = IF first + l < H THEN first + l ELSE H - 1
    <3>1. first + l \in Int /\ ~(first + l < 0)
      BY <1>2, <1>3
    <3> HIDE DEF first
    <3> QED BY <1>1, <3>1, ClampIs
  <2>3. \A r \in 0 .. next - 1 : cc[r] = first + r
    OBVIOUS
  <2>4. first + next <= H /\ (bottom <=> first + next = H)
    OBVIOUS
  <2> HIDE DEF first
  <2>5. CASE l < next
    <3>1. cc[l] = first + l /\ first + l < H
      BY <1>1, <1>2, <1>3, <2>3, <2>4, <2>5
    <3>2. buf[l] = cc[l]
      BY <2>1, <2>5 DEF expand_bottom_edge
    <3> QED BY <2>1, <2>2, <3>1, <3>2
  <2>6. CASE ~(l < next)
    <3>1. bottom /\ first + next = H /\ ~(first + l < H)
      BY <1>1, <1>2, <1>3, <2>4, <2>6 DEF V
    <3>2. cc[next - 1] = first + (next - 1)
      BY <2>3
    <3>3. first + (next - 1) = H - 1
      BY <1>1, <1>2, <3>1
    <3>4. buf[l] = cc[next - 1]
      BY <1>3, <2>1, <2>6, <3>1 DEF expand_bottom_edge, V
    <3> QED BY <2>1, <2>2, <3>1, <3>2, <3>3, <3>4
  <2> QED BY <2>5, <2>6
<1>4. DOMAIN buf = DOMAIN cc
  BY DEF expand_bottom_edge
<1> QED BY <1>3, <1>4 DEF LinesAt, V

LEMMA PreProcessKeepsRows ==
  ASSUME RowsInv, PreProcessData
  PROVE  RowsInv'
<1> DEFINE V == max_v_samp
           D == min_DCT
           H == size.height
           cur == main.cur_iMCU_row
           ctr == main.rowgroup_ctr
           k == LinesTaken(V)
           next == prep.next_buf_row + k
           bottom == prep.rows_to_go = k
           full == bottom \/ next = V
           cc == ColorConverted(k)
           buf == IF bottom THEN expand_bottom_edge(cc, next, V) ELSE cc
           sampled == sep_downsample(buf, 0, ctr)
           filled == [c \in Components |-> expand_bottom_edge(sampled[c], (ctr + 1) * rowgroup_height(c),
                                                              D * rowgroup_height(c))]
           new == IF ~full THEN strip ELSE IF ~bottom THEN sampled ELSE filled
           n1 == IF full THEN 0 ELSE next
           ctr1 == IF ~full THEN ctr ELSE IF bottom THEN D ELSE ctr + 1
           first == Group * V
<1>1. /\ step = "prep" /\ ~need_context_rows /\ app.in_row_ctr < app.in_rows_avail
      /\ ctr < D /\ UNCHANGED <<job, size, pass, step, coef, arrays, sent>>
  BY DEF PreProcessData
<1>2. /\ Filling /\ Shapes /\ Counted /\ PlainBuffer /\ StripFilled /\ InScan /\ Sized
      /\ H \in Nat \ {0} /\ iMCU_rows \in Nat \ {0} /\ D \in Nat \ {0}
      /\ app.next_scanline \in Nat /\ app.in_row_ctr \in Nat /\ app.in_rows_avail \in Nat
      /\ cur \in Nat /\ ctr \in Nat /\ main.suspended \in BOOLEAN
      /\ prep.rows_to_go \in Nat /\ prep.next_buf_row \in Nat
  BY <1>1, InFirstPass
<1>3. V \in Nat \ {0} /\ cur < iMCU_rows /\ prep.next_buf_row < V
      /\ Taken = app.next_scanline + app.in_row_ctr
  <2>1. V \in 1 .. 4
    BY <1>2, SomeSizes
  <2> QED BY <1>1, <1>2, <2>1 DEF Counted, PlainBuffer
<1>4. k \in Nat \ {0} /\ next <= V /\ app.in_row_ctr + k <= app.in_rows_avail
  BY <1>1, <1>2, <1>3, LinesTakenIs
<1>5. DOMAIN strip = Components
  BY <1>2 DEF Shapes
<1>6. /\ conversion' = buf /\ strip' = new
      /\ app' = [app EXCEPT !.in_row_ctr = @ + k]
      /\ prep' = [prep EXCEPT !.rows_to_go = @ - k, !.next_buf_row = n1]
      /\ main' = [main EXCEPT !.rowgroup_ctr = ctr1]
  BY <1>5 DEF PreProcessData
<1> HIDE DEF k, cc, buf, sampled, filled, new
<1>7. next \in Nat \ {0} /\ n1 \in Nat /\ ctr1 \in Nat /\ ctr1 <= D
  BY <1>1, <1>2, <1>4
<1> HIDE DEF n1, ctr1
<1>8. /\ app' = [next_scanline |-> app.next_scanline, in_row_ctr |-> app.in_row_ctr + k,
                 in_rows_avail |-> app.in_rows_avail]
      /\ prep' = [rows_to_go |-> prep.rows_to_go - k, next_buf_row |-> n1,
                  this_row_group |-> prep.this_row_group, next_buf_stop |-> prep.next_buf_stop]
      /\ main' = [cur_iMCU_row |-> cur, rowgroup_ctr |-> ctr1, suspended |-> main.suspended]
  <2>1. /\ app \in [next_scanline : Nat, in_row_ctr : Nat, in_rows_avail : Nat]
        /\ prep \in [rows_to_go : Nat, next_buf_row : Nat, this_row_group : Nat, next_buf_stop : Nat]
        /\ main \in [cur_iMCU_row : Nat, rowgroup_ctr : Nat, suspended : BOOLEAN]
    BY <1>2 DEF Shapes
  <2> QED BY <1>6, <2>1
<1>9. /\ app'.next_scanline = app.next_scanline /\ app'.in_row_ctr = app.in_row_ctr + k
      /\ app'.in_rows_avail = app.in_rows_avail
      /\ main'.cur_iMCU_row = cur /\ main'.rowgroup_ctr = ctr1
      /\ main'.suspended = main.suspended
      /\ prep'.rows_to_go = prep.rows_to_go - k /\ prep'.next_buf_row = n1
  BY <1>8
<1>10. /\ Counted' /\ prep'.rows_to_go \in Nat /\ Taken' = Taken + k /\ Taken + k <= H
  <2>1. app.in_row_ctr + k > 0 /\ k \in Nat
    BY <1>2, <1>4
  <2> QED BY <1>1, <1>4, <1>7, <1>9, <2>1, PrepCounted
<1>11. /\ Group \in Nat /\ first \in Nat /\ first < H
       /\ Taken + k = first + next
       /\ DOMAIN cc = 0 .. V - 1
       /\ \A r \in 0 .. next - 1 : cc[r] = first + r
  BY <1>1, <1>3, <1>4, <1>10, PlainLines DEF cc
<1>12. bottom <=> first + next = H
  <2>1. Taken = H - prep.rows_to_go
    BY DEF Taken
  <2>2. Taken \in Nat
    BY <1>2, <1>3
  <2> DEFINE T == Taken
             R == prep.rows_to_go
             e == first + next
  <2>3. T = H - R /\ T + k = e /\ T \in Nat /\ R \in Nat
    BY <1>2, <1>11, <2>1, <2>2
  <2> HIDE DEF T, R, e, H
  <2>4. R = k <=> e = H
    BY <1>2, <1>4, <2>3 DEF H
  <2> QED BY <2>4 DEF R, e, H
<1>13. DOMAIN buf = DOMAIN cc
  BY DEF buf, expand_bottom_edge
<1>14. full => LinesAt(buf, 0, Group)
  <2> SUFFICES ASSUME full PROVE LinesAt(buf, 0, Group)
    OBVIOUS
  <2>1. first + next <= H
    BY <1>10, <1>11
  <2> HIDE DEF bottom, next
  <2> QED BY <1>1, <1>2, <1>4, <1>7, <1>11, <1>12, <2>1, PlainGroup DEF buf, bottom
<1>15. StripShape(strip) /\ StripHolds(cur, ctr)
  BY <1>2, <1>3 DEF Shapes, StripShape, StripFilled
<1>16. Group = cur * D + ctr
  BY DEF Group
<1>17. full => StripShape(sampled) /\ RowsHeld(sampled, cur, ctr + 1)
  <2> SUFFICES ASSUME full PROVE StripShape(sampled) /\ RowsHeld(sampled, cur, ctr + 1)
    OBVIOUS
  <2>1. LinesAt(buf, 0, cur * D + ctr) /\ (cur * D + ctr) * V < H
    BY <1>11, <1>14, <1>16
  <2> HIDE DEF cur, ctr
  <2> QED BY <1>1, <1>2, <1>15, <2>1, Downsampled DEF sampled, cur, ctr
<1>18. StripShape(new) /\ RowsHeld(new, cur, ctr1)
  <2>1. CASE ~full
    BY <1>15, <2>1 DEF new, ctr1, RowsHeld, StripHolds
  <2>2. CASE full /\ ~bottom
    BY <1>17, <2>2 DEF new, ctr1
  <2>3. CASE full /\ bottom
    <3>1. H <= (cur * D + ctr + 1) * V /\ (cur * D + ctr) * V < H
      <4>1. (Group + 1) * V = first + V
        BY <1>3, <1>11
      <4>2. H <= first + V
        <5> HIDE DEF first, next
        <5> QED BY <1>3, <1>4, <1>7, <1>11, <1>12, <2>3
      <4> QED BY <1>11, <1>16, <4>1, <4>2
    <3>2. StripShape(filled) /\ RowsHeld(filled, cur, D)
      <4> HIDE DEF cur, ctr
      <4> QED BY <1>1, <1>2, <1>17, <2>3, <3>1, BottomFilled DEF filled, cur, ctr
    <3> QED BY <2>3, <3>2 DEF new, ctr1
  <2> QED BY <2>1, <2>2, <2>3
<1>19. StripFilled' /\ StripShape(strip)'
  BY <1>1, <1>6, <1>9, <1>18, StripNext
<1>20. /\ iMCU_rows' = iMCU_rows /\ D' = D /\ V' = V /\ H' = H
       /\ need_context_rows' = need_context_rows
  BY <1>1, ImageKept
<1>21. ContextBuffer'
  BY <1>1, <1>20 DEF ContextBuffer
<1>22. Group' = cur * D + ctr1 /\ cur * D \in Nat
  BY <1>2, <1>9, <1>20 DEF Group
<1>23. PlainBuffer'
  <2>1. CASE ~full
    <3>1. n1 = next /\ ctr1 = ctr /\ next < V /\ ~bottom
      BY <1>3, <1>4, <1>7, <2>1 DEF n1, ctr1
    <3>2. Group' * V = first /\ buf = cc
      BY <1>16, <1>22, <3>1 DEF buf
    <3>3. Taken' = first + next /\ first + next < H
      <4> HIDE DEF first, next
      <4> QED BY <1>2, <1>7, <1>10, <1>11, <1>12, <3>1
    <3> HIDE DEF first, next, V, D, H, cur, ctr
    <3> QED BY <1>1, <1>2, <1>6, <1>9, <1>11, <1>20, <3>1, <3>2, <3>3 DEF PlainBuffer, V, D, H, ctr
  <2>2. CASE full
    <3> DEFINE g1 == Group'
    <3>1. n1 = 0
      BY <2>2 DEF n1
    <3>2. g1 \in Nat /\ g1 = cur * D + ctr1
      BY <1>7, <1>22
    <3>3. IF bottom THEN ctr1 = D ELSE g1 = Group + 1
      <4>1. ~bottom => ctr1 = ctr + 1
        BY <2>2 DEF ctr1
      <4>2. bottom => ctr1 = D
        BY <2>2 DEF ctr1
      <4>3. cur * D + (ctr + 1) = (cur * D + ctr) + 1
        BY <1>2, <1>22
      <4> QED BY <1>16, <3>2, <4>1, <4>2, <4>3
    <3>4. g1 * V = IF g1 = Group + 1 THEN first + V ELSE g1 * V
      BY <1>3, <1>11
    <3>5. Taken' = first + next /\ first + next <= H
      BY <1>10, <1>11
    <3>6. /\ Taken' = IF g1 * V + 0 < H THEN g1 * V + 0 ELSE H
          /\ ctr1 < D => g1 * V + 0 < H
      <4> DEFINE f1 == g1 * V
      <4>1. f1 \in Nat
        BY <1>3, <3>2
      <4>2. CASE bottom
        <5>1. Group + 1 <= g1
          <6>1. ctr + 1 <= ctr1
            BY <1>1, <1>2, <3>3, <4>2
          <6> DEFINE p == cur * D
          <6>2. p \in Nat /\ g1 = p + ctr1 /\ Group = p + ctr
            BY <1>16, <1>22, <3>2
          <6> HIDE DEF p, g1
          <6> QED BY <1>2, <1>7, <6>1, <6>2
        <5>2. (Group + 1) * V <= f1 /\ (Group + 1) * V = first + V
          <6> HIDE DEF g1
          <6>1. Group + 1 \in Int /\ g1 \in Int
            BY <1>11, <3>2
          <6> QED BY <1>3, <1>11, <5>1, <6>1, ProductOrder
        <5>3. first + next = H /\ next <= V
          BY <1>4, <1>12, <4>2
        <5> DEFINE q == (Group + 1) * V
        <5>4. q <= f1 /\ q = first + V
          BY <5>2
        <5> HIDE DEF f1, first, next, q, g1
        <5>5. ~(f1 + 0 < H) /\ Taken' = H
          BY <1>2, <1>3, <1>7, <1>11, <3>5, <4>1, <5>3, <5>4
        <5> QED BY <1>2, <3>3, <4>2, <5>5 DEF f1
      <4>3. CASE ~bottom
        <5>1. next = V /\ f1 = first + V
          BY <2>2, <3>3, <3>4, <4>3
        <5>2. first + next # H
          BY <1>12, <4>3
        <5> DEFINE e == first + next
        <5>3. e = f1 /\ e # H /\ e <= H /\ Taken' = e
          BY <3>5, <5>1, <5>2
        <5> HIDE DEF f1, e, H
        <5>4. H \in Nat
          BY <1>2 DEF H
        <5>5. f1 + 0 < H /\ Taken' = f1 + 0
          BY <4>1, <5>3, <5>4
        <5> QED BY <5>5 DEF f1, H
      <4> QED BY <4>2, <4>3
    <3>7. 0 .. 0 - 1 = {}
      OBVIOUS
    <3> HIDE DEF first, next, V, D, H, cur, ctr
    <3> QED BY <1>3, <1>9, <1>20, <3>1, <3>6, <3>7 DEF PlainBuffer, V, D, H
  <2> QED BY <2>1, <2>2
<1>24. /\ app' \in [next_scanline : Nat, in_row_ctr : Nat, in_rows_avail : Nat]
       /\ prep' \in [rows_to_go : Nat, next_buf_row : Nat, this_row_group : Nat, next_buf_stop : Nat]
       /\ main' \in [cur_iMCU_row : Nat, rowgroup_ctr : Nat, suspended : BOOLEAN]
  <2>1. prep.this_row_group \in Nat /\ prep.next_buf_stop \in Nat
    BY <1>1, InFirstPass
  <2>2. prep.rows_to_go - k \in Nat /\ app.in_row_ctr + k \in Nat
    BY <1>2, <1>4, <1>9, <1>10
  <2> QED BY <1>2, <1>7, <1>8, <2>1, <2>2
<1>25. DOMAIN conversion' = DOMAIN conversion
  BY <1>1, <1>2, <1>6, <1>11, <1>13 DEF Shapes, BufferedRows
<1> QED BY <1>1, <1>7, <1>9, <1>10, <1>19, <1>21, <1>23, <1>24, <1>25, PrepKeepsRows

-------------------------------------------------------------------------------
(* Preprocessing with context rows *)

\* Where the rows around the row group are in the buffer of three row groups.
RowsAround(p, q, n) ==
  /\ \/ p = 0 /\ q = 2 * max_v_samp
     \/ p = max_v_samp /\ q = 3 * max_v_samp
     \/ p = 2 * max_v_samp /\ q = max_v_samp
  /\ n \in Nat /\ n < q

LEMMA ColorRows ==
  ASSUME need_context_rows, max_v_samp \in Nat \ {0}, NEW p, NEW q, NEW n, RowsAround(p, q, n),
         NEW b, b = 2 * max_v_samp - (q - n), b >= 0, p = 0 \/ b >= max_v_samp,
         NEW k \in -max_v_samp .. 2 * max_v_samp - 1
  PROVE  /\ ColorRow(p + k) \in 0 .. 3 * max_v_samp - 1
         /\ ColorRow(p + k) \in n .. q - 1 <=> k >= b
         /\ k >= b => ColorRow(p + k) - n = k - b
<1> DEFINE V == max_v_samp
           i == p + k
           j == ColorRow(i)
<1>1. V \in Nat \ {0} /\ p \in Int /\ q \in Int /\ n \in Nat /\ k \in Int /\ -V <= k /\ k < 2 * V
  BY DEF RowsAround
<1>2. j = IF i < 0 THEN i + 3 * V ELSE IF i >= 3 * V THEN i - 3 * V ELSE i
  BY DEF ColorRow
<1>3. /\ b = 2 * V - (q - n) /\ b >= 0 /\ (p = 0 \/ b >= V) /\ n < q
      /\ (p = 0 /\ q = 2 * V) \/ (p = V /\ q = 3 * V) \/ (p = 2 * V /\ q = V)
  BY DEF RowsAround
<1> HIDE DEF V, i, j
<1>4. i = p + k
  BY DEF i
<1>5. CASE p = 0
  BY <1>1, <1>2, <1>3, <1>4, <1>5 DEF i, j, V
<1>6. CASE p = V /\ q = 3 * V
  BY <1>1, <1>2, <1>3, <1>4, <1>6 DEF i, j, V
<1>7. CASE p = 2 * V /\ q = V
  BY <1>1, <1>2, <1>3, <1>4, <1>7 DEF i, j, V
<1> QED BY <1>1, <1>3, <1>5, <1>6, <1>7

\* The lines from the row group above the one at p are there, up to that one.
LinesThere(buf, p, first, b) ==
  \A k \in -max_v_samp .. b - 1 : buf[ColorRow(p + k)] = Clamp(first + k)

\* Rows from n are overwritten with lines from l.
Overwritten(buf, old, n, m, l) ==
  /\ \A r \in 0 .. 3 * max_v_samp - 1 : r \notin n .. n + m - 1 => buf[r] = old[r]
  /\ \A i \in 0 .. m - 1 : buf[n + i] = Clamp(l + i)

\* What the invariant says with context rows.
LEMMA InContext ==
  ASSUME RowsInv, step = "prep", need_context_rows
  PROVE  LET V == max_v_samp
             first == Group * V
         IN /\ V \in Nat \ {0} /\ Group \in Nat /\ first \in Nat /\ Below \in Nat
            /\ RowsAround(prep.this_row_group, prep.next_buf_stop, prep.next_buf_row)
            /\ Below = 2 * V - (prep.next_buf_stop - prep.next_buf_row)
            /\ prep.this_row_group = 0 \/ Below >= V
            /\ Group = 0 => prep.this_row_group = 0 /\ prep.next_buf_stop = 2 * V
                            /\ first = 0
            /\ Group # 0 => first >= V /\ Below >= V
            /\ Taken = IF first + Below < size.height THEN first + Below ELSE size.height
            /\ Taken # 0 => LinesThere(conversion, prep.this_row_group, first, Below)
            /\ DOMAIN conversion = 0 .. 3 * V - 1
<1> DEFINE V == max_v_samp
           first == Group * V
           p == prep.this_row_group
           q == prep.next_buf_stop
           n == prep.next_buf_row
<1>1. /\ ContextBuffer /\ Shapes /\ InScan /\ n \in Nat
      /\ main.cur_iMCU_row \in Nat /\ main.rowgroup_ctr \in Nat /\ min_DCT \in Nat \ {0}
  BY InFirstPass
<1>2. V \in Nat \ {0} /\ V \in 1 .. 4
  BY <1>1, SomeSizes
<1>3. Group \in Nat
  BY <1>1 DEF Group
<1>4. first \in Nat /\ (Group = 0 => first = 0) /\ (Group # 0 => first >= V)
  <2> DEFINE g == Group
  <2>1. g \in Nat
    BY <1>3
  <2> HIDE DEF g, V
  <2>2. g * V \in Nat /\ (g = 0 => g * V = 0)
    BY <1>2, <2>1
  <2>3. g # 0 => 1 * V <= g * V
    BY <1>2, <2>1, ProductOrder
  <2>4. 1 * V = V
    BY <1>2
  <2> QED BY <2>2, <2>3, <2>4 DEF g
<1>5. /\ (p = 0 /\ q = 2 * V) \/ (p = V /\ q = 3 * V) \/ (p = 2 * V /\ q = V)
      /\ n < q
      /\ Group = 0 => p = 0
      /\ Group # 0 => Below >= V
      /\ Taken = IF first + Below < size.height THEN first + Below ELSE size.height
      /\ Taken # 0 => LinesThere(conversion, p, first, Below)
  BY <1>1 DEF ContextBuffer, LinesThere
<1>6. Below = 2 * V - (q - n)
  BY DEF Below
<1>7. DOMAIN conversion = 0 .. 3 * V - 1
  BY <1>1 DEF Shapes, BufferedRows
<1>8. Group = 0 => q = 2 * V
  BY <1>2, <1>5
<1>9. Below \in Nat /\ (p = 0 \/ Below >= V)
  <2>1. CASE Group = 0
    BY <1>1, <1>2, <1>5, <1>6, <1>8, <2>1
  <2>2. CASE Group # 0
    <3>1. q \in Nat
      BY <1>2, <1>5
    <3> QED BY <1>1, <1>2, <1>5, <1>6, <2>2, <3>1
  <2> QED BY <2>1, <2>2
<1>10. RowsAround(p, q, n)
  BY <1>1, <1>5 DEF RowsAround
<1> QED BY <1>2, <1>3, <1>4, <1>5, <1>6, <1>7, <1>8, <1>9, <1>10

LEMMA ContextRowsWritten ==
  ASSUME need_context_rows, max_v_samp \in Nat \ {0},
         NEW p, NEW q, NEW n, RowsAround(p, q, n),
         NEW b, b = 2 * max_v_samp - (q - n), b >= 0, p = 0 \/ b >= max_v_samp,
         NEW first \in Nat, NEW m \in Nat, n + m <= q, NEW l, l = first + b,
         NEW old, NEW buf, LinesThere(old, p, first, b), Overwritten(buf, old, n, m, l)
  PROVE  LinesThere(buf, p, first, b + m)
<1> DEFINE V == max_v_samp
<1>1. V \in Nat \ {0} /\ q \in Int /\ n \in Nat /\ b \in Nat /\ b = 2 * V - (q - n) /\ n + m <= q
  BY DEF RowsAround
<1> SUFFICES ASSUME NEW k \in -V .. b + m - 1  PROVE buf[ColorRow(p + k)] = Clamp(first + k)
  BY DEF LinesThere
<1> DEFINE j == ColorRow(p + k)
<1>2. k \in -V .. 2 * V - 1
  <2> HIDE DEF V
  <2> QED BY <1>1
<1>3. /\ j \in 0 .. 3 * V - 1
      /\ j \in n .. q - 1 <=> k >= b
      /\ k >= b => j - n = k - b
  BY <1>2, ColorRows
<1>4. /\ j \notin n .. n + m - 1 => buf[j] = old[j]
      /\ \A i \in 0 .. m - 1 : buf[n + i] = Clamp(l + i)
  BY <1>3 DEF Overwritten
<1>5. \A t \in -V .. b - 1 : old[ColorRow(p + t)] = Clamp(first + t)
  BY DEF LinesThere
<1> HIDE DEF V
<1>6. CASE k >= b
  <2> DEFINE i == k - b
  <2>1. i \in 0 .. m - 1 /\ l + i = first + k
    BY <1>1, <1>6
  <2>2. j = n + i
    <3> HIDE DEF j
    <3> QED BY <1>1, <1>3, <1>6, <2>1
  <2>3. buf[n + i] = Clamp(first + k)
    <3> HIDE DEF i
    <3> QED BY <1>4, <2>1
  <2> QED BY <2>2, <2>3
<1>7. CASE ~(k >= b)
  <2>1. j \notin n .. q - 1 /\ k \in -V .. b - 1
    BY <1>1, <1>3, <1>7
  <2>2. j \notin n .. n + m - 1
    <3> HIDE DEF j
    <3> QED BY <1>1, <1>3, <2>1
  <2>3. old[j] = Clamp(first + k)
    BY <1>5, <2>1
  <2> QED BY <1>4, <2>2, <2>3
<1> QED BY <1>6, <1>7

\* The buffer's three row groups take turns.
LEMMA NextRowGroup ==
  ASSUME need_context_rows, max_v_samp \in Nat \ {0},
         NEW p, NEW q, NEW n, RowsAround(p, q, n),
         NEW p1, p1 = IF p + max_v_samp >= 3 * max_v_samp THEN 0 ELSE p + max_v_samp,
         NEW n1, n1 = IF q >= 3 * max_v_samp THEN 0 ELSE q
  PROVE  /\ RowsAround(p1, n1 + max_v_samp, n1) /\ p1 \in Nat
         /\ \A k \in -max_v_samp .. max_v_samp - 1 :
              ColorRow(p1 + k) = ColorRow(p + (k + max_v_samp))
<1> DEFINE V == max_v_samp
<1>1. V \in Nat \ {0}
  OBVIOUS
<1>2. (p = 0 /\ q = 2 * V) \/ (p = V /\ q = 3 * V) \/ (p = 2 * V /\ q = V)
  BY DEF RowsAround
<1>3. \A i \in Int : ColorRow(i) = IF i < 0 THEN i + 3 * V ELSE IF i >= 3 * V THEN i - 3 * V ELSE i
  BY DEF ColorRow
<1>4. p1 = (IF p + V >= 3 * V THEN 0 ELSE p + V) /\ n1 = (IF q >= 3 * V THEN 0 ELSE q)
  OBVIOUS
<1> HIDE DEF V
<1>5. /\ (p1 = 0 /\ n1 + V = 2 * V) \/ (p1 = V /\ n1 + V = 3 * V) \/ (p1 = 2 * V /\ n1 + V = V)
      /\ n1 \in Nat /\ n1 < n1 + V /\ p1 \in Nat
      /\ p \in Nat /\ p1 = IF p = 2 * V THEN 0 ELSE p + V
  BY <1>1, <1>2, <1>4
<1>6. ASSUME NEW k \in -V .. V - 1  PROVE ColorRow(p1 + k) = ColorRow(p + (k + V))
  <2> DEFINE i == p1 + k
             j == p + (k + V)
  <2>1. i \in Int /\ j \in Int
    BY <1>1, <1>5
  <2>2. /\ ColorRow(i) = IF i < 0 THEN i + 3 * V ELSE IF i >= 3 * V THEN i - 3 * V ELSE i
        /\ ColorRow(j) = IF j < 0 THEN j + 3 * V ELSE IF j >= 3 * V THEN j - 3 * V ELSE j
    BY <1>3, <2>1
  <2>3. IF p = 2 * V THEN i = k /\ j = k + 3 * V ELSE i = j /\ i \in Int
    BY <1>1, <1>5, <2>1
  <2> HIDE DEF i, j
  <2>4. ColorRow(i) = ColorRow(j)
    <3>1. CASE p = 2 * V
      BY <1>1, <2>2, <2>3, <3>1
    <3>2. CASE p # 2 * V
      BY <2>3, <3>2
    <3> QED BY <3>1, <3>2
  <2> QED BY <2>4 DEF i, j
<1> QED BY <1>5, <1>6 DEF RowsAround, V

\* A row group is made and the next one is begun.
LEMMA ContextGroupKeepsRows ==
  ASSUME RowsInv, step = "prep", need_context_rows, main.rowgroup_ctr < min_DCT,
         UNCHANGED <<job, size, pass, step, coef, arrays, sent>>,
         NEW buf, conversion' = buf, DOMAIN buf = 0 .. 3 * max_v_samp - 1, ContextGroup(buf),
         NEW k \in Nat, app.in_row_ctr + k <= app.in_rows_avail, app.in_row_ctr + k > 0,
         app' = [next_scanline |-> app.next_scanline, in_row_ctr |-> app.in_row_ctr + k,
                 in_rows_avail |-> app.in_rows_avail],
         Taken + k = IF Group * max_v_samp + 2 * max_v_samp < size.height
                     THEN Group * max_v_samp + 2 * max_v_samp ELSE size.height,
         LinesThere(buf, prep.this_row_group, Group * max_v_samp, 2 * max_v_samp)
  PROVE  RowsInv'
<1> DEFINE V == max_v_samp
           D == min_DCT
           H == size.height
           cur == main.cur_iMCU_row
           ctr == main.rowgroup_ctr
           p == prep.this_row_group
           q == prep.next_buf_stop
           first == Group * V
           p1 == IF p + V >= 3 * V THEN 0 ELSE p + V
           n1 == IF q >= 3 * V THEN 0 ELSE q
           new == sep_downsample(buf, p, ctr)
<1>1. /\ Filling /\ Shapes /\ Counted /\ StripFilled /\ InScan /\ Sized
      /\ H \in Nat \ {0} /\ iMCU_rows \in Nat \ {0} /\ D \in Nat \ {0}
      /\ app.next_scanline \in Nat /\ app.in_row_ctr \in Nat /\ app.in_rows_avail \in Nat
      /\ cur \in Nat /\ ctr \in Nat /\ main.suspended \in BOOLEAN
      /\ prep.rows_to_go \in Nat /\ prep.next_buf_row \in Nat
  BY InFirstPass
<1>2. /\ V \in Nat \ {0} /\ Group \in Nat /\ first \in Nat
      /\ RowsAround(p, q, prep.next_buf_row)
      /\ DOMAIN conversion = 0 .. 3 * V - 1
  BY InContext
<1>3. cur < iMCU_rows
  BY <1>1 DEF Counted
<1>4. app'.in_row_ctr - app.in_row_ctr = k
  BY <1>1
<1>5. /\ strip' = new
      /\ main' = [main EXCEPT !.rowgroup_ctr = @ + 1]
      /\ prep' = [prep EXCEPT !.this_row_group = p1, !.next_buf_row = n1,
                              !.next_buf_stop = n1 + V, !.rows_to_go = @ - k]
  BY <1>4 DEF ContextGroup
<1> HIDE DEF new
<1>6. /\ RowsAround(p1, n1 + V, n1) /\ p1 \in Nat
      /\ \A t \in -V .. V - 1 : ColorRow(p1 + t) = ColorRow(p + (t + V))
  <2> HIDE DEF p, q, p1, n1
  <2> QED BY <1>2, NextRowGroup DEF p1, n1
<1> HIDE DEF p1, n1
<1>7. n1 \in Nat /\ n1 + V \in Nat
  BY <1>2, <1>6 DEF RowsAround
<1>8. /\ prep' = [rows_to_go |-> prep.rows_to_go - k, next_buf_row |-> n1,
                  this_row_group |-> p1, next_buf_stop |-> n1 + V]
      /\ main' = [cur_iMCU_row |-> cur, rowgroup_ctr |-> ctr + 1, suspended |-> main.suspended]
  <2>1. /\ prep \in [rows_to_go : Nat, next_buf_row : Nat, this_row_group : Nat, next_buf_stop : Nat]
        /\ main \in [cur_iMCU_row : Nat, rowgroup_ctr : Nat, suspended : BOOLEAN]
    BY <1>1 DEF Shapes
  <2> QED BY <1>5, <2>1
<1>9. /\ app'.next_scanline = app.next_scanline /\ app'.in_row_ctr = app.in_row_ctr + k
      /\ app'.in_rows_avail = app.in_rows_avail
      /\ main'.cur_iMCU_row = cur /\ main'.rowgroup_ctr = ctr + 1
      /\ main'.suspended = main.suspended
      /\ prep'.rows_to_go = prep.rows_to_go - k /\ prep'.next_buf_row = n1
      /\ prep'.this_row_group = p1 /\ prep'.next_buf_stop = n1 + V
  BY <1>8
<1>10. ctr + 1 \in Nat /\ ctr + 1 <= D
  <2> HIDE DEF ctr, D
  <2>1. ctr < D
    BY DEF ctr, D
  <2> QED BY <1>1, <2>1
<1>11. /\ Counted' /\ prep'.rows_to_go \in Nat /\ Taken' = Taken + k
  BY <1>9, <1>10, PrepCounted
<1>12. LinesAt(buf, p, Group)
  <2> SUFFICES ASSUME NEW l \in Int, -1 <= l, l <= V
               PROVE  buf[ColorRow(p + l)] = Clamp(first + l)
    BY DEF LinesAt
  <2>1. \A t \in -V .. 2 * V - 1 : buf[ColorRow(p + t)] = Clamp(first + t)
    BY DEF LinesThere
  <2> HIDE DEF V, p, first
  <2>2. l \in -V .. 2 * V - 1
    BY <1>2
  <2> QED BY <2>1, <2>2
<1>13. StripShape(strip) /\ StripHolds(cur, ctr)
  BY <1>1, <1>3 DEF Shapes, StripShape, StripFilled
<1>14. Group = cur * D + ctr
  BY DEF Group
<1>15. StripShape(new) /\ RowsHeld(new, cur, ctr + 1)
  <2>1. LinesAt(buf, p, cur * D + ctr) /\ p \in Int
    BY <1>2, <1>12, <1>14 DEF RowsAround
  <2> HIDE DEF cur, ctr, p
  <2> QED BY <1>1, <1>13, <2>1, Downsampled DEF new, cur, ctr
<1>16. StripFilled' /\ StripShape(strip)'
  BY <1>5, <1>9, <1>15, StripNext
<1>17. /\ iMCU_rows' = iMCU_rows /\ D' = D /\ V' = V /\ H' = H
       /\ need_context_rows' = need_context_rows
       /\ \A i : ColorRow(i)' = ColorRow(i) /\ Clamp(i)' = Clamp(i)
  BY ImageKept
<1>18. PlainBuffer'
  BY <1>17 DEF PlainBuffer
<1>19. Group' = Group + 1
  <2>1. Group' = cur * D + (ctr + 1)
    BY <1>9, <1>17 DEF Group
  <2>2. cur * D \in Nat
    BY <1>1
  <2> QED BY <1>1, <1>14, <2>1, <2>2
<1>20. Below' = V
  <2>1. Below' = 2 * V - ((n1 + V) - n1)
    BY <1>9, <1>17 DEF Below
  <2> HIDE DEF V
  <2> QED BY <1>2, <1>7, <2>1
<1>21. Group' * V = first + V
  <2>1. (Group + 1) * V = first + V
    BY <1>2
  <2> QED BY <1>19, <2>1
<1>22. Taken' = IF first + V + V < H THEN first + V + V ELSE H
  <2>1. first + V + V = first + 2 * V
    <3> HIDE DEF V, first
    <3> QED BY <1>2
  <2>2. Taken' = IF first + 2 * V < H THEN first + 2 * V ELSE H
    BY <1>11
  <2> HIDE DEF V, first, H
  <2> QED BY <2>1, <2>2
<1>23. ASSUME NEW t \in -V .. V - 1  PROVE buf[ColorRow(p1 + t)] = Clamp(first + V + t)
  <2>1. ColorRow(p1 + t) = ColorRow(p + (t + V))
    BY <1>6
  <2>2. \A u \in -V .. 2 * V - 1 : buf[ColorRow(p + u)] = Clamp(first + u)
    BY DEF LinesThere
  <2> HIDE DEF V, p, first
  <2>3. t + V \in -V .. 2 * V - 1 /\ first + (t + V) = first + V + t
    BY <1>2
  <2> QED BY <2>1, <2>2, <2>3
<1>24. ContextBuffer'
  <2>1. /\ \/ p1 = 0 /\ n1 + V = 2 * V
           \/ p1 = V /\ n1 + V = 3 * V
           \/ p1 = 2 * V /\ n1 + V = V
        /\ n1 < n1 + V
    BY <1>6 DEF RowsAround
  <2>2. Group' # 0
    BY <1>2, <1>19
  <2>3. V >= V
    BY <1>2
  <2> HIDE DEF V, first, H, p
  <2> QED BY <1>9, <1>17, <1>20, <1>21, <1>22, <1>23, <2>1, <2>2, <2>3 DEF ContextBuffer, V, H
<1>25. /\ app' \in [next_scanline : Nat, in_row_ctr : Nat, in_rows_avail : Nat]
       /\ prep' \in [rows_to_go : Nat, next_buf_row : Nat, this_row_group : Nat, next_buf_stop : Nat]
       /\ main' \in [cur_iMCU_row : Nat, rowgroup_ctr : Nat, suspended : BOOLEAN]
  <2>1. prep.rows_to_go - k \in Nat
    BY <1>9, <1>11, Zenon
  <2>2. app.in_row_ctr + k \in Nat
    BY <1>1
  <2> QED BY <2>2, <1>1, <1>6, <1>7, <1>8, <1>10, <2>1
<1>26. DOMAIN conversion' = DOMAIN conversion
  BY <1>2
<1> QED BY <1>9, <1>10, <1>11, <1>16, <1>18, <1>24, <1>25, <1>26, PrepKeepsRows

\* The lines of a call are converted to the buffer with context.
LEMMA ContextConverted ==
  ASSUME RowsInv, step = "prep", need_context_rows,
         NEW m \in Nat \ {0}, prep.next_buf_row + m <= prep.next_buf_stop,
         app.in_row_ctr + m <= app.in_rows_avail,
         NEW buf, buf = IF prep.rows_to_go = size.height THEN PaddedAtTop(ColorConverted(m))
                        ELSE ColorConverted(m)
  PROVE  /\ Taken = Group * max_v_samp + Below
         /\ Taken + m <= size.height
         /\ DOMAIN buf = 0 .. 3 * max_v_samp - 1
         /\ LinesThere(buf, prep.this_row_group, Group * max_v_samp, Below + m)
<1> DEFINE V == max_v_samp
           H == size.height
           first == Group * V
           p == prep.this_row_group
           q == prep.next_buf_stop
           n == prep.next_buf_row
           b == Below
           T == app.next_scanline + app.in_row_ctr
           cc == ColorConverted(m)
<1>1. /\ Counted /\ H \in Nat \ {0} /\ Sized /\ n \in Nat
      /\ app.next_scanline \in Nat /\ app.in_row_ctr \in Nat /\ app.in_rows_avail \in Nat
      /\ prep.rows_to_go \in Nat
  BY InFirstPass
<1>2. /\ V \in Nat \ {0} /\ Group \in Nat /\ first \in Nat /\ b \in Nat
      /\ RowsAround(p, q, n)
      /\ b = 2 * V - (q - n)
      /\ p = 0 \/ b >= V
      /\ Group = 0 => p = 0 /\ q = 2 * V /\ first = 0
      /\ Group # 0 => first >= V /\ b >= V
      /\ Taken = IF first + b < H THEN first + b ELSE H
      /\ Taken # 0 => LinesThere(conversion, p, first, b)
      /\ DOMAIN conversion = 0 .. 3 * V - 1
  BY InContext
<1>3. Taken = T /\ T \in Nat /\ T + m <= H
  <2>1. /\ main.suspended = FALSE /\ Taken = T + (IF main.suspended THEN 1 ELSE 0)
        /\ app.next_scanline + app.in_rows_avail <= H
    BY <1>1 DEF Counted
  <2> HIDE DEF H
  <2>2. T \in Nat /\ T + m <= H
    BY <1>1, <2>1
  <2> HIDE DEF T
  <2> QED BY <2>1, <2>2
<1>4. cc = [r \in 0 .. 3 * V - 1 |-> IF r \in n .. n + m - 1 THEN T + r - n ELSE conversion[r]]
  BY <1>2 DEF ColorConverted
<1>5. PaddedAtTop(cc) = [r \in 0 .. 3 * V - 1 |-> IF r >= 2 * V THEN cc[0] ELSE cc[r]]
  BY <1>4 DEF PaddedAtTop
<1>6. buf = IF prep.rows_to_go = H THEN PaddedAtTop(cc) ELSE cc
  OBVIOUS
<1>7. Taken = H - prep.rows_to_go
  BY DEF Taken
<1>8. n + m <= q /\ n + m <= 3 * V
  BY <1>1, <1>2 DEF RowsAround
<1>9. \A l \in Int : Clamp(l) = IF l < 0 THEN 0 ELSE IF l < H THEN l ELSE H - 1
  BY <1>1, ClampIs
<1>10. DOMAIN buf = 0 .. 3 * V - 1
  BY <1>4, <1>5, <1>6
<1> HIDE DEF V, H, first, p, q, n, b, T, cc
<1>11. T = first + b
  BY <1>1, <1>2, <1>3
<1>12. \A i \in 0 .. m - 1 : cc[n + i] = T + i /\ Clamp(T + i) = T + i
  <2> SUFFICES ASSUME NEW i \in 0 .. m - 1  PROVE cc[n + i] = T + i /\ Clamp(T + i) = T + i
    OBVIOUS
  <2>1. n + i \in n .. n + m - 1 /\ n + i \in 0 .. 3 * V - 1 /\ T + (n + i) - n = T + i
    BY <1>1, <1>2, <1>3, <1>8
  <2>2. cc[n + i] = T + (n + i) - n
    BY <1>4, <2>1
  <2>3. T + i \in Int /\ ~(T + i < 0) /\ T + i < H
    BY <1>1, <1>3
  <2> QED BY <1>9, <2>1, <2>2, <2>3
<1>13. CASE Taken # 0
  <2>1. buf = cc
    BY <1>1, <1>3, <1>6, <1>7, <1>13
  <2>2. Overwritten(cc, conversion, n, m, T)
    BY <1>4, <1>12 DEF Overwritten, V
  <2>3. LinesThere(conversion, p, first, b)
    BY <1>2, <1>13
  <2>4. LinesThere(buf, p, first, b + m)
    <3>1. b >= 0 /\ m \in Nat /\ (p = 0 \/ b >= max_v_samp) /\ max_v_samp \in Nat \ {0}
          /\ b = 2 * max_v_samp - (q - n)
      BY <1>2 DEF V
    <3> QED BY <1>2, <1>8, <1>11, <2>1, <2>2, <2>3, <3>1, ContextRowsWritten
  <2> QED BY <1>3, <1>10, <1>11, <2>4 DEF V, H, first, p, b, T
<1>14. CASE Taken = 0
  <2>1. first = 0 /\ b = 0 /\ p = 0 /\ q = 2 * V /\ n = 0 /\ T = 0
    <3>1. first = 0 /\ b = 0
      BY <1>2, <1>3, <1>11, <1>14
    <3>2. Group = 0
      BY <1>2, <3>1
    <3>3. p = 0 /\ q = 2 * V
      BY <1>2, <3>2
    <3> QED BY <1>1, <1>2, <1>3, <1>14, <3>1, <3>3
  <2>2. buf = PaddedAtTop(cc)
    <3>1. prep.rows_to_go = H
      BY <1>1, <1>7, <1>14 DEF H
    <3> QED BY <1>6, <3>1
  <2>3. cc[0] = 0 /\ \A i \in 0 .. m - 1 : cc[i] = i /\ Clamp(i) = i
    <3>1. \A i \in 0 .. m - 1 : n + i = i /\ T + i = i
      BY <2>1
    <3> QED BY <1>12, <3>1
  <2>4. ASSUME NEW k \in -V .. m - 1  PROVE buf[ColorRow(p + k)] = Clamp(first + k)
    <3>1. p + k = k /\ first + k = k /\ k \in Int
      BY <1>2, <2>1
    <3>2. ColorRow(k) = IF k < 0 THEN k + 3 * V ELSE IF k >= 3 * V THEN k - 3 * V ELSE k
      BY DEF ColorRow, V
    <3>3. CASE k < 0
      <4>1. k + 3 * V \in 0 .. 3 * V - 1 /\ k + 3 * V >= 2 * V
        BY <1>2, <3>3
      <4>2. buf[k + 3 * V] = 0
        BY <1>5, <2>2, <2>3, <4>1
      <4>3. Clamp(k) = 0
        BY <1>9, <3>1, <3>3
      <4> QED BY <3>1, <3>2, <3>3, <4>2, <4>3
    <3>4. CASE ~(k < 0)
      <4>1. k \in 0 .. m - 1 /\ k \in 0 .. 3 * V - 1 /\ ~(k >= 2 * V) /\ ~(k >= 3 * V)
        BY <1>2, <1>8, <2>1, <3>4
      <4>2. buf[k] = k
        BY <1>5, <2>2, <2>3, <4>1
      <4>3. Clamp(k) = k
        BY <2>3, <4>1
      <4> QED BY <3>1, <3>2, <3>4, <4>1, <4>2, <4>3
    <3> QED BY <3>3, <3>4
  <2>5. LinesThere(buf, p, first, b + m)
    <3>1. (b + m) - 1 = m - 1
      BY <2>1
    <3> QED BY <2>4, <3>1 DEF LinesThere, V
  <2> QED BY <1>3, <1>10, <1>11, <2>5 DEF V, H, first, p, b, T
<1> QED BY <1>13, <1>14

LEMMA ContextKeepsRows ==
  ASSUME RowsInv, PreProcessContext
  PROVE  RowsInv'
<1> DEFINE V == max_v_samp
           D == min_DCT
           H == size.height
           cur == main.cur_iMCU_row
           ctr == main.rowgroup_ctr
           p == prep.this_row_group
           q == prep.next_buf_stop
           n == prep.next_buf_row
           first == Group * V
           m == LinesTaken(q)
           buf == IF prep.rows_to_go = H THEN PaddedAtTop(ColorConverted(m)) ELSE ColorConverted(m)
<1>1. /\ step = "prep" /\ need_context_rows /\ app.in_row_ctr < app.in_rows_avail
      /\ ctr < D /\ UNCHANGED <<job, size, pass, step, coef, arrays, sent>>
  BY DEF PreProcessContext
<1>2. /\ Filling /\ Shapes /\ Counted /\ StripFilled /\ InScan /\ Sized
      /\ H \in Nat \ {0} /\ iMCU_rows \in Nat \ {0} /\ D \in Nat \ {0}
      /\ app.next_scanline \in Nat /\ app.in_row_ctr \in Nat /\ app.in_rows_avail \in Nat
      /\ cur \in Nat /\ ctr \in Nat /\ main.suspended \in BOOLEAN
      /\ prep.rows_to_go \in Nat /\ n \in Nat /\ q \in Nat
  BY <1>1, InFirstPass
<1>3. /\ V \in Nat \ {0} /\ first \in Nat /\ Below \in Nat
      /\ RowsAround(p, q, n) /\ n < q
      /\ Below = 2 * V - (q - n)
      /\ DOMAIN conversion = 0 .. 3 * V - 1
      /\ Group \in Nat
  BY <1>1, InContext DEF RowsAround
<1>4. m \in Nat \ {0} /\ n + m <= q /\ app.in_row_ctr + m <= app.in_rows_avail
  BY <1>1, <1>2, <1>3, LinesTakenIs
<1>5. /\ conversion' = buf
      /\ app' = [app EXCEPT !.in_row_ctr = @ + m]
      /\ n + m = q => ContextGroup(buf)
      /\ n + m # q => /\ prep' = [prep EXCEPT !.next_buf_row = @ + m, !.rows_to_go = @ - m]
                      /\ UNCHANGED <<strip, main>>
  BY DEF PreProcessContext
<1> HIDE DEF m
<1>6. /\ Taken = first + Below /\ Taken + m <= H
      /\ DOMAIN buf = 0 .. 3 * V - 1
      /\ LinesThere(buf, p, first, Below + m)
  <2> HIDE DEF buf
  <2> QED BY <1>1, <1>4, ContextConverted DEF buf
<1> HIDE DEF buf
<1>7. app' = [next_scanline |-> app.next_scanline, in_row_ctr |-> app.in_row_ctr + m,
              in_rows_avail |-> app.in_rows_avail]
  <2>1. app \in [next_scanline : Nat, in_row_ctr : Nat, in_rows_avail : Nat]
    BY <1>2 DEF Shapes
  <2> QED BY <1>5, <2>1
<1>8. CASE n + m = q
  <2>1. Below + m = 2 * V
    <3> HIDE DEF V, n, q
    <3> QED BY <1>2, <1>3, <1>4, <1>8
  <2>2. LinesThere(buf, p, first, 2 * V)
    BY <1>6, <2>1
  <2>3. Taken + m = IF first + 2 * V < H THEN first + 2 * V ELSE H
    <3> DEFINE T == Taken
               B == Below
    <3>1. T = first + B /\ T + m <= H /\ B + m = 2 * V /\ B \in Nat
      BY <1>3, <1>6, <2>1
    <3> HIDE DEF T, B, first, V, H
    <3>2. T + m = first + 2 * V
      BY <1>3, <1>4, <3>1
    <3>3. H \in Nat
      BY <1>2
    <3>4. T + m = IF first + 2 * V < H THEN first + 2 * V ELSE H
      BY <1>3, <3>1, <3>2, <3>3
    <3> QED BY <3>4 DEF T
  <2>4. ContextGroup(buf) /\ m \in Nat /\ app.in_row_ctr + m > 0
    BY <1>2, <1>4, <1>5, <1>8
  <2> QED BY <1>1, <1>4, <1>5, <1>6, <1>7, <2>2, <2>3, <2>4, ContextGroupKeepsRows
<1>9. CASE n + m # q
  <2>1. /\ prep' = [prep EXCEPT !.next_buf_row = @ + m, !.rows_to_go = @ - m]
        /\ UNCHANGED <<strip, main>>
    BY <1>5, <1>9
  <2>2. prep' = [rows_to_go |-> prep.rows_to_go - m, next_buf_row |-> n + m,
                 this_row_group |-> p, next_buf_stop |-> q]
    <3>1. prep \in [rows_to_go : Nat, next_buf_row : Nat, this_row_group : Nat, next_buf_stop : Nat]
      BY <1>2 DEF Shapes
    <3> QED BY <2>1, <3>1
  <2>3. /\ app'.next_scanline = app.next_scanline /\ app'.in_row_ctr = app.in_row_ctr + m
        /\ app'.in_rows_avail = app.in_rows_avail
        /\ main'.cur_iMCU_row = cur /\ main'.rowgroup_ctr = ctr
        /\ main'.suspended = main.suspended
        /\ prep'.rows_to_go = prep.rows_to_go - m /\ prep'.next_buf_row = n + m
        /\ prep'.this_row_group = p /\ prep'.next_buf_stop = q
    BY <1>7, <2>1, <2>2
  <2>4. /\ Counted' /\ prep'.rows_to_go \in Nat /\ Taken' = Taken + m
    <3>1. app.in_row_ctr + m > 0 /\ m \in Nat
      BY <1>2, <1>4
    <3> QED BY <1>1, <1>2, <1>4, <2>3, <3>1, PrepCounted
  <2>5. /\ iMCU_rows' = iMCU_rows /\ D' = D /\ V' = V /\ H' = H
        /\ need_context_rows' = need_context_rows
        /\ \A i : ColorRow(i)' = ColorRow(i) /\ Clamp(i)' = Clamp(i)
    BY <1>1, ImageKept
  <2>6. PlainBuffer'
    BY <1>1, <2>5 DEF PlainBuffer
  <2>7. StripFilled' /\ StripShape(strip)'
    <3>1. cur < iMCU_rows
      BY <1>1, <1>2 DEF Counted
    <3>2. StripShape(strip) /\ RowsHeld(strip, cur, ctr)
      BY <1>2, <3>1 DEF Shapes, StripShape, StripFilled, StripHolds, RowsHeld
    <3> QED BY <1>1, <2>1, <2>3, <3>2, StripNext
  <2>8. ContextBuffer'
    <3>1. Group' = Group
      BY <2>3, <2>5 DEF Group
    <3>2. Below' = Below + m
      <4>1. Below' = 2 * V - (q - (n + m))
        BY <2>3, <2>5 DEF Below
      <4> HIDE DEF V, n, q
      <4> QED BY <1>2, <1>3, <1>4, <4>1
    <3>3. Group # 0 => Below + m >= V
      <4>1. Group # 0 => Below >= V
        BY <1>1, InContext
      <4> HIDE DEF V
      <4> QED BY <1>3, <1>4, <4>1
    <3>4. Taken' = IF first + (Below + m) < H THEN first + (Below + m) ELSE H
      <4> DEFINE T == Taken
                 B == Below
                 T1 == Taken'
      <4>1. T = first + B /\ T1 = T + m /\ T + m <= H /\ B \in Nat /\ H \in Nat
        BY <1>2, <1>3, <1>6, <2>4
      <4> HIDE DEF T, B, T1, first, H
      <4>2. T1 = IF first + (B + m) < H THEN first + (B + m) ELSE H
        BY <1>3, <1>4, <4>1
      <4> QED BY <4>2 DEF T1, B
    <3>5. \A k \in -V .. Below + m - 1 : buf[ColorRow(p + k)] = Clamp(first + k)
      <4>1. Below + m - 1 = (Below + m) - 1
        BY <1>3, <1>4
      <4> QED BY <1>6, <4>1 DEF LinesThere
    <3>6. /\ (p = 0 /\ q = 2 * V) \/ (p = V /\ q = 3 * V) \/ (p = 2 * V /\ q = V)
          /\ n + m < q
          /\ Group = 0 => p = 0
      <4>1. n + m < q
        <5> HIDE DEF n, q
        <5> QED BY <1>2, <1>4, <1>9
      <4> QED BY <1>1, <1>3, <4>1, InContext DEF RowsAround
    <3>7. (Below + m) - 1 = Below + m - 1
      BY <1>3, <1>4
    <3> HIDE DEF V, H, p, q, n
    <3> QED BY <1>5, <2>3, <2>5, <3>1, <3>2, <3>3, <3>4, <3>5, <3>6, <3>7 DEF ContextBuffer, V, H
  <2>9. /\ app' \in [next_scanline : Nat, in_row_ctr : Nat, in_rows_avail : Nat]
        /\ prep' \in [rows_to_go : Nat, next_buf_row : Nat, this_row_group : Nat, next_buf_stop : Nat]
        /\ main' \in [cur_iMCU_row : Nat, rowgroup_ctr : Nat, suspended : BOOLEAN]
    <3>1. prep.rows_to_go - m \in Nat
      BY <2>3, <2>4, Zenon
    <3>2. app.in_row_ctr + m \in Nat /\ n + m \in Nat /\ p \in Nat
      <4>1. p \in Nat
        BY <1>1, InFirstPass
      <4> HIDE DEF n, p
      <4> QED BY <1>2, <1>4, <4>1
    <3>3. main \in [cur_iMCU_row : Nat, rowgroup_ctr : Nat, suspended : BOOLEAN]
      BY <1>2 DEF Shapes
    <3> QED BY <1>2, <1>7, <2>1, <2>2, <3>1, <3>2, <3>3
  <2>10. DOMAIN conversion' = DOMAIN conversion
    BY <1>3, <1>5, <1>6
  <2>11. main'.cur_iMCU_row = main.cur_iMCU_row /\ main'.rowgroup_ctr <= min_DCT
    BY <1>1, <1>2, <2>3
  <2> QED BY <1>1, <2>4, <2>6, <2>7, <2>8, <2>9, <2>10, <2>11, PrepKeepsRows
<1> QED BY <1>8, <1>9

LEMMA PadKeepsRows ==
  ASSUME RowsInv, PadContext
  PROVE  RowsInv'
<1> DEFINE V == max_v_samp
           H == size.height
           p == prep.this_row_group
           q == prep.next_buf_stop
           n == prep.next_buf_row
           b == Below
           first == Group * V
           last == conversion[ColorRow(n - 1)]
           buf == [r \in DOMAIN conversion |-> IF r \in n .. q - 1 THEN last ELSE conversion[r]]
<1>1. /\ step = "prep" /\ need_context_rows /\ app.in_row_ctr = app.in_rows_avail
      /\ main.rowgroup_ctr < min_DCT /\ prep.rows_to_go = 0
      /\ UNCHANGED <<job, size, pass, step, coef, arrays, sent>>
      /\ conversion' = buf /\ app' = app /\ ContextGroup(buf)
  BY DEF PadContext
<1>2. /\ Counted /\ H \in Nat \ {0} /\ Shapes
      /\ app.next_scanline \in Nat /\ app.in_row_ctr \in Nat /\ app.in_rows_avail \in Nat
      /\ main.cur_iMCU_row \in Nat /\ n \in Nat /\ q \in Nat
  BY <1>1, InFirstPass
<1>3. /\ V \in Nat \ {0} /\ Group \in Nat /\ first \in Nat /\ b \in Nat
      /\ RowsAround(p, q, n) /\ n < q
      /\ b = 2 * V - (q - n)
      /\ p = 0 \/ b >= V
      /\ Group = 0 => p = 0 /\ q = 2 * V /\ first = 0
      /\ Group # 0 => first >= V /\ b >= V
      /\ Taken = IF first + b < H THEN first + b ELSE H
      /\ Taken # 0 => LinesThere(conversion, p, first, b)
      /\ DOMAIN conversion = 0 .. 3 * V - 1
  BY <1>1, InContext DEF RowsAround
<1>4. Taken = H /\ app.in_row_ctr > 0
  <2>1. /\ main.suspended = FALSE
        /\ Taken = app.next_scanline + app.in_row_ctr + (IF main.suspended THEN 1 ELSE 0)
        /\ app.next_scanline < H
    BY <1>1, <1>2 DEF Counted
  <2>2. Taken = H
    BY <1>1, <1>2 DEF Taken
  <2> HIDE DEF H
  <2> QED BY <1>2, <2>1, <2>2
<1>5. \A l \in Int : Clamp(l) = IF l < 0 THEN 0 ELSE IF l < H THEN l ELSE H - 1
  BY <1>2, ClampIs
<1>6. \A i \in Int : ColorRow(i) = IF i < 0 THEN i + 3 * V ELSE IF i >= 3 * V THEN i - 3 * V ELSE i
  BY <1>1 DEF ColorRow
<1>7. /\ \A k \in -V .. b - 1 : conversion[ColorRow(p + k)] = Clamp(first + k)
      /\ LinesThere(conversion, p, first, b)
  BY <1>2, <1>3, <1>4 DEF LinesThere
<1>8. \A r \in 0 .. 3 * V - 1 : buf[r] = IF r \in n .. q - 1 THEN last ELSE conversion[r]
  BY <1>3
<1>9. DOMAIN buf = 0 .. 3 * V - 1
  BY <1>3
<1>10. (p = 0 /\ q = 2 * V) \/ (p = V /\ q = 3 * V) \/ (p = 2 * V /\ q = V)
  BY <1>3 DEF RowsAround
<1> HIDE DEF V, H, p, q, n, b, first, last, buf
<1>11. first + b >= H /\ b >= 1
  <2>1. first + b >= H
    BY <1>2, <1>3, <1>4
  <2>2. CASE Group = 0
    <3>1. first = 0
      BY <1>3, <2>2
    <3> QED BY <1>2, <1>3, <2>1, <3>1
  <2>3. CASE Group # 0
    <3>1. b >= V
      BY <1>3, <2>3
    <3> QED BY <1>3, <2>1, <3>1
  <2> QED BY <2>1, <2>2, <2>3
<1>12. ColorRow(n - 1) = ColorRow(p + (b - 1))
  <2> DEFINE i == n - 1
             j == p + (b - 1)
  <2>1. i \in Int /\ j \in Int /\ p \in Int
    BY <1>2, <1>3, <1>10
  <2>2. /\ ColorRow(i) = IF i < 0 THEN i + 3 * V ELSE IF i >= 3 * V THEN i - 3 * V ELSE i
        /\ ColorRow(j) = IF j < 0 THEN j + 3 * V ELSE IF j >= 3 * V THEN j - 3 * V ELSE j
    BY <1>6, <2>1
  <2>3. IF p = 2 * V THEN j = i + 3 * V ELSE j = i
    <3>1. CASE p = 0 /\ q = 2 * V
      BY <1>2, <1>3, <3>1
    <3>2. CASE p = V /\ q = 3 * V
      BY <1>2, <1>3, <3>2
    <3>3. CASE p = 2 * V /\ q = V
      BY <1>2, <1>3, <3>3
    <3> QED BY <1>10, <3>1, <3>2, <3>3
  <2>4. p # 2 * V => i >= 0
    BY <1>2, <1>3, <1>10, <1>11
  <2>5. i < q /\ i >= -1 /\ q <= 3 * V
    BY <1>2, <1>3, <1>10
  <2>6. p = 2 * V => i < V
    BY <1>2, <1>3, <1>10
  <2> HIDE DEF i, j
  <2>7. ColorRow(i) = ColorRow(j)
    <3>1. CASE p = 2 * V
      BY <1>3, <2>1, <2>2, <2>3, <2>5, <2>6, <3>1
    <3>2. CASE p # 2 * V
      BY <2>3, <3>2
    <3> QED BY <3>1, <3>2
  <2> QED BY <2>7 DEF i, j
<1>13. last = H - 1
  <2>1. b - 1 \in -V .. b - 1 /\ first + (b - 1) \in Int
    BY <1>3, <1>11
  <2>2. last = Clamp(first + (b - 1))
    BY <1>7, <1>12, <2>1 DEF last
  <2>3. ~(first + (b - 1) < 0) /\ first + (b - 1) >= H - 1
    BY <1>2, <1>3, <1>11
  <2>4. Clamp(first + (b - 1)) = H - 1
    <3> DEFINE e == first + (b - 1)
    <3>1. e \in Int /\ ~(e < 0) /\ e >= H - 1
      BY <2>1, <2>3
    <3> HIDE DEF e
    <3>2. Clamp(e) = H - 1
      BY <1>2, <1>5, <3>1
    <3> QED BY <3>2 DEF e
  <2> QED BY <2>2, <2>4
<1> DEFINE m == q - n
           l == first + b
<1>14. m \in Nat /\ n + m <= q /\ n + m = q /\ l = first + b /\ b + m = 2 * V
  BY <1>2, <1>3
<1>15. Overwritten(buf, conversion, n, m, l)
  <2>1. \A r \in 0 .. 3 * V - 1 : r \notin n .. n + m - 1 => buf[r] = conversion[r]
    <3>1. n + m - 1 = q - 1
      BY <1>2, <1>14
    <3> QED BY <1>8, <3>1
  <2>2. ASSUME NEW i \in 0 .. m - 1  PROVE buf[n + i] = Clamp(l + i)
    <3>1. n + i \in n .. q - 1 /\ n + i \in 0 .. 3 * V - 1
      BY <1>2, <1>3, <1>10
    <3>2. l + i \in Int /\ ~(l + i < 0) /\ ~(l + i < H)
      BY <1>2, <1>3, <1>11
    <3>3. Clamp(l + i) = H - 1
      BY <1>5, <3>2
    <3> QED BY <1>8, <1>13, <3>1, <3>3
  <2> QED BY <2>1, <2>2 DEF Overwritten, V
<1> HIDE DEF m, l
<1>16. LinesThere(buf, p, first, 2 * V)
  <2>1. /\ b >= 0 /\ (p = 0 \/ b >= max_v_samp) /\ max_v_samp \in Nat \ {0}
        /\ b = 2 * max_v_samp - (q - n)
    BY <1>3 DEF V
  <2>2. LinesThere(buf, p, first, b + m)
    BY <1>1, <1>3, <1>7, <1>14, <1>15, <2>1, ContextRowsWritten
  <2> QED BY <1>14, <2>2
<1>17. Taken + 0 = IF first + 2 * V < H THEN first + 2 * V ELSE H
  <2>1. ~(first + 2 * V < H)
    BY <1>2, <1>3, <1>11
  <2>2. H + 0 = H
    BY <1>2
  <2> QED BY <1>4, <2>1, <2>2
<1>18. /\ app' = [next_scanline |-> app.next_scanline, in_row_ctr |-> app.in_row_ctr + 0,
                  in_rows_avail |-> app.in_rows_avail]
       /\ app.in_row_ctr + 0 <= app.in_rows_avail /\ app.in_row_ctr + 0 > 0
  <2>1. app \in [next_scanline : Nat, in_row_ctr : Nat, in_rows_avail : Nat]
    BY <1>2 DEF Shapes
  <2>2. app.in_row_ctr + 0 = app.in_row_ctr
    BY <1>2
  <2>3. app = [next_scanline |-> app.next_scanline, in_row_ctr |-> app.in_row_ctr,
               in_rows_avail |-> app.in_rows_avail]
    BY <2>1
  <2>4. app.in_row_ctr <= app.in_rows_avail
    BY <1>1, <1>2
  <2> QED BY <1>1, <1>4, <2>2, <2>3, <2>4
<1>19. 0 \in Nat
  OBVIOUS
<1> QED BY <1>1, <1>9, <1>16, <1>17, <1>18, <1>19, ContextGroupKeepsRows DEF V, H, p, first

-------------------------------------------------------------------------------
(* Every MCU is right *)

LEMMA RowsRight == RowsInv => MCUsRight
<1> SUFFICES ASSUME RowsInv, step # "none" PROVE MCUsRight
  <2>1. CASE step = "none"
    BY <2>1 DEF MCUsRight
  <2>2. CASE step # "none"
    BY <2>2
  <2> QED BY <2>1, <2>2
<1>1. SentSoFar /\ InScan
  BY DEF RowsInv, Shapes
<1>2. ASSUME coef.iMCU_row_num = iMCU_rows  PROVE sent.count = MCUsInScan
  <2> DEFINE rows == IF interleaved THEN iMCU_rows ELSE height_in_blocks(scan[1])
             M == MCUs_per_row
  <2>1. sent.count = MCURow * M + 0 /\ MCURow = rows
    BY <1>1, <1>2 DEF SentSoFar, Position, MCURow
  <2>2. rows \in Nat /\ M \in Nat
    BY <1>1, SomeSizes, Geometry DEF InScan
  <2>3. MCUsInScan = M * rows
    BY DEF MCUsInScan
  <2> HIDE DEF rows, M
  <2>4. rows * M = M * rows /\ rows * M \in Nat
    BY <2>2
  <2> DEFINE p == rows * M
  <2>5. sent.count = p + 0 /\ MCUsInScan = p /\ p \in Nat
    BY <2>1, <2>3, <2>4
  <2> HIDE DEF p
  <2> QED BY <2>5
<1>3. ASSUME step = "app", app.next_scanline = size.height
      PROVE  coef.iMCU_row_num = iMCU_rows
  <2>1. /\ Filling /\ Counted /\ size.height \in Nat /\ iMCU_rows \in Nat
        /\ main.cur_iMCU_row \in Nat /\ main.cur_iMCU_row <= iMCU_rows
    BY <1>3, InFirstPass
  <2> QED BY <1>1, <1>3, <2>1 DEF Counted, SentSoFar
<1>4. step \in {"finish", "done"} => coef.iMCU_row_num = iMCU_rows
  BY <1>1 DEF SentSoFar
<1> QED BY <1>1, <1>2, <1>3, <1>4 DEF MCUsRight, SentSoFar

LEMMA NextInv == RowsInv /\ [CompressNext]_cvars => RowsInv'
<1> SUFFICES ASSUME RowsInv, [CompressNext]_cvars PROVE RowsInv'
  OBVIOUS
<1>1. CASE WriteScanlines
  BY <1>1, WriteKeepsRows
<1>2. CASE ProcessData
  BY <1>2, ProcessKeepsRows
<1>3. CASE PreProcessData
  BY <1>3, PreProcessKeepsRows
<1>4. CASE PreProcessContext
  BY <1>4, ContextKeepsRows
<1>5. CASE PadContext
  BY <1>5, PadKeepsRows
<1>6. CASE Preprocessed
  BY <1>6, PreprocessedKeepsRows
<1>7. CASE CompressData
  BY <1>7, CompressKeepsRows
<1>8. CASE EncodeMCU
  BY <1>8, EncodeKeepsRows
<1>9. CASE RefuseMCU
  BY <1>9, RefuseKeepsRows
<1>10. CASE FinishCompress
  BY <1>10, FinishKeepsRows
<1>11. CASE NextPass
  BY <1>11, NextPassKeepsRows
<1>12. CASE Release
  BY <1>12 DEF Release, RowsInv
<1>13. CASE UNCHANGED cvars
  BY <1>13, StutterKeepsRows
<1> QED BY <1>1, <1>2, <1>3, <1>4, <1>5, <1>6, <1>7, <1>8, <1>9, <1>10, <1>11, <1>12, <1>13
        DEF CompressNext

\* The invariant, for every image, set of parameters and sequence of calls.
THEOREM RowsCorrect == CompressSpec => []RowsInv
BY InitInv, NextInv, PTL DEF CompressSpec

\* Each MCU the entropy encoder gets in a pass is the next one of the scan, with the
\* blocks of the image and the dummy blocks that jccoefct.c promises, and all of them
\* are sent when a pass or the application's last call is over: for images of any size,
\* sampling factors and DCT sizes, scans, and calls with any numbers of lines, with and
\* without context rows, whatever was refused.
THEOREM MCUsSentRight == CompressSpec => []MCUsRight
BY RowsCorrect, RowsRight, PTL
===============================================================================
