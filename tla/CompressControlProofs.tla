------------------------- MODULE CompressControlProofs -------------------------
(***************************************************************************)
(* Theorems about CompressControl, and first about the scan scripts it     *)
(* works with: what validate_script admits is what a decoder accepts, also *)
(* after reduce_script, for the scans that stay keep their order and, for  *)
(* every coefficient of the smaller block, their history.                  *)
(*                                                                         *)
(* ReaderInStep holds for every set of parameters, by the invariant IInv.  *)
(* The others need that raw data are not scaled (RawUnscaled):             *)
(* jpeg_write_raw_data counts DCTSIZE lines for a row of blocks whatever   *)
(* the scale, and an application that scales them is done too early        *)
(* (CompressRefuted.cfg).  With it Counted, which relates lines and iMCU   *)
(* rows, is kept as well.                                                  *)
(***************************************************************************)
EXTENDS CompressControl, NumberLemmas, FiniteSetTheorems, TLAPS

-------------------------------------------------------------------------------
(* Greatest and least elements *)

\* Max and Min are the numbers they are named for.
LEMMA MaxIs ==
  ASSUME NEW T \in SUBSET Nat, T # {}, NEW b \in Nat, \A n \in T : n <= b
  PROVE  Max(T) \in T /\ \A n \in T : n <= Max(T)
<1>1. \E m \in T : \A n \in T : m >= n
  BY GreatestNat
<1> QED BY <1>1 DEF Max

LEMMA MinIs ==
  ASSUME NEW T \in SUBSET Nat, T # {}
  PROVE  Min(T) \in T /\ \A n \in T : Min(T) <= n
<1>1. \E m \in T : \A n \in T : m <= n
  BY LeastNat
<1> QED BY <1>1 DEF Min

-------------------------------------------------------------------------------
(* The places of the scans that stay *)

\* The number of scans kept up to a place grows by one at each that is kept.
LEMMA KeptCount ==
  ASSUME NEW s \in Seq(Scan), NEW lim \in Int, NEW n \in Nat
  PROVE  /\ \A k \in kept(s, lim) : k \in Nat /\ 1 <= k /\ k <= Len(s)
         /\ Len(s) \in Nat /\ IsFiniteSet(kept(s, lim))
         /\ Cardinality(kept(s, lim)) \in Nat
         /\ idxout(s, lim, n) \in Nat
         /\ idxout(s, lim, 0) = 0
         /\ idxout(s, lim, Len(s)) = Cardinality(kept(s, lim))
         /\ n + 1 \in kept(s, lim) => idxout(s, lim, n + 1) = idxout(s, lim, n) + 1
         /\ n + 1 \notin kept(s, lim) => idxout(s, lim, n + 1) = idxout(s, lim, n)
<1> DEFINE K == kept(s, lim)
           Upto(m) == {k \in K : k <= m}
<1>1. (\A k \in K : k \in Nat /\ 1 <= k /\ k <= Len(s)) /\ Len(s) \in Nat
  BY DEF kept
<1>2. IsFiniteSet(K) /\ Cardinality(K) \in Nat
  <2>1. IsFiniteSet(1 .. Len(s))
    BY <1>1, FS_Interval, 1 \in Int
  <2>2. K \in SUBSET (1 .. Len(s))
    BY DEF kept
  <2> HIDE DEF K
  <2> QED BY <2>1, <2>2, FS_Subset, FS_CardinalityType
<1> HIDE DEF K
<1>3. \A m \in Nat : IsFiniteSet(Upto(m)) /\ Cardinality(Upto(m)) \in Nat
  <2>1. \A m \in Nat : Upto(m) \in SUBSET K
    OBVIOUS
  <2> HIDE DEF Upto
  <2> QED BY <1>2, <2>1, FS_Subset, FS_CardinalityType
<1>4. Upto(0) = {} /\ Upto(Len(s)) = K
  BY <1>1
<1>5. n + 1 \in K => Upto(n + 1) = Upto(n) \cup {n + 1} /\ n + 1 \notin Upto(n)
  BY <1>1
<1>6. n + 1 \notin K => Upto(n + 1) = Upto(n)
  BY <1>1
<1>7. \A m : idxout(s, lim, m) = Cardinality(Upto(m))
  BY DEF idxout, K
<1> HIDE DEF Upto
<1>8. n + 1 \in K => Cardinality(Upto(n + 1)) = Cardinality(Upto(n)) + 1
  BY <1>3, <1>5, FS_AddElement
<1>9. Cardinality(Upto(0)) = 0
  BY <1>4, FS_EmptySet
<1> QED BY <1>1, <1>2, <1>3, <1>4, <1>6, <1>7, <1>8, <1>9 DEF K

\* ... so that a scan that is kept comes after all that are kept before it.
LEMMA KeptOrder ==
  ASSUME NEW s \in Seq(Scan), NEW lim \in Int,
         NEW a \in Nat, NEW b \in Nat
  PROVE  /\ a <= b => idxout(s, lim, a) <= idxout(s, lim, b)
         /\ a < b /\ b \in kept(s, lim) => idxout(s, lim, a) < idxout(s, lim, b)
<1> DEFINE K == kept(s, lim)
           Upto(m) == {k \in K : k <= m}
<1>1. (\A k \in K : k \in Nat) /\ IsFiniteSet(K)
  BY KeptCount, 0 \in Nat
<1> HIDE DEF K
<1>2. \A m \in Nat : IsFiniteSet(Upto(m)) /\ Cardinality(Upto(m)) \in Nat
  <2>1. \A m \in Nat : Upto(m) \in SUBSET K
    OBVIOUS
  <2> HIDE DEF Upto
  <2> QED BY <1>1, <2>1, FS_Subset, FS_CardinalityType
<1>3. a <= b => Upto(a) \in SUBSET Upto(b)
  BY <1>1
<1>4. a < b /\ b \in K => b \in Upto(b) /\ b \notin Upto(a)
  BY <1>1
<1>5. /\ idxout(s, lim, a) = Cardinality(Upto(a))
      /\ idxout(s, lim, b) = Cardinality(Upto(b))
  BY DEF idxout, K
<1> HIDE DEF Upto
<1>6. a <= b =>
        /\ Cardinality(Upto(a)) <= Cardinality(Upto(b))
        /\ Cardinality(Upto(b)) = Cardinality(Upto(a)) => Upto(b) = Upto(a)
  BY <1>2, <1>3, FS_Subset
<1>7. a < b /\ b \in K => Upto(a) # Upto(b)
  BY <1>4
<1>8. Cardinality(Upto(a)) \in Nat /\ Cardinality(Upto(b)) \in Nat
  BY <1>2
<1> QED BY <1>5, <1>6, <1>7, <1>8 DEF K

\* idxin is where a place of the shortened script comes from.
LEMMA IdxinIs ==
  ASSUME NEW s \in Seq(Scan), NEW lim \in Int,
         NEW i \in 1 .. Cardinality(kept(s, lim))
  PROVE  /\ idxin(s, lim, i) \in kept(s, lim)
         /\ idxout(s, lim, idxin(s, lim, i)) = i
<1> DEFINE T == {n \in Nat : idxout(s, lim, n) >= i}
<1>1. Len(s) \in Nat /\ Cardinality(kept(s, lim)) \in Nat
  BY KeptCount, 0 \in Nat
<1>2. Len(s) \in T
  BY <1>1, KeptCount
<1>3. PICK m \in T : \A n \in T : m <= n
  BY <1>2, LeastNat
<1>4. m # 0
  BY <1>1, KeptCount
<1>5. m - 1 \in Nat /\ m - 1 \notin T /\ m = (m - 1) + 1
  BY <1>3, <1>4
<1>6. idxout(s, lim, m - 1) \in Nat /\ idxout(s, lim, m - 1) < i
  BY <1>5, KeptCount
<1>7. idxout(s, lim, m) >= i
  BY <1>3
<1>8. m \in kept(s, lim) /\ idxout(s, lim, m) = idxout(s, lim, m - 1) + 1
  BY <1>5, <1>6, <1>7, KeptCount
<1>9. \E j \in kept(s, lim) : idxout(s, lim, j) = i
  BY <1>6, <1>7, <1>8
<1> QED BY <1>9 DEF idxin

\* The two are inverse to each other and keep the order of the scans.
LEMMA IdxinOrder ==
  ASSUME NEW s \in Seq(Scan), NEW lim \in Int,
         NEW i \in 1 .. Cardinality(kept(s, lim)), NEW j \in kept(s, lim)
  PROVE  /\ idxout(s, lim, j) \in 1 .. Cardinality(kept(s, lim))
         /\ idxin(s, lim, idxout(s, lim, j)) = j
         /\ j < idxin(s, lim, i) <=> idxout(s, lim, j) < i
<1> DEFINE K == kept(s, lim)
<1>1. /\ j \in Nat \ {0} /\ j <= Len(s) /\ Len(s) \in Nat
      /\ \A k \in K : k \in Nat
      /\ Cardinality(K) \in Nat /\ idxout(s, lim, 0) = 0
      /\ idxout(s, lim, Len(s)) = Cardinality(K) /\ idxout(s, lim, j) \in Nat
  <2>1. /\ \A k \in K : k \in Nat /\ 1 <= k /\ k <= Len(s)
        /\ Len(s) \in Nat /\ Cardinality(K) \in Nat /\ idxout(s, lim, 0) = 0
        /\ idxout(s, lim, Len(s)) = Cardinality(K)
    BY KeptCount, 0 \in Nat
  <2>2. j \in Nat
    BY <2>1
  <2>3. idxout(s, lim, j) \in Nat
    BY <2>2, KeptCount
  <2> QED BY <2>1, <2>2, <2>3
<1>2. idxout(s, lim, j) \in 1 .. Cardinality(K)
  <2>1. 0 < j
    BY <1>1
  <2> QED BY <1>1, <2>1, KeptOrder, 0 \in Nat
<1>3. ASSUME NEW a \in K, NEW b \in K
      PROVE  /\ idxout(s, lim, a) \in Nat /\ idxout(s, lim, b) \in Nat
             /\ a < b <=> idxout(s, lim, a) < idxout(s, lim, b)
             /\ a = b <=> idxout(s, lim, a) = idxout(s, lim, b)
  <2>1. a \in Nat /\ b \in Nat
    BY <1>1
  <2>2. idxout(s, lim, a) \in Nat /\ idxout(s, lim, b) \in Nat
    BY <2>1, KeptCount
  <2>3. a < b => idxout(s, lim, a) < idxout(s, lim, b)
    BY <2>1, KeptOrder
  <2>4. b < a => idxout(s, lim, b) < idxout(s, lim, a)
    BY <2>1, KeptOrder
  <2> QED BY <2>1, <2>2, <2>3, <2>4
<1>4. idxin(s, lim, idxout(s, lim, j)) = j
  <2> DEFINE p == idxin(s, lim, idxout(s, lim, j))
  <2>1. p \in K /\ idxout(s, lim, p) = idxout(s, lim, j)
    BY <1>2, IdxinIs
  <2>2. j \in K
    OBVIOUS
  <2> HIDE DEF p, K
  <2>3. p = j
    BY <2>1, <2>2, <1>3
  <2> QED BY <2>3 DEF p
<1>5. j < idxin(s, lim, i) <=> idxout(s, lim, j) < i
  <2> DEFINE p == idxin(s, lim, i)
  <2>1. p \in K /\ idxout(s, lim, p) = i
    BY IdxinIs
  <2>2. j \in K
    OBVIOUS
  <2> HIDE DEF p, K
  <2>3. j < p <=> idxout(s, lim, j) < idxout(s, lim, p)
    BY <2>1, <2>2, <1>3
  <2> QED BY <2>1, <2>3 DEF p
<1> QED BY <1>2, <1>4, <1>5
-------------------------------------------------------------------------------
(* The shortened script *)

\* Each of its scans is one that stays, with its band limited to the block.
LEMMA ReducedScan ==
  ASSUME NEW s \in Seq(Scan), NEW lim \in Nat
  PROVE  /\ reduce_script(s, lim) \in Seq(Scan)
         /\ DOMAIN reduce_script(s, lim) = 1 .. Cardinality(kept(s, lim))
         /\ Len(reduce_script(s, lim)) = Cardinality(kept(s, lim))
         /\ \A i \in 1 .. Cardinality(kept(s, lim)) :
              LET r == reduce_script(s, lim)[i]
                  o == s[idxin(s, lim, i)]
              IN  /\ idxin(s, lim, i) \in DOMAIN s
                  /\ r.comps = o.comps /\ r.Ss = o.Ss /\ r.Ah = o.Ah /\ r.Al = o.Al
                  /\ r.Se = Minimum(o.Se, lim)
                  /\ o.Ss <= lim
<1> DEFINE n == Cardinality(kept(s, lim))
           red == reduce_script(s, lim)
<1>0. lim \in Int
  OBVIOUS
<1>1. n \in Nat
  BY <1>0, KeptCount, 0 \in Nat
<1>2. ASSUME NEW i \in 1 .. n
      PROVE  LET o == s[idxin(s, lim, i)]
             IN  /\ idxin(s, lim, i) \in DOMAIN s /\ o \in Scan /\ o.Ss <= lim
                 /\ red[i] = [o EXCEPT !.Se = Minimum(@, lim)]
                 /\ Minimum(o.Se, lim) \in Int
  <2> DEFINE p == idxin(s, lim, i)
  <2>1. p \in DOMAIN s /\ s[p].Ss <= lim
    <3>1. p \in kept(s, lim)
      BY <1>0, IdxinIs
    <3> HIDE DEF p
    <3> QED BY <3>1 DEF kept
  <2>2. red[i] = [s[p] EXCEPT !.Se = Minimum(@, lim)]
    BY DEF reduce_script
  <2> HIDE DEF p, red
  <2>3. s[p] \in Scan
    BY <2>1
  <2>4. Minimum(s[p].Se, lim) \in Int
    BY <2>3 DEF Minimum, Scan
  <2> QED BY <2>1, <2>2, <2>3, <2>4 DEF p
<1>3. red = [i \in 1 .. n |-> red[i]]
  BY DEF reduce_script
<1> HIDE DEF n, red
<1>4. \A i \in 1 .. n : red[i] \in Scan
  BY <1>2 DEF Scan
<1>5. red \in Seq(Scan) /\ DOMAIN red = 1 .. n /\ Len(red) = n
  BY <1>1, <1>3, <1>4
<1>6. ASSUME NEW i \in 1 .. n
      PROVE  LET o == s[idxin(s, lim, i)]
             IN  /\ idxin(s, lim, i) \in DOMAIN s
                 /\ red[i].comps = o.comps /\ red[i].Ss = o.Ss
                 /\ red[i].Ah = o.Ah /\ red[i].Al = o.Al
                 /\ red[i].Se = Minimum(o.Se, lim)
                 /\ o.Ss <= lim
  BY <1>2 DEF Scan
<1> QED BY <1>5, <1>6, Zenon DEF n, red

\* A coefficient of the smaller block has the same history in both scripts.
LEMMA ReducedHistory ==
  ASSUME NEW s \in Seq(Scan), NEW lim \in Nat,
         NEW i \in 1 .. Cardinality(kept(s, lim)), NEW c, NEW k \in Int, k <= lim
  PROVE  last_bitpos(reduce_script(s, lim), i, c, k)
           = last_bitpos(s, idxin(s, lim, i), c, k)
<1> DEFINE n == Cardinality(kept(s, lim))
           red == reduce_script(s, lim)
           From(j) == idxin(s, lim, j)
           H == {j \in 1 .. i - 1 : c \in Range(red[j].comps) /\ k \in red[j].Ss .. red[j].Se}
           G == {j \in 1 .. From(i) - 1 : c \in Range(s[j].comps) /\ k \in s[j].Ss .. s[j].Se}
<1>0. lim \in Int
  OBVIOUS
<1>1. n \in Nat /\ Len(s) \in Nat /\ DOMAIN s = 1 .. Len(s)
  <2>1. n \in Nat
    BY <1>0, KeptCount, 0 \in Nat
  <2> QED BY <2>1
<1>2. \A j \in 1 .. n : From(j) \in 1 .. Len(s) /\ From(j) \in kept(s, lim)
  <2>1. \A j \in 1 .. n : From(j) \in DOMAIN s
    BY ReducedScan
  <2>2. \A j \in 1 .. n : From(j) \in kept(s, lim)
    BY <1>0, IdxinIs
  <2> QED BY <2>1, <2>2, <1>1
<1>3. \A j \in 1 .. n : /\ s[From(j)] \in Scan
                        /\ red[j].comps = s[From(j)].comps /\ red[j].Ss = s[From(j)].Ss
                        /\ red[j].Al = s[From(j)].Al
                        /\ red[j].Se = Minimum(s[From(j)].Se, lim)
  <2> TAKE j \in 1 .. n
  <2>1. s[From(j)] \in Scan
    BY <1>1, <1>2
  <2>2. /\ red[j].comps = s[From(j)].comps /\ red[j].Ss = s[From(j)].Ss
        /\ red[j].Al = s[From(j)].Al
        /\ red[j].Se = Minimum(s[From(j)].Se, lim)
    BY ReducedScan
  <2> QED BY <2>1, <2>2
<1>4. \A j \in kept(s, lim) : /\ idxout(s, lim, j) \in 1 .. n
                              /\ From(idxout(s, lim, j)) = j
                              /\ j < From(i) <=> idxout(s, lim, j) < i
  BY <1>0, IdxinOrder
<1>5. \A j \in 1 .. n : /\ idxout(s, lim, From(j)) = j
                        /\ From(j) < From(i) <=> j < i
  BY <1>0, <1>2, <1>4, IdxinIs
<1> HIDE DEF n, red, From
<1>6. \A j \in H : From(j) \in G
  <2> TAKE j \in H
  <2>1. j \in 1 .. n /\ j < i /\ c \in Range(red[j].comps) /\ k \in red[j].Ss .. red[j].Se
    BY <1>1 DEF n
  <2>2. From(j) \in 1 .. From(i) - 1
    BY <2>1, <1>2, <1>5 DEF n
  <2>3. k \in s[From(j)].Ss .. s[From(j)].Se
    <3>1. s[From(j)].Ss \in Int /\ s[From(j)].Se \in Int
      BY <2>1, <1>3 DEF Scan
    <3>2. red[j].Ss = s[From(j)].Ss /\ red[j].Se = Minimum(s[From(j)].Se, lim)
      BY <2>1, <1>3
    <3> QED BY <2>1, <3>1, <3>2 DEF Minimum
  <2> QED BY <2>1, <2>2, <2>3, <1>3
<1>7. \A g \in G : idxout(s, lim, g) \in H /\ From(idxout(s, lim, g)) = g
  <2> TAKE g \in G
  <2> DEFINE j == idxout(s, lim, g)
  <2>1. g \in 1 .. Len(s) /\ g < From(i) /\ c \in Range(s[g].comps) /\ k \in s[g].Ss .. s[g].Se
    BY <1>2 DEF n
  <2>2. s[g] \in Scan
    BY <2>1, <1>1
  <2>3. g \in kept(s, lim)
    BY <2>1, <2>2, <1>1 DEF kept, Scan
  <2>4. j \in 1 .. n /\ From(j) = g /\ j < i
    BY <2>1, <2>3, <1>4
  <2> HIDE DEF j
  <2>5. k \in red[j].Ss .. red[j].Se
    <3>1. s[g].Ss \in Int /\ s[g].Se \in Int
      BY <2>2 DEF Scan
    <3>2. red[j].Ss = s[g].Ss /\ red[j].Se = Minimum(s[g].Se, lim)
      BY <2>4, <1>3
    <3> QED BY <2>1, <3>1, <3>2 DEF Minimum
  <2>6. j \in 1 .. i - 1
    BY <2>4 DEF n
  <2>7. c \in Range(red[j].comps)
    BY <2>1, <2>4, <1>3
  <2> QED BY <2>4, <2>5, <2>6, <2>7 DEF j
<1>8. CASE H = {}
  <2>1. G = {}
    BY <1>8, <1>7
  <2> QED BY <1>8, <2>1 DEF last_bitpos, From, red
<1>9. CASE H # {}
  <2>1. G # {}
    BY <1>9, <1>6
  <2>2. Max(H) \in H /\ \A j \in H : j <= Max(H)
    <3>1. H \in SUBSET Nat /\ (\A j \in H : j <= i) /\ i \in Nat
      BY DEF n
    <3> HIDE DEF H
    <3> QED BY <3>1, <1>9, MaxIs
  <2>3. Max(G) \in G /\ \A g \in G : g <= Max(G)
    <3>1. G \in SUBSET Nat /\ (\A g \in G : g <= From(i)) /\ From(i) \in Nat
      BY <1>2 DEF n
    <3> HIDE DEF G
    <3> QED BY <3>1, <2>1, MaxIs
  <2>4. \A j \in H : j \in 1 .. n
    BY <1>1 DEF n
  <2>5. \A g \in G : g \in Nat
    BY <1>2 DEF n
  <2>6. last_bitpos(red, i, c, k) = red[Max(H)].Al
    BY <1>9 DEF last_bitpos
  <2>7. last_bitpos(s, From(i), c, k) = s[Max(G)].Al
    BY <2>1 DEF last_bitpos
  <2> DEFINE h == Max(H)
             g == Max(G)
             hg == idxout(s, lim, g)
  <2>8. From(h) \in G /\ hg \in H /\ From(hg) = g
    BY <1>6, <1>7, <2>2, <2>3
  <2> HIDE DEF H, G
  <2>9. From(h) <= g /\ hg <= h
    BY <2>2, <2>3, <2>8
  <2>10. h \in 1 .. n /\ hg \in 1 .. n
    BY <2>2, <2>4, <2>8
  <2>11. h = hg
    <3>2. \A a \in 1 .. n, b \in 1 .. n : a < b => From(a) < From(b)
      <4> SUFFICES ASSUME NEW a \in 1 .. n, NEW b \in 1 .. n, a < b
                   PROVE  From(a) < From(b)
        OBVIOUS
      <4>1. From(a) \in kept(s, lim) /\ idxout(s, lim, From(a)) = a
        BY <1>2, <1>5
      <4>2. From(a) < From(b) <=> idxout(s, lim, From(a)) < b
        BY <1>0, <4>1, IdxinOrder DEF From, n
      <4> QED BY <4>1, <4>2
    <3>3. From(h) \in Nat /\ From(hg) \in Nat
      BY <1>2, <2>10
    <3> QED BY <3>2, <3>3, <2>8, <2>9, <2>10
  <2>12. From(h) = g
    BY <2>8, <2>11
  <2>13. red[h].Al = s[From(h)].Al
    BY <1>3, <2>10
  <2> QED BY <2>6, <2>7, <2>12, <2>13 DEF From, red
<1> QED BY <1>8, <1>9

-------------------------------------------------------------------------------
(* What the decoder says *)

LEMMA FullSize == DCTSIZE2 \in Nat \ {0}
<1>1. DCTSIZE \in Nat \ {0}
  BY ScriptAssumption
<1>2. DCTSIZE * DCTSIZE \in Nat \ {0}
  BY <1>1
<1> QED BY <1>2 DEF DCTSIZE2

\* The bit position before a scan is -1 or one that an earlier scan reached.
LEMMA BitposIs ==
  ASSUME NEW s \in Seq(Scan), NEW i \in 1 .. Len(s) + 1, NEW c, NEW k \in Int
  PROVE  \/ last_bitpos(s, i, c, k) = -1
         \/ \E j \in DOMAIN s : /\ last_bitpos(s, i, c, k) = s[j].Al
                               /\ k \in s[j].Ss .. s[j].Se
<1> DEFINE H == {j \in 1 .. i - 1 : c \in Range(s[j].comps) /\ k \in s[j].Ss .. s[j].Se}
<1>1. CASE H = {}
  BY <1>1 DEF last_bitpos
<1>2. CASE H # {}
  <2>1. Max(H) \in H
    <3>1. H \in SUBSET Nat /\ (\A j \in H : j <= i) /\ i \in Nat
      OBVIOUS
    <3> HIDE DEF H
    <3> QED BY <3>1, <1>2, MaxIs
  <2>2. last_bitpos(s, i, c, k) = s[Max(H)].Al
    BY <1>2 DEF last_bitpos
  <2>3. \A j \in H : j \in DOMAIN s /\ k \in s[j].Ss .. s[j].Se
    OBVIOUS
  <2> HIDE DEF H
  <2> QED BY <2>1, <2>2, <2>3
<1> QED BY <1>1, <1>2

\* A scan of a progressive script that validate_script admits.
LEMMA AcceptsValid ==
  ASSUME NEW s \in Seq(Scan), NEW n \in Nat, NEW i \in DOMAIN s,
         ValidComponents(s[i], n), \A j \in DOMAIN s : ValidProgression(s, j)
  PROVE  DecoderAccepts(s, i, DCTSIZE2 - 1)
<1> DEFINE sc == s[i]
           Before(c, k) == last_bitpos(s, i, c, k)
<1>1. /\ sc \in Scan /\ sc.Ss \in Int /\ sc.Se \in Int /\ sc.Ah \in Int /\ sc.Al \in Int
      /\ sc.comps \in Seq(Int) /\ i \in 1 .. Len(s) + 1
  <2>1. sc \in Scan
    OBVIOUS
  <2>2. i \in 1 .. Len(s) + 1
    OBVIOUS
  <2> HIDE DEF sc
  <2> QED BY <2>1, <2>2 DEF Scan
<1>2. /\ sc.Ss \in 0 .. DCTSIZE2 - 1 /\ sc.Se \in sc.Ss .. DCTSIZE2 - 1
      /\ sc.Ah \in 0 .. 10 /\ sc.Al \in 0 .. 10
      /\ sc.Ss = 0 => sc.Se = 0
      /\ sc.Ss # 0 => Len(sc.comps) = 1
      /\ \A c \in Range(sc.comps) :
           /\ sc.Ss # 0 => Before(c, 0) >= 0
           /\ \A k \in sc.Ss .. sc.Se :
                IF Before(c, k) < 0 THEN sc.Ah = 0
                ELSE sc.Ah = Before(c, k) /\ sc.Al = sc.Ah - 1
  BY DEF ValidProgression, MAX_AH_AL
<1>3. \E c \in Range(sc.comps) : TRUE
  <2>1. Len(sc.comps) >= 1
    BY <1>1 DEF ValidComponents
  <2>2. 1 \in DOMAIN sc.comps
    BY <1>1, <2>1
  <2> QED BY <2>2 DEF Range
<1>4. \A c, k : k \in Int => Before(c, k) \in Int /\ Before(c, k) >= -1
  <2> TAKE c, k
  <2> HAVE k \in Int
  <2>1. CASE Before(c, k) = -1
    BY <2>1
  <2>2. CASE \E j \in DOMAIN s : Before(c, k) = s[j].Al
    <3>1. PICK j \in DOMAIN s : Before(c, k) = s[j].Al
      BY <2>2
    <3>2. s[j].Al \in 0 .. 10
      BY DEF ValidProgression, MAX_AH_AL
    <3> QED BY <3>1, <3>2
  <2> HIDE DEF Before
  <2>3. \/ Before(c, k) = -1
        \/ \E j \in DOMAIN s : Before(c, k) = s[j].Al
    <3>1. \/ last_bitpos(s, i, c, k) = -1
          \/ \E j \in DOMAIN s : /\ last_bitpos(s, i, c, k) = s[j].Al
                                /\ k \in s[j].Ss .. s[j].Se
      BY <1>1, BitposIs
    <3> HIDE DEF sc
    <3> QED BY <3>1 DEF Before
  <2> QED BY <2>1, <2>2, <2>3
<1> HIDE DEF Before, sc
<1>5. sc.Ah # 0 => sc.Al = sc.Ah - 1
  <2>1. PICK c \in Range(sc.comps) : TRUE
    BY <1>3
  <2>2. sc.Ss \in sc.Ss .. sc.Se
    BY <1>1, <1>2
  <2> QED BY <2>1, <2>2, <1>2
<1>6. \A c \in Range(sc.comps) : \A k \in sc.Ss .. sc.Se :
        sc.Ah = Max({0, Before(c, k)})
  <2> TAKE c \in Range(sc.comps)
  <2> TAKE k \in sc.Ss .. sc.Se
  <2>1. k \in Int /\ Before(c, k) \in Int /\ Before(c, k) >= -1
    BY <1>1, <1>4
  <2>2. CASE Before(c, k) < 0
    <3>1. Max({0, Before(c, k)}) = 0
      BY <2>1, <2>2 DEF Max
    <3> QED BY <3>1, <2>2, <1>2
  <2>3. CASE Before(c, k) >= 0
    <3>1. Max({0, Before(c, k)}) = Before(c, k)
      BY <2>1, <2>3 DEF Max
    <3> QED BY <3>1, <2>1, <2>3, <1>2
  <2> QED BY <2>1, <2>2, <2>3
<1>7. /\ IF sc.Ss = 0 THEN sc.Se = 0
         ELSE sc.Se \in sc.Ss .. DCTSIZE2 - 1 /\ Len(sc.comps) = 1
      /\ sc.Al <= 13
  BY <1>2
<1>8. \A c \in Range(sc.comps) : sc.Ss # 0 => Before(c, 0) >= 0
  BY <1>2
<1> QED BY <1>5, <1>6, <1>7, <1>8 DEF DecoderAccepts, Before, sc

\* A scan that stays is accepted in the shortened script as in the whole one.
LEMMA AcceptsReduced ==
  ASSUME NEW s \in Seq(Scan), NEW lim \in Nat,
         NEW i \in 1 .. Cardinality(kept(s, lim)),
         DecoderAccepts(s, idxin(s, lim, i), DCTSIZE2 - 1), s[idxin(s, lim, i)].Ss >= 0
  PROVE  DecoderAccepts(reduce_script(s, lim), i, lim)
<1> DEFINE red == reduce_script(s, lim)
           r == red[i]
           p == idxin(s, lim, i)
           o == s[p]
<1>1. /\ p \in DOMAIN s
      /\ r.comps = o.comps /\ r.Ss = o.Ss /\ r.Ah = o.Ah /\ r.Al = o.Al
      /\ r.Se = Minimum(o.Se, lim) /\ o.Ss <= lim
  BY ReducedScan
<1>2. o \in Scan
  BY <1>1
<1>3. /\ o.Ss \in Nat /\ o.Se \in Int /\ o.Ah \in Int /\ o.Al \in Int
  <2> HIDE DEF o
  <2>1. o.Ss \in Int /\ o.Se \in Int /\ o.Ah \in Int /\ o.Al \in Int
    BY <1>2 DEF Scan
  <2> QED BY <2>1 DEF o
<1>4. /\ IF o.Ss = 0 THEN o.Se = 0
         ELSE o.Se \in o.Ss .. DCTSIZE2 - 1 /\ Len(o.comps) = 1
      /\ o.Ah # 0 => o.Al = o.Ah - 1
      /\ o.Al <= 13
      /\ \A c \in Range(o.comps) :
           /\ o.Ss # 0 => last_bitpos(s, p, c, 0) >= 0
           /\ \A k \in o.Ss .. o.Se :
                o.Ah = Max({0, last_bitpos(s, p, c, k)})
  BY DEF DecoderAccepts
<1>5. \A c : \A k \in Int : k <= lim => last_bitpos(red, i, c, k) = last_bitpos(s, p, c, k)
  BY ReducedHistory
<1> HIDE DEF red, p
<1>6. IF r.Ss = 0 THEN r.Se = 0 ELSE r.Se \in r.Ss .. lim /\ Len(r.comps) = 1
  BY <1>1, <1>3, <1>4 DEF Minimum
<1>7. \A k \in r.Ss .. r.Se : k \in o.Ss .. o.Se /\ k \in Int /\ k <= lim
  BY <1>1, <1>3 DEF Minimum
<1>8. ASSUME NEW c \in Range(r.comps)
      PROVE  /\ r.Ss # 0 => last_bitpos(red, i, c, 0) >= 0
             /\ \A k \in r.Ss .. r.Se : r.Ah = Max({0, last_bitpos(red, i, c, k)})
  <2>1. last_bitpos(red, i, c, 0) = last_bitpos(s, p, c, 0)
    BY <1>5
  <2>2. \A k \in r.Ss .. r.Se : last_bitpos(red, i, c, k) = last_bitpos(s, p, c, k)
    BY <1>5, <1>7
  <2> QED BY <2>1, <2>2, <1>1, <1>4, <1>7
<1> QED BY <1>1, <1>4, <1>6, <1>8 DEF DecoderAccepts, red

-------------------------------------------------------------------------------
(* Legal scripts *)

\* reduce_script leaves the components of a scan alone.
LEMMA ReducedComponents ==
  ASSUME NEW s \in Seq(Scan), NEW n \in Nat, NEW lim \in Nat,
         \A i \in DOMAIN s : ValidComponents(s[i], n)
  PROVE  \A i \in DOMAIN reduce_script(s, lim) :
           ValidComponents(reduce_script(s, lim)[i], n)
<1> TAKE i \in DOMAIN reduce_script(s, lim)
<1> DEFINE o == s[idxin(s, lim, i)]
<1>1. reduce_script(s, lim)[i].comps = o.comps /\ idxin(s, lim, i) \in DOMAIN s
  <2>1. i \in 1 .. Cardinality(kept(s, lim))
    BY ReducedScan
  <2> QED BY <2>1, ReducedScan
<1>2. ValidComponents(o, n)
  BY <1>1
<1> HIDE DEF o
<1> QED BY <1>1, <1>2 DEF ValidComponents

\* The scans of a legal progressive script, and those that reduce_script leaves of
\* it for a small block, come to a decoder without an error or a warning of bogus
\* progression, and some are left (validate_script and reduce_script in jcmaster.c,
\* start_pass_huff_decoder in jdhuff.c).
THEOREM LegalScriptDecodes ==
  ASSUME NEW s \in Seq(Scan), NEW n \in Nat \ {0}, NEW lim \in Nat,
         validate_script(s, n), Progressive(s)
  PROVE  /\ \A i \in DOMAIN s : DecoderAccepts(s, i, DCTSIZE2 - 1)
         /\ Len(reduce_script(s, lim)) > 0
         /\ \A i \in DOMAIN reduce_script(s, lim) :
              DecoderAccepts(reduce_script(s, lim), i, lim)
<1>1. /\ \A i \in DOMAIN s : ValidComponents(s[i], n)
      /\ \A i \in DOMAIN s : ValidProgression(s, i)
      /\ last_bitpos(s, Len(s) + 1, 1, 0) >= 0
  BY DEF validate_script
<1>2. \A i \in DOMAIN s : DecoderAccepts(s, i, DCTSIZE2 - 1)
  BY <1>1, AcceptsValid
<1>3. \A i \in DOMAIN s : s[i].Ss >= 0
  BY <1>1 DEF ValidProgression
<1>4. Len(reduce_script(s, lim)) > 0
  <2> DEFINE n0 == Cardinality(kept(s, lim))
  <2>1. PICK j \in DOMAIN s : 0 \in s[j].Ss .. s[j].Se
    <3>1. Len(s) + 1 \in 1 .. Len(s) + 1 /\ 0 \in Int
      OBVIOUS
    <3>2. last_bitpos(s, Len(s) + 1, 1, 0) # -1
      BY <1>1
    <3> QED BY <3>1, <3>2, BitposIs
  <2>2. s[j].Ss \in Int
    <3>1. s[j] \in Scan
      OBVIOUS
    <3> QED BY <3>1 DEF Scan
  <2>3. j \in kept(s, lim)
    BY <2>1, <2>2 DEF kept
  <2>4. lim \in Int /\ n0 \in Nat /\ IsFiniteSet(kept(s, lim))
    <3>1. lim \in Int
      OBVIOUS
    <3> QED BY <3>1, KeptCount, 0 \in Nat
  <2>5. n0 # 0
    BY <2>3, <2>4, FS_EmptySet
  <2>6. Len(reduce_script(s, lim)) = n0
    BY ReducedScan
  <2> QED BY <2>4, <2>5, <2>6
<1>5. \A i \in DOMAIN reduce_script(s, lim) :
        DecoderAccepts(reduce_script(s, lim), i, lim)
  <2> TAKE i \in DOMAIN reduce_script(s, lim)
  <2>1. i \in 1 .. Cardinality(kept(s, lim)) /\ idxin(s, lim, i) \in DOMAIN s
    BY ReducedScan
  <2> QED BY <2>1, <1>2, <1>3, AcceptsReduced
<1> QED BY <1>2, <1>4, <1>5

-------------------------------------------------------------------------------
(* The parameters *)

CInfo ==
  [components : Seq(Component) \ {<<>>}, quality : Nat,
   block_size : 1 .. 2 * DCTSIZE,
   scale_num : ScaleFactor, scale_denom : ScaleFactor,
   scan_info : Seq(Scan), given : Seq(Scan),
   arith_code : BOOLEAN, optimize_coding : BOOLEAN, raw_data_in : BOOLEAN,
   restart_interval : 0 .. MAX_INTERVAL, restart_in_rows : Nat,
   image : Images, progressive_mode : BOOLEAN]

\* Parameters that differ at most in the interval of restarts.
Alike(c, d) ==
  /\ d.components = c.components /\ d.block_size = c.block_size
  /\ d.scale_num = c.scale_num /\ d.scale_denom = c.scale_denom
  /\ d.scan_info = c.scan_info /\ d.arith_code = c.arith_code
  /\ d.optimize_coding = c.optimize_coding /\ d.raw_data_in = c.raw_data_in
  /\ d.restart_in_rows = c.restart_in_rows
  /\ d.image = c.image /\ d.progressive_mode = c.progressive_mode

\* A script as the master control leaves it: its components exist, and a decoder
\* accepts the scans of a progressive one.
ScriptLegal(c) ==
  /\ \A i \in DOMAIN c.scan_info : ValidComponents(c.scan_info[i], Len(c.components))
  /\ c.progressive_mode =>
       /\ c.scan_info # <<>>
       /\ \A i \in DOMAIN c.scan_info :
            DecoderAccepts(c.scan_info, i, LimSe(c.block_size))

LEMMA CInfoFields ==
  ASSUME NEW c \in CInfo
  PROVE  /\ c.components \in Seq(Component) /\ c.components # <<>>
         /\ c.block_size \in 1 .. 2 * DCTSIZE /\ c.block_size \in Nat \ {0}
         /\ c.scale_num \in Nat \ {0} /\ c.scale_denom \in Nat \ {0}
         /\ c.scan_info \in Seq(Scan)
         /\ c.arith_code \in BOOLEAN /\ c.optimize_coding \in BOOLEAN
         /\ c.raw_data_in \in BOOLEAN /\ c.progressive_mode \in BOOLEAN
         /\ c.restart_interval \in 0 .. MAX_INTERVAL /\ c.restart_in_rows \in Nat
         /\ c.image \in Images
         /\ c.image.width \in Nat \ {0} /\ c.image.height \in Nat \ {0}
<1>1. /\ c.components \in Seq(Component) \ {<<>>}
      /\ c.scan_info \in Seq(Scan)
      /\ c.image \in Images
  BY DEF CInfo
<1>2. /\ c.block_size \in 1 .. 2 * DCTSIZE
      /\ c.scale_num \in Nat \ {0} /\ c.scale_denom \in Nat \ {0}
      /\ c.restart_interval \in 0 .. MAX_INTERVAL /\ c.restart_in_rows \in Nat
  BY DEF CInfo, ScaleFactor
<1>3. /\ c.arith_code \in BOOLEAN /\ c.optimize_coding \in BOOLEAN
      /\ c.raw_data_in \in BOOLEAN /\ c.progressive_mode \in BOOLEAN
  BY DEF CInfo
<1>4. DCTSIZE \in Nat
  BY ScriptAssumption
<1>5. c.image \in [width : Nat \ {0}, height : Nat \ {0}]
  <2>1. Images \subseteq [width : Nat \ {0}, height : Nat \ {0}]
    BY SettingsAssumption
  <2> QED BY <1>1, <2>1, Zenon
<1>6. c.image.width \in Nat \ {0} /\ c.image.height \in Nat \ {0}
  BY <1>5
<1>7. c.block_size \in Nat \ {0}
  BY <1>2, <1>4
<1> QED BY <1>1, <1>2, <1>3, <1>6, <1>7

LEMMA AlikeDerived ==
  ASSUME NEW c, NEW d, Alike(c, d)
  PROVE  /\ max_h_samp_factor(d) = max_h_samp_factor(c)
         /\ max_v_samp_factor(d) = max_v_samp_factor(c)
         /\ min_DCT_scaled_size(d) = min_DCT_scaled_size(c)
         /\ jpeg_height(d) = jpeg_height(c)
         /\ total_iMCU_rows(d) = total_iMCU_rows(c)
         /\ LinesPerRow(d) = LinesPerRow(c)
         /\ \A r : RowsIn(d, r) = RowsIn(c, r)
         /\ num_scans(d) = num_scans(c) /\ total_passes(d) = total_passes(c)
         /\ need_full_buffer(d) = need_full_buffer(c)
         /\ \A n : select_scan_parameters(d, n) = select_scan_parameters(c, n)
         /\ QuantTables(d) = QuantTables(c)
         /\ \A s : HuffTables(d, s) = HuffTables(c, s)
         /\ FrameHeader(d) = FrameHeader(c)
         /\ ScriptLegal(d) <=> ScriptLegal(c)
<1>1. /\ max_h_samp_factor(d) = max_h_samp_factor(c)
      /\ max_v_samp_factor(d) = max_v_samp_factor(c)
  BY DEF Alike, max_h_samp_factor, max_v_samp_factor, Components
<1>2. min_DCT_scaled_size(d) = min_DCT_scaled_size(c)
  BY DEF Alike, min_DCT_scaled_size
<1>3. jpeg_height(d) = jpeg_height(c)
  BY <1>2 DEF Alike, jpeg_height
<1>4. total_iMCU_rows(d) = total_iMCU_rows(c)
  BY <1>1, <1>3 DEF Alike, total_iMCU_rows
<1>5. LinesPerRow(d) = LinesPerRow(c)
  BY <1>1, <1>2 DEF LinesPerRow
<1>6. \A r : RowsIn(d, r) = RowsIn(c, r)
  BY <1>4, <1>5 DEF RowsIn, Alike
<1>7. num_scans(d) = num_scans(c)
  BY DEF num_scans, Alike
<1>8. total_passes(d) = total_passes(c)
  BY <1>7 DEF total_passes, Alike
<1>9. need_full_buffer(d) = need_full_buffer(c)
  BY <1>7 DEF need_full_buffer, Alike
<1>10. \A n : select_scan_parameters(d, n) = select_scan_parameters(c, n)
  BY DEF select_scan_parameters, Alike, Components
<1>11. QuantTables(d) = QuantTables(c)
  BY DEF QuantTables, Alike, Components
<1>12. \A s : HuffTables(d, s) = HuffTables(c, s)
  BY DEF HuffTables, Alike
<1>13. FrameHeader(d) = FrameHeader(c)
  BY <1>1, <1>3 DEF FrameHeader, Alike
<1>14. ScriptLegal(d) <=> ScriptLegal(c)
  BY DEF ScriptLegal, Alike
<1> QED BY <1>1, <1>2, <1>3, <1>4, <1>5, <1>6, <1>7, <1>8, <1>9, <1>10, <1>11,
           <1>12, <1>13, <1>14
-------------------------------------------------------------------------------
(* Sizes *)

\* jdiv_round_up: the least number of pieces that is enough.
LEMMA CeilIs ==
  ASSUME NEW a \in Nat \ {0}, NEW b \in Nat \ {0}
  PROVE  /\ CeilDiv(a, b) \in Nat \ {0}
         /\ \A q \in Int : q < CeilDiv(a, b) <=> q * b < a
<1> DEFINE n == a + b - 1
           d == n \div b
<1>1. n \in Int /\ d \in Int /\ d * b <= n /\ n < d * b + b /\ d * b \in Int
  BY DivIs
<1>2. CeilDiv(a, b) = d
  BY DEF CeilDiv
<1> HIDE DEF d
<1>3. ASSUME NEW q \in Int
      PROVE  q < d <=> q * b < a
  <2>1. (q + 1) * b = q * b + 1 * b /\ q * b \in Int /\ 1 * b = b
    BY SumTimes, 1 \in Int
  <2>2. q + 1 <= d <=> (q + 1) * b <= d * b
    BY <1>1, ProductOrder
  <2>3. d <= q <=> d * b <= q * b
    BY <1>1, ProductOrder
  <2> QED BY <1>1, <2>1, <2>2, <2>3
<1>4. 0 < d
  <2>1. 0 < d <=> 0 * b < a
    BY <1>3, 0 \in Int
  <2> QED BY <2>1
<1> QED BY <1>1, <1>2, <1>3, <1>4

LEMMA Factors ==
  ASSUME NEW c \in CInfo
  PROVE  /\ max_h_samp_factor(c) \in Nat \ {0} /\ max_v_samp_factor(c) \in Nat \ {0}
         /\ min_DCT_scaled_size(c) \in Nat \ {0}
         /\ jpeg_width(c) \in Nat \ {0} /\ jpeg_height(c) \in Nat \ {0}
         /\ LinesPerRow(c) \in Nat \ {0} /\ total_iMCU_rows(c) \in Nat \ {0}
<1>1. c.components \in Seq(Component) /\ 1 \in DOMAIN c.components
  BY CInfoFields
<1>2. \A i \in DOMAIN c.components : c.components[i].h \in 1 .. 4 /\ c.components[i].v \in 1 .. 4
  <2> TAKE i \in DOMAIN c.components
  <2>1. c.components[i] \in Component
    BY <1>1
  <2> QED BY <2>1 DEF Component
<1>3. max_h_samp_factor(c) \in Nat \ {0}
  <2> DEFINE S == {c.components[i].h : i \in Components(c)}
  <2>1. c.components[1].h \in S /\ \A x \in S : x \in 1 .. 4
    BY <1>1, <1>2, Zenon DEF Components
  <2> HIDE DEF S
  <2>2. Max(S) \in S
    <3>1. S \in SUBSET Nat /\ S # {} /\ \A x \in S : x <= 4
      BY <2>1
    <3> QED BY <3>1, MaxIs, 4 \in Nat
  <2> QED BY <2>1, <2>2 DEF max_h_samp_factor, S
<1>4. max_v_samp_factor(c) \in Nat \ {0}
  <2> DEFINE S == {c.components[i].v : i \in Components(c)}
  <2>1. c.components[1].v \in S /\ \A x \in S : x \in 1 .. 4
    BY <1>1, <1>2, Zenon DEF Components
  <2> HIDE DEF S
  <2>2. Max(S) \in S
    <3>1. S \in SUBSET Nat /\ S # {} /\ \A x \in S : x <= 4
      BY <2>1
    <3> QED BY <3>1, MaxIs, 4 \in Nat
  <2> QED BY <2>1, <2>2 DEF max_v_samp_factor, S
<1>5. min_DCT_scaled_size(c) \in Nat \ {0}
  <2> DEFINE S == {d \in 1 .. 2 * DCTSIZE :
                     c.scale_num * d >= c.scale_denom * c.block_size} \cup {2 * DCTSIZE}
  <2>1. DCTSIZE \in Nat \ {0}
    BY ScriptAssumption
  <2>2. S # {} /\ (\A x \in S : x \in Nat \ {0}) /\ S \in SUBSET Nat
    BY <2>1
  <2> HIDE DEF S
  <2>3. Min(S) \in S
    BY <2>2, MinIs
  <2> QED BY <2>2, <2>3 DEF min_DCT_scaled_size, S
<1>6. /\ c.image.width \in Nat \ {0} /\ c.image.height \in Nat \ {0}
      /\ c.block_size \in Nat \ {0}
  BY CInfoFields
<1>7. \A a \in Nat \ {0}, b \in Nat \ {0} : a * b \in Nat \ {0}
  BY PositiveProduct
<1>8. jpeg_width(c) \in Nat \ {0} /\ jpeg_height(c) \in Nat \ {0}
  BY <1>5, <1>6, <1>7, CeilIs DEF jpeg_width, jpeg_height
<1>9. LinesPerRow(c) \in Nat \ {0}
  BY <1>4, <1>5, <1>7 DEF LinesPerRow
<1>10. total_iMCU_rows(c) \in Nat \ {0}
  BY <1>4, <1>6, <1>7, <1>8, CeilIs DEF total_iMCU_rows
<1> QED BY <1>3, <1>4, <1>5, <1>8, <1>9, <1>10

\* An iMCU row is LinesPerRow lines of the image, whatever the scale.
LEMMA RowsInImage ==
  ASSUME NEW c \in CInfo, NEW k \in Int
  PROVE  k < total_iMCU_rows(c) <=> k * LinesPerRow(c) < c.image.height
<1> DEFINE v == max_v_samp_factor(c)
           b == c.block_size
           d == min_DCT_scaled_size(c)
           h == c.image.height
           j == jpeg_height(c)
<1>1. v \in Nat \ {0} /\ b \in Nat \ {0} /\ d \in Nat \ {0} /\ h \in Nat \ {0} /\ j \in Nat \ {0}
  BY Factors, CInfoFields
<1>2. j = CeilDiv(h * b, d) /\ total_iMCU_rows(c) = CeilDiv(j, v * b) /\ LinesPerRow(c) = v * d
  BY DEF jpeg_height, total_iMCU_rows, LinesPerRow
<1> HIDE DEF v, b, d, h, j
<1>4. v * b \in Nat \ {0} /\ h * b \in Nat \ {0} /\ v * d \in Nat \ {0}
  BY <1>1, PositiveProduct
<1>5. k < total_iMCU_rows(c) <=> k * (v * b) < j
  <2>1. \A q \in Int : q < CeilDiv(j, v * b) <=> q * (v * b) < j
    BY <1>1, <1>4, CeilIs
  <2> QED BY <1>2, <2>1
<1>6. k * (v * b) \in Int /\ (k * (v * b)) * d \in Int /\ k * (v * d) \in Int
  BY <1>1
<1>7. k * (v * b) < j <=> (k * (v * b)) * d < h * b
  <2>1. \A q \in Int : q < CeilDiv(h * b, d) <=> q * d < h * b
    BY <1>1, <1>4, CeilIs
  <2> QED BY <1>2, <1>6, <2>1
<1>8. (k * (v * b)) * d = (k * (v * d)) * b
  BY <1>1
<1>9. (k * (v * d)) * b < h * b <=> k * (v * d) < h
  BY <1>1, <1>6, ProductOrder
<1> QED BY <1>2, <1>5, <1>7, <1>8, <1>9 DEF h

-------------------------------------------------------------------------------
(* Setting up *)

\* Whatever the application sets is a set of parameters.
LEMMA ParametersAreInfo ==
  ASSUME NEW s \in Settings, NEW i \in Images
  PROVE  Parameters(s, i) \in CInfo
<1>1. s \in [components : Seq(Component) \ {<<>>}, quality : Nat,
             block_size : 1 .. 2 * DCTSIZE,
             scale_num : ScaleFactor, scale_denom : ScaleFactor, scan_info : Seq(Scan),
             arith_code : BOOLEAN, optimize_coding : BOOLEAN, raw_data_in : BOOLEAN,
             restart_interval : 0 .. MAX_INTERVAL, restart_in_rows : Nat]
  BY SettingsAssumption, Zenon
<1> QED BY <1>1 DEF Parameters, CInfo

LEMMA ImageGiven ==
  ASSUME NEW c \in CInfo, NEW i \in Images
  PROVE  /\ [c EXCEPT !.image = i] \in CInfo
         /\ [c EXCEPT !.image = i].raw_data_in = c.raw_data_in
         /\ min_DCT_scaled_size([c EXCEPT !.image = i]) = min_DCT_scaled_size(c)
<1> DEFINE d == [c EXCEPT !.image = i]
<1>1. d \in CInfo
  BY DEF CInfo
<1>2. /\ d.raw_data_in = c.raw_data_in /\ d.scale_num = c.scale_num
      /\ d.scale_denom = c.scale_denom /\ d.block_size = c.block_size
  BY DEF CInfo
<1> HIDE DEF d
<1>3. min_DCT_scaled_size(d) = min_DCT_scaled_size(c)
  BY <1>2 DEF min_DCT_scaled_size
<1> QED BY <1>1, <1>2, <1>3 DEF d

\* A script that is not refused is legal when jinit_c_master_control is through,
\* and the rest of the parameters stays.
LEMMA MasterControlLegal ==
  ASSUME NEW c \in CInfo, ~ScriptRefused(c)
  PROVE  LET d == MasterControl(c)
         IN  /\ d \in CInfo /\ ScriptLegal(d)
             /\ d.raw_data_in = c.raw_data_in
             /\ min_DCT_scaled_size(d) = min_DCT_scaled_size(c)
<1> DEFINE d == MasterControl(c)
           s == c.scan_info
           progressive == s # <<>> /\ Progressive(s)
           small == c.block_size < DCTSIZE
           lim == LimSe(c.block_size)
           n == Len(c.components)
<1>1. /\ s \in Seq(Scan) /\ c.block_size \in Nat \ {0} /\ n \in Nat \ {0}
      /\ DCTSIZE \in Nat \ {0}
  BY CInfoFields, ScriptAssumption
<1>2. lim \in Nat
  <2>1. c.block_size * c.block_size \in Nat \ {0}
    BY <1>1, PositiveProduct
  <2> QED BY <2>1, FullSize DEF LimSe
<1>3. ~small => lim = DCTSIZE2 - 1
  BY DEF LimSe
<1>4. progressive \in BOOLEAN
  BY Zenon
<1> DEFINE r == IF small THEN reduce_script(s, lim) ELSE s
<1>5. r \in Seq(Scan)
  BY <1>1, <1>2, ReducedScan
<1>6. c.optimize_coding \/ ((progressive \/ small) /\ ~c.arith_code) \in BOOLEAN
  BY Zenon
<1>7. /\ d \in CInfo
      /\ d.components = c.components /\ d.block_size = c.block_size
      /\ d.scan_info = r /\ d.progressive_mode = progressive
      /\ d.raw_data_in = c.raw_data_in /\ d.scale_num = c.scale_num
      /\ d.scale_denom = c.scale_denom
  <2> DEFINE o == c.optimize_coding \/ ((progressive \/ small) /\ ~c.arith_code)
  <2>1. d = [c EXCEPT !.progressive_mode = progressive, !.scan_info = r,
                      !.optimize_coding = o]
    BY DEF MasterControl
  <2>2. o \in BOOLEAN
    BY Zenon
  <2> HIDE DEF d, progressive, r, o
  <2> QED BY <2>1, <2>2, <1>4, <1>5 DEF CInfo
<1>8. s = <<>> => r = <<>>
  <2> SUFFICES ASSUME s = <<>>  PROVE r = <<>>
    OBVIOUS
  <2>2. kept(s, lim) = {}
    BY DEF kept
  <2>3. Cardinality(kept(s, lim)) = 0
    BY <2>2, FS_EmptySet
  <2>4. Len(reduce_script(s, lim)) = 0 /\ reduce_script(s, lim) \in Seq(Scan)
    BY <1>1, <1>2, <2>3, ReducedScan
  <2> QED BY <2>4
<1>9. CASE s = <<>>
  <2>1. r = <<>> /\ ~progressive
    BY <1>8, <1>9
  <2> HIDE DEF r, progressive, d
  <2>2. DOMAIN r = {}
    BY <2>1
  <2>3. d.scan_info = <<>> /\ ~d.progressive_mode
    BY <2>1, <1>7
  <2> QED BY <2>1, <2>2, <2>3, <1>7 DEF ScriptLegal, min_DCT_scaled_size, d
<1>10. CASE s # <<>>
  <2>1. validate_script(s, n)
    BY <1>10 DEF ScriptRefused
  <2>2. \A i \in DOMAIN s : ValidComponents(s[i], n)
    BY <2>1 DEF validate_script
  <2>3. \A i \in DOMAIN r : ValidComponents(r[i], n)
    <3>1. \A i \in DOMAIN reduce_script(s, lim) :
            ValidComponents(reduce_script(s, lim)[i], n)
      BY <1>1, <1>2, <2>2, ReducedComponents
    <3> QED BY <2>2, <3>1
  <2>4. progressive =>
          r # <<>> /\ \A i \in DOMAIN r : DecoderAccepts(r, i, lim)
    <3> SUFFICES ASSUME progressive
                 PROVE  r # <<>> /\ \A i \in DOMAIN r : DecoderAccepts(r, i, lim)
      OBVIOUS
    <3>1. /\ \A i \in DOMAIN s : DecoderAccepts(s, i, DCTSIZE2 - 1)
          /\ Len(reduce_script(s, lim)) > 0
          /\ \A i \in DOMAIN reduce_script(s, lim) :
               DecoderAccepts(reduce_script(s, lim), i, lim)
      BY <1>1, <1>2, <2>1, LegalScriptDecodes
    <3>2. reduce_script(s, lim) # <<>>
      BY <3>1
    <3> QED BY <3>1, <3>2, <1>3, <1>10
  <2> HIDE DEF r, progressive, d, s, n
  <2> QED BY <2>3, <2>4, <1>7 DEF ScriptLegal, min_DCT_scaled_size, d, n
<1> QED BY <1>9, <1>10

-------------------------------------------------------------------------------
(* Scans *)

\* A scan of an image: it has components, and they are components of the image.
ScanOf(c, s) ==
  /\ s \in Scan /\ Len(s.comps) >= 1
  /\ \A k \in DOMAIN s.comps : s.comps[k] \in Components(c)

\* select_scan_parameters finds one for every pass.
LEMMA SelectIs ==
  ASSUME NEW c \in CInfo, ScriptLegal(c),
         NEW n \in Nat, n < num_scans(c)
  PROVE  ScanOf(c, select_scan_parameters(c, n))
<1> DEFINE s == select_scan_parameters(c, n)
           all == [i \in Components(c) |-> i]
<1>1. /\ c.components \in Seq(Component) /\ Len(c.components) \in Nat \ {0}
      /\ c.scan_info \in Seq(Scan) /\ c.block_size \in Nat
      /\ Components(c) = 1 .. Len(c.components)
  BY CInfoFields DEF Components
<1>2. c.scan_info # <<>> => n + 1 \in DOMAIN c.scan_info
  BY <1>1 DEF num_scans
<1>3. c.scan_info # <<>> =>
        /\ c.scan_info[n + 1] \in Scan
        /\ Len(c.scan_info[n + 1].comps) >= 1
        /\ \A k \in DOMAIN c.scan_info[n + 1].comps :
             c.scan_info[n + 1].comps[k] \in Components(c)
  <2> SUFFICES ASSUME c.scan_info # <<>>
               PROVE  LET t == c.scan_info[n + 1]
                      IN  /\ t \in Scan /\ Len(t.comps) >= 1
                          /\ \A k \in DOMAIN t.comps : t.comps[k] \in Components(c)
    OBVIOUS
  <2> DEFINE t == c.scan_info[n + 1]
  <2>1. t \in Scan
    BY <1>1, <1>2
  <2>2. ValidComponents(t, Len(c.components))
    BY <1>2 DEF ScriptLegal
  <2> HIDE DEF t
  <2>3. MAX_COMPS_IN_SCAN \in Nat
    BY ScriptAssumption
  <2> QED BY <1>1, <2>1, <2>2, <2>3 DEF ValidComponents, t
<1>4. c.block_size * c.block_size - 1 \in Int
  BY <1>1
<1>5. all \in Seq(Int) /\ Len(all) = Len(c.components)
      /\ \A k \in DOMAIN all : all[k] \in Components(c)
  BY <1>1
<1>6. CASE c.progressive_mode
  <2>1. s = c.scan_info[n + 1] /\ c.scan_info # <<>>
    BY <1>6 DEF select_scan_parameters, ScriptLegal
  <2> HIDE DEF s
  <2> QED BY <1>3, <2>1 DEF ScanOf, s
<1>7. CASE ~c.progressive_mode /\ c.scan_info = <<>>
  <2>1. s = [comps |-> all, Ss |-> 0, Se |-> c.block_size * c.block_size - 1,
             Ah |-> 0, Al |-> 0]
    BY <1>7 DEF select_scan_parameters
  <2> HIDE DEF s, all
  <2>2. s \in Scan /\ s.comps = all
    BY <1>4, <1>5, <2>1 DEF Scan
  <2> QED BY <1>1, <1>5, <2>2 DEF ScanOf, s
<1>8. CASE ~c.progressive_mode /\ c.scan_info # <<>>
  <2> DEFINE t == c.scan_info[n + 1].comps
  <2>1. s = [comps |-> t, Ss |-> 0, Se |-> c.block_size * c.block_size - 1,
             Ah |-> 0, Al |-> 0]
    BY <1>8 DEF select_scan_parameters
  <2>2. t \in Seq(Int) /\ Len(t) >= 1 /\ \A k \in DOMAIN t : t[k] \in Components(c)
    BY <1>3, <1>8 DEF Scan
  <2> HIDE DEF s, t
  <2>3. s \in Scan /\ s.comps = t
    BY <1>4, <2>1, <2>2 DEF Scan
  <2> QED BY <2>2, <2>3 DEF ScanOf, s
<1> QED BY <1>6, <1>7, <1>8, CInfoFields

LEMMA NumScans ==
  ASSUME NEW c \in CInfo
  PROVE  num_scans(c) \in Nat \ {0}
<1>1. c.scan_info \in Seq(Scan)
  BY CInfoFields
<1> QED BY <1>1 DEF num_scans

\* per_scan_setup changes the restart interval alone, and it fits its marker.
LEMMA PerScanSetup ==
  ASSUME NEW c \in CInfo, NEW s, ScanOf(c, s)
  PROVE  /\ per_scan_setup(c, s) \in CInfo
         /\ Alike(c, per_scan_setup(c, s))
<1> DEFINE n == MCUs_per_row(c, s)
<1>1. n \in Nat
  <2>1. CASE Len(s.comps) = 1
    <3> DEFINE i == s.comps[1]
               a == jpeg_width(c) * c.components[i].h
               b == max_h_samp_factor(c) * c.block_size
    <3>1. s.comps \in Seq(Int)
      BY DEF ScanOf, Scan
    <3>2. 1 \in DOMAIN s.comps
      BY <2>1, <3>1
    <3>3. i \in DOMAIN c.components
      BY <3>2 DEF ScanOf, Components
    <3> HIDE DEF i
    <3>4. c.components[i] \in Component
      BY <3>3, CInfoFields
    <3>5. c.components[i].h \in Nat \ {0}
      BY <3>4 DEF Component
    <3>6. a \in Nat \ {0}
      BY <3>5, Factors, PositiveProduct
    <3>7. b \in Nat \ {0}
      BY CInfoFields, Factors, PositiveProduct
    <3>8. n = CeilDiv(a, b)
      BY <2>1 DEF MCUs_per_row, width_in_blocks, i
    <3> HIDE DEF n, a, b
    <3>9. CeilDiv(a, b) \in Nat
      BY <3>6, <3>7, CeilIs
    <3> QED BY <3>8, <3>9
  <2>2. CASE Len(s.comps) # 1
    <3> DEFINE a == jpeg_width(c)
               b == max_h_samp_factor(c) * c.block_size
    <3>1. a \in Nat \ {0}
      BY Factors
    <3>2. b \in Nat \ {0}
      BY CInfoFields, Factors, PositiveProduct
    <3>3. n = CeilDiv(a, b)
      BY <2>2 DEF MCUs_per_row
    <3> HIDE DEF n, a, b
    <3>4. CeilDiv(a, b) \in Nat
      BY <3>1, <3>2, CeilIs
    <3> QED BY <3>3, <3>4
  <2> QED BY <2>1, <2>2
<1> DEFINE m == Minimum(c.restart_in_rows * n, MAX_INTERVAL)
<1>2. m \in 0 .. MAX_INTERVAL
  <2>1. MAX_INTERVAL \in Nat
    BY DEF MAX_INTERVAL
  <2>2. c.restart_in_rows \in Nat
    BY CInfoFields
  <2> HIDE DEF n
  <2>3. c.restart_in_rows * n \in Nat
    BY <1>1, <2>2
  <2> QED BY <2>1, <2>3 DEF Minimum
<1>3. CASE c.restart_in_rows = 0
  BY <1>3 DEF per_scan_setup, Alike
<1>4. CASE c.restart_in_rows # 0
  <2>1. per_scan_setup(c, s) = [c EXCEPT !.restart_interval = m]
    BY <1>4 DEF per_scan_setup
  <2> HIDE DEF m
  <2> QED BY <1>2, <2>1 DEF CInfo, Alike
<1> QED BY <1>3, <1>4

\* The tables of a header: quantization tables before Huffman tables, and each is
\* one of the object's.
LEMMA TablesIn ==
  ASSUME NEW c \in CInfo, NEW s, ScanOf(c, s)
  PROVE  /\ \A t \in Range(QuantTables(c)) : t \in Tables /\ t[1] = "q"
         /\ \A t \in Range(HuffTables(c, s)) : t \in Tables /\ t[1] # "q"
         /\ QuantTables(c) \in Seq(Tables) /\ HuffTables(c, s) \in Seq(Tables)
<1>1. \A i \in DOMAIN c.components : c.components[i].q \in 0 .. 1 /\ c.components[i].t \in 0 .. 1
  <2> TAKE i \in DOMAIN c.components
  <2>1. c.components[i] \in Component
    BY CInfoFields
  <2> QED BY <2>1 DEF Component
<1>2. Len(c.components) \in Nat /\ DOMAIN c.components = 1 .. Len(c.components)
  BY CInfoFields
<1>3. \A i \in DOMAIN c.components : <<"q", c.components[i].q>> \in Tables
  BY <1>1 DEF Tables
<1>4. /\ \A t \in Range(QuantTables(c)) : t \in Tables /\ t[1] = "q"
      /\ QuantTables(c) \in Seq(Tables)
  <2> DEFINE f(i) == <<"q", c.components[i].q>>
             N == Len(c.components)
             g == [i \in 1 .. N |-> f(i)]
  <2>1. \A i \in 1 .. N : f(i) \in Tables /\ f(i)[1] = "q"
    BY <1>2, <1>3
  <2>2. QuantTables(c) = g
    BY <1>2 DEF QuantTables, Components
  <2>3. N \in Nat
    BY <1>2
  <2> HIDE DEF f, N
  <2>4. g \in Seq(Tables)
    BY <2>1, <2>3
  <2>5. \A t \in Range(g) : t \in Tables /\ t[1] = "q"
    BY <2>1, Zenon DEF Range
  <2> QED BY <2>2, <2>4, <2>5
<1> DEFINE dc == s.Ss = 0 /\ s.Ah = 0
           ac == s.Se # 0
           kinds == (IF dc THEN <<"dc">> ELSE <<>>) \o (IF ac THEN <<"ac">> ELSE <<>>)
           n == Len(kinds)
           m == Len(s.comps)
           h == HuffTables(c, s)
           Of(k) == <<kinds[((k - 1) % n) + 1],
                      c.components[s.comps[((k - 1) \div n) + 1]].t>>
<1>5. n \in 0 .. 2 /\ \A k \in 1 .. n : kinds[k] \in {"dc", "ac"}
  BY DEF n
<1>6. m \in Nat /\ \A k \in 1 .. m : s.comps[k] \in DOMAIN c.components
  <2>1. s.comps \in Seq(Int)
    BY DEF ScanOf, Scan
  <2> QED BY <2>1 DEF ScanOf, Components
<1>7. h = IF c.arith_code THEN <<>> ELSE [k \in 1 .. n * m |-> Of(k)]
  BY DEF HuffTables
<1> HIDE DEF kinds, n, m, h
<1>8. ASSUME NEW k \in 1 .. n * m
      PROVE  Of(k) \in Tables /\ Of(k)[1] # "q"
  <2> DEFINE a == ((k - 1) % n) + 1
             b == ((k - 1) \div n) + 1
  <2>1. CASE n = 0
    BY <2>1, <1>6
  <2>2. CASE n # 0
    <3>1. n \in Nat \ {0} /\ k - 1 \in Int
      BY <2>2, <1>5, <1>6
    <3>2. a \in 1 .. n
      <4> DEFINE x == k - 1
      <4>1. x \in Int /\ x % n \in 0 .. n - 1
        BY <3>1
      <4> QED BY <4>1, <3>1
    <3>3. b \in 1 .. m
      <4>1. (k - 1) \div n \in Int /\ ((k - 1) \div n) * n <= k - 1
            /\ k - 1 < ((k - 1) \div n) * n + n
        BY <3>1, DivIs
      <4>2. k - 1 >= 0 /\ k - 1 < m * n
        BY <1>5, <1>6
      <4> DEFINE d == (k - 1) \div n
      <4> HIDE DEF d
      <4>3. d * n < m * n => d < m
        BY <4>1, <3>1, <1>6, ProductOrder DEF d
      <4>4. d < 0 => (d + 1) * n <= 0 * n
        BY <4>1, <3>1, ProductOrder DEF d
      <4>5. (d + 1) * n = d * n + 1 * n
        BY <4>1, <3>1, SumTimes DEF d
      <4> QED BY <4>1, <4>2, <4>3, <4>4, <4>5, <3>1, <1>6 DEF d
    <3>4. kinds[a] \in {"dc", "ac"} /\ c.components[s.comps[b]].t \in 0 .. 1
      BY <3>2, <3>3, <1>1, <1>5, <1>6
    <3> HIDE DEF a, b
    <3>5. Of(k) = <<kinds[a], c.components[s.comps[b]].t>>
      BY DEF a, b
    <3> QED BY <3>4, <3>5 DEF Tables
  <2> QED BY <2>1, <2>2
<1> HIDE DEF Of
<1>9. CASE c.arith_code
  <2>1. h = <<>>
    BY <1>7, <1>9
  <2>2. HuffTables(c, s) \in Seq(Tables) /\ Range(HuffTables(c, s)) = {}
    BY <2>1 DEF h, Range
  <2> QED BY <2>2, <1>4
<1>10. CASE ~c.arith_code
  <2>1. h = [k \in 1 .. n * m |-> Of(k)] /\ n * m \in Nat
    BY <1>5, <1>6, <1>7, <1>10
  <2>2. h \in Seq(Tables) /\ \A t \in Range(h) : t \in Tables /\ t[1] # "q"
    BY <2>1, <1>8 DEF Range
  <2> QED BY <2>2, <1>4 DEF h
<1> QED BY <1>9, <1>10, CInfoFields

-------------------------------------------------------------------------------
(* The invariant *)

Master ==
  [pass_type : {"main", "huff_opt", "output"}, scan_number : Nat, pass_number : Nat,
   call_pass_startup : BOOLEAN, is_last_pass : BOOLEAN]
WrittenScan ==
  [comps : Seq(Int), Ss : Int, Se : Int, Ah : Int, Al : Int, rows : Nat]

\* Of what kind everything is; an image has a master.
Shapes ==
  /\ global_state \in {"START", "SCANNING", "RAW_OK", "WRCOEFS"}
  /\ call \in {"none", "finish"}
  /\ error \in {"none", "BAD_STATE", "BAD_SCRIPT", "NOT_COMPILED", "BAD_BUFFER_MODE",
                "BAD_VIRTUAL_ACCESS", "BUFFER_SIZE", "CANT_SUSPEND", "TOO_LITTLE_DATA"}
  /\ cinfo \in CInfo
  /\ next_scanline \in Nat
  /\ sent \subseteq Tables
  /\ images \in 0 .. MaxImages
  /\ reader = [tables |-> reader.tables, interval |-> reader.interval]
  /\ out = [part |-> out.part, frame |-> out.frame, scans |-> out.scans]
  /\ out.part \in {"none", "header", "scan", "done", "broken"}
  /\ out.scans \in Seq(WrittenScan)
  /\ entropy = [gather |-> entropy.gather, interval |-> entropy.interval,
                codes |-> entropy.codes]
  /\ entropy.gather \in BOOLEAN
  /\ coef \in [whole_image : BOOLEAN, iMCU_row_num : Nat]
  /\ global_state # "START" => master \in Master

\* Whatever has sent_table set is known to the reader as it is now.
ReaderKnows ==
  /\ reader.interval = last_restart_interval
  /\ \A t \in sent : reader.tables[t] = tbl[t]

\* Between images no scan is open.
Waiting ==
  global_state = "START" => call = "none" /\ out.part \in {"none", "done", "broken"}

\* The first pass has the first scan; headers are due, written, or wait for the
\* statistics.
MainPass ==
  global_state \in {"SCANNING", "RAW_OK"} /\ call = "none" =>
    /\ master.pass_type = "main" /\ master.scan_number = 0 /\ master.pass_number = 0
    /\ master.is_last_pass <=> total_passes(cinfo) = 1
    /\ scan = select_scan_parameters(cinfo, 0)
    /\ entropy.gather <=> cinfo.optimize_coding
    /\ entropy.interval = cinfo.restart_interval
    /\ ~entropy.gather =>
         entropy.codes = [t \in Range(HuffTables(cinfo, scan)) |-> tbl[t]]
    /\ out.part \in {"header", "scan", "broken"}
    /\ master.call_pass_startup => ~cinfo.optimize_coding /\ next_scanline = 0
    /\ out.part = "header" <=> master.call_pass_startup \/ cinfo.optimize_coding
    /\ out.part = "header" => out.scans = <<>>
    /\ out.part = "scan" => Len(out.scans) = 1
    /\ out.part = "broken" => error # "none"

\* jpeg_write_coefficients has no main pass.
Transcoding ==
  global_state = "WRCOEFS" /\ call = "none" =>
    /\ master.pass_type = IF cinfo.optimize_coding THEN "huff_opt" ELSE "output"
    /\ master.scan_number = 0 /\ master.pass_number = 0 /\ ~master.is_last_pass
    /\ out = Stream("header")

\* In jpeg_finish_compress the number of the pass, its kind and the scans written
\* determine each other.
Finishing ==
  call = "finish" =>
    /\ out.part \in {"header", "scan", "broken"}
    /\ out.part = "broken" => error # "none"
    /\ out.part # "broken" =>
         /\ Len(out.scans) = master.scan_number
         /\ out.part = "header" <=> master.scan_number = 0
    /\ IF master.is_last_pass THEN master.scan_number = num_scans(cinfo)
       ELSE /\ master.scan_number < num_scans(cinfo)
            /\ master.pass_number =
                 IF cinfo.optimize_coding
                 THEN 2 * master.scan_number
                      + (IF master.pass_type = "output" THEN 1 ELSE 0)
                 ELSE master.scan_number
            /\ master.pass_type \in {"huff_opt", "output"}
            /\ master.pass_type = "huff_opt" => cinfo.optimize_coding
            /\ (master.pass_type = "output" /\ cinfo.optimize_coding /\ error = "none")
                 => scan = select_scan_parameters(cinfo, master.scan_number)

\* Headers are only written for legal scripts.
Accepted == out.part \in {"header", "scan", "done"} => ScriptLegal(cinfo)

\* The stream has the scans of the script, so far.
Written ==
  /\ out.part \in {"scan", "done"} =>
       /\ out.frame = FrameHeader(cinfo)
       /\ Len(out.scans) \in 1 .. num_scans(cinfo)
       /\ \A i \in DOMAIN out.scans :
            out.scans[i] = WithRows(select_scan_parameters(cinfo, i - 1),
                                    out.scans[i].rows)
  /\ out.part = "done" => Len(out.scans) = num_scans(cinfo)

\* The tables and the interval the scan in work is coded with have been sent.
Coded ==
  /\ out.part = "scan" => Range(QuantTables(cinfo)) \subseteq sent
  /\ (out.part = "scan" /\ error = "none" /\ ~entropy.gather) =>
       /\ entropy.interval = reader.interval
       /\ \A t \in DOMAIN entropy.codes : t \in sent /\ entropy.codes[t] = tbl[t]

IInv ==
  /\ Shapes /\ ReaderKnows /\ Waiting /\ MainPass /\ Transcoding
  /\ Finishing /\ Accepted /\ Written /\ Coded

-------------------------------------------------------------------------------
(* The steps *)

LEMMA InitIInv == Init => IInv
<1> SUFFICES ASSUME Init  PROVE IInv
  OBVIOUS
<1> USE DEF Init, Stream, KnowsNothing
<1>1. Shapes
  <2>1. cinfo \in CInfo
    BY ParametersAreInfo
  <2>2. images \in 0 .. MaxImages
    BY SettingsAssumption
  <2> QED BY <2>1, <2>2 DEF Shapes
<1>2. ReaderKnows
  BY DEF ReaderKnows
<1>3. Waiting
  BY DEF Waiting
<1>4. MainPass /\ Transcoding /\ Finishing
  BY DEF MainPass, Transcoding, Finishing
<1>5. Accepted /\ Written /\ Coded
  BY DEF Accepted, Written, Coded
<1> QED BY <1>1, <1>2, <1>3, <1>4, <1>5 DEF IInv

\* A step that changes nothing, and a call refused in the state it is made in.
LEMMA IdleStep ==
  ASSUME IInv, UNCHANGED vars
  PROVE  IInv'
<1> USE DEF vars
<1>1. Shapes' /\ ReaderKnows' /\ Waiting' /\ MainPass'
  BY DEF IInv, Shapes, ReaderKnows, Waiting, MainPass
<1>2. Transcoding' /\ Finishing' /\ Accepted' /\ Written' /\ Coded'
  BY DEF IInv, Transcoding, Finishing, Accepted, Written, Coded
<1> QED BY <1>1, <1>2 DEF IInv

LEMMA BadCallStep ==
  ASSUME IInv, BadCall
  PROVE  IInv'
<1> USE DEF BadCall, IInv
<1>1. Shapes'
  BY DEF Shapes
<1>2. ReaderKnows' /\ Waiting'
  BY DEF ReaderKnows, Waiting
<1>3. MainPass'
  BY DEF MainPass
<1>4. Transcoding' /\ Finishing'
  BY DEF Transcoding, Finishing
<1>5. Accepted' /\ Written' /\ Coded'
  BY DEF Accepted, Written, Coded
<1> QED BY <1>1, <1>2, <1>3, <1>4, <1>5

LEMMA SetParametersStep ==
  ASSUME IInv, NEW s \in Settings, SetParameters(s)
  PROVE  IInv'
<1> USE DEF SetParameters, Ready, IInv, Stream
<1>1. Shapes'
  <2>1. cinfo.image \in Images
    BY CInfoFields DEF Shapes
  <2>2. cinfo' \in CInfo
    BY <2>1, ParametersAreInfo
  <2> QED BY <2>2 DEF Shapes
<1>2. ReaderKnows' /\ Waiting'
  BY DEF ReaderKnows, Waiting
<1>3. MainPass' /\ Transcoding' /\ Finishing'
  BY DEF MainPass, Transcoding, Finishing
<1>4. Accepted' /\ Written' /\ Coded'
  BY DEF Accepted, Written, Coded
<1> QED BY <1>1, <1>2, <1>3, <1>4

LEMMA SuppressStep ==
  ASSUME IInv, NEW suppress \in BOOLEAN, jpeg_suppress_tables(suppress)
  PROVE  IInv'
<1> USE DEF jpeg_suppress_tables, Ready, IInv, Stream
<1>1. Shapes'
  BY DEF Shapes
<1>2. ReaderKnows' /\ Waiting'
  BY DEF ReaderKnows, Waiting, Shapes
<1>3. MainPass' /\ Finishing'
  BY DEF MainPass, Finishing
<1>4. Transcoding'
  BY DEF Transcoding
<1>5. Accepted' /\ Written'
  BY DEF Accepted, Written
<1>6. Coded'
  BY DEF Coded, Waiting, Transcoding
<1> QED BY <1>1, <1>2, <1>3, <1>4, <1>5, <1>6

LEMMA WriteTablesStep ==
  ASSUME IInv, jpeg_write_tables
  PROVE  IInv'
<1> USE DEF jpeg_write_tables, Ready, IInv
<1>1. Shapes'
  BY DEF Shapes
<1>2. ReaderKnows' /\ Waiting'
  BY DEF ReaderKnows, Waiting, Shapes
<1>3. MainPass' /\ Transcoding' /\ Finishing'
  BY DEF MainPass, Transcoding, Finishing
<1>4. Accepted' /\ Written'
  BY DEF Accepted, Written
<1>5. Coded'
  BY DEF Coded, Waiting
<1> QED BY <1>1, <1>2, <1>3, <1>4, <1>5

LEMMA TrailerStep ==
  ASSUME IInv, WriteTrailer
  PROVE  IInv'
<1> USE DEF WriteTrailer, NoImage, IInv
<1>1. Shapes'
  BY DEF Shapes
<1>2. ReaderKnows'
  BY DEF ReaderKnows
<1>3. Waiting' /\ MainPass' /\ Transcoding' /\ Finishing'
  BY DEF Waiting, MainPass, Transcoding, Finishing, Shapes
<1>4. out.part = "scan" /\ Len(out.scans) = num_scans(cinfo)
  BY NumScans DEF Finishing, Shapes
<1>5. Accepted' /\ Coded'
  BY <1>4 DEF Accepted, Coded, Shapes
<1>6. Written'
  BY <1>4 DEF Written, Shapes
<1> QED BY <1>1, <1>2, <1>3, <1>5, <1>6

LEMMA AbortStep ==
  ASSUME IInv, jpeg_abort_compress
  PROVE  IInv'
<1> USE DEF jpeg_abort_compress, NoImage, IInv, Stream
<1>1. Shapes'
  BY DEF Shapes
<1>2. ReaderKnows'
  BY DEF ReaderKnows
<1>3. Waiting' /\ MainPass' /\ Transcoding' /\ Finishing'
  BY DEF Waiting, MainPass, Transcoding, Finishing
<1>4. Accepted' /\ Written'
  BY DEF Accepted, Written
<1>5. Coded'
  BY DEF Coded, Waiting
<1> QED BY <1>1, <1>2, <1>3, <1>4, <1>5

\* The number of passes: one for each scan, or two.
LEMMA TotalPasses ==
  ASSUME NEW c \in CInfo
  PROVE  total_passes(c) \in Nat \ {0}
BY NumScans, CInfoFields DEF total_passes

LEMMA StartStep ==
  ASSUME IInv, NEW write_all_tables \in BOOLEAN, NEW image \in Images,
         jpeg_start_compress(write_all_tables, image)
  PROVE  IInv'
<1> DEFINE given == [cinfo EXCEPT !.image = image]
           legal == MasterControl(given)
           first == select_scan_parameters(legal, 0)
           c == per_scan_setup(legal, first)
           m == [pass_type |-> "main", scan_number |-> 0, pass_number |-> 0,
                 call_pass_startup |-> FALSE, is_last_pass |-> FALSE]
           Begun ==
             /\ ~ScriptRefused(given)
             /\ error' \in {"none", "BAD_BUFFER_MODE"}
             /\ cinfo' = c /\ scan' = first
             /\ entropy' = start_pass(c, first, c.optimize_coding)
             /\ coef' = [whole_image |-> need_full_buffer(c), iMCU_row_num |-> 0]
             /\ master' = Prepared(m, c, ~c.optimize_coding)
             /\ next_scanline' = 0
             /\ global_state' = IF c.raw_data_in THEN "RAW_OK" ELSE "SCANNING"
             /\ out' = Stream("header")
<1>1. cinfo \in CInfo /\ given \in CInfo
  BY ImageGiven DEF IInv, Shapes
<1>2. /\ Ready("START") /\ images < MaxImages /\ OpenStream(write_all_tables)
      /\ UNCHANGED <<call, tbl>>
      /\ \/ ScriptRefused(given) /\ Refuse("BAD_SCRIPT", given)
         \/ ~ScriptRefused(given) /\ Refuse("NOT_COMPILED", c)
         \/ Begun
  BY DEF jpeg_start_compress
<1>3. ~ScriptRefused(given) =>
        /\ c \in CInfo /\ ScriptLegal(c) /\ c.optimize_coding \in BOOLEAN
        /\ total_passes(c) \in Nat \ {0}
        /\ first = select_scan_parameters(c, 0)
  <2> SUFFICES ASSUME ~ScriptRefused(given)
               PROVE  /\ c \in CInfo /\ ScriptLegal(c) /\ c.optimize_coding \in BOOLEAN
                      /\ total_passes(c) \in Nat \ {0}
                      /\ first = select_scan_parameters(c, 0)
    OBVIOUS
  <2>1. legal \in CInfo /\ ScriptLegal(legal)
    BY <1>1, MasterControlLegal
  <2> HIDE DEF legal
  <2>2. ScanOf(legal, first)
    BY <2>1, SelectIs, NumScans
  <2>3. c \in CInfo /\ Alike(legal, c)
    BY <2>1, <2>2, PerScanSetup
  <2> HIDE DEF c
  <2> QED BY <2>1, <2>3, AlikeDerived, TotalPasses, CInfoFields
<1>4. need_full_buffer(c) \in BOOLEAN
  BY DEF need_full_buffer
<1> HIDE DEF given, c, first, Begun
<1>5. /\ images' \in 0 .. MaxImages /\ sent' \subseteq Tables
      /\ reader' = [tables |-> reader'.tables, interval |-> reader'.interval]
  <2>1. images' \in 0 .. MaxImages
    <3>1. images \in 0 .. MaxImages /\ images < MaxImages /\ images' = images + 1
      BY <1>2 DEF OpenStream, IInv, Shapes
    <3> QED BY <3>1, SettingsAssumption
  <2>2. sent' \subseteq Tables
    BY <1>2 DEF OpenStream, IInv, Shapes
  <2>3. reader' = [tables |-> reader'.tables, interval |-> reader'.interval]
    BY <1>2 DEF OpenStream, IInv, Shapes, KnowsNothing
  <2> QED BY <2>1, <2>2, <2>3
<1>6. ReaderKnows'
  BY <1>2 DEF OpenStream, IInv, ReaderKnows, KnowsNothing, Shapes
<1>7. CASE \/ Refuse("BAD_SCRIPT", given)
           \/ ~ScriptRefused(given) /\ Refuse("NOT_COMPILED", c)
  <2> USE <1>2 DEF Refuse, Ready, Stream
  <2>4. /\ cinfo' \in CInfo /\ error' \in {"BAD_SCRIPT", "NOT_COMPILED"}
        /\ out' = Stream("none")
        /\ UNCHANGED <<global_state, next_scanline, master, scan, entropy, coef>>
    BY <1>1, <1>3, <1>7
  <2>1. Shapes'
    BY <1>5, <2>4 DEF IInv, Shapes
  <2>2. Waiting' /\ MainPass' /\ Transcoding' /\ Finishing'
    BY <2>4 DEF Waiting, MainPass, Transcoding, Finishing
  <2>3. Accepted' /\ Written' /\ Coded'
    BY <2>4 DEF Accepted, Written, Coded
  <2> QED BY <1>6, <2>1, <2>2, <2>3 DEF IInv
<1>8. CASE Begun
  <2>1. /\ global_state' \in {"SCANNING", "RAW_OK"} /\ call' = "none"
        /\ out' = [part |-> "header", frame |-> NoFrame, scans |-> <<>>]
    BY <1>2, <1>8 DEF Begun, Ready, Stream
  <2>2. master' \in Master /\ (master'.call_pass_startup <=> ~c.optimize_coding)
        /\ (master'.is_last_pass <=> total_passes(c) = 1)
        /\ master'.pass_type = "main" /\ master'.scan_number = 0
        /\ master'.pass_number = 0
    <3> DEFINE startup == ~c.optimize_coding
               last == 0 = total_passes(c) - 1
               n == [pass_type |-> "main", scan_number |-> 0, pass_number |-> 0,
                     call_pass_startup |-> startup, is_last_pass |-> last]
    <3>1. master' = n
      BY <1>8 DEF Begun, Prepared
    <3>2. startup \in BOOLEAN /\ last \in BOOLEAN
      BY Zenon
    <3>3. last <=> total_passes(c) = 1
      BY <1>3, <1>8
    <3>4. startup <=> ~c.optimize_coding
      BY Zenon
    <3> HIDE DEF startup, last
    <3>5. n \in Master
      BY <3>2 DEF Master
    <3> QED BY <3>1, <3>3, <3>4, <3>5
  <2>3. /\ entropy' = [gather |-> entropy'.gather, interval |-> entropy'.interval,
                       codes |-> entropy'.codes]
        /\ entropy'.gather \in BOOLEAN /\ (entropy'.gather <=> c.optimize_coding)
        /\ entropy'.interval = c.restart_interval
        /\ ~entropy'.gather =>
             entropy'.codes = [t \in Range(HuffTables(c, first)) |-> tbl[t]]
    BY <1>3, <1>8 DEF Begun, start_pass
  <2>4. coef' \in [whole_image : BOOLEAN, iMCU_row_num : Nat]
    BY <1>4, <1>8 DEF Begun
  <2>5. Shapes'
    <3>1. /\ global_state \in {"START", "SCANNING", "RAW_OK", "WRCOEFS"}
          /\ call' = "none" /\ cinfo' \in CInfo /\ next_scanline' \in Nat
          /\ error' \in {"none", "BAD_BUFFER_MODE"}
      BY <1>2, <1>3, <1>8 DEF Begun, Ready
    <3>2. out'.scans = <<>> /\ <<>> \in Seq(WrittenScan)
      BY <2>1
    <3> QED BY <1>5, <2>1, <2>2, <2>3, <2>4, <3>1, <3>2 DEF Shapes
  <2>10. MainPass'
    BY <1>2, <1>3, <1>8, <2>1, <2>2, <2>3 DEF Begun, MainPass
  <2>6. Waiting' /\ Transcoding' /\ Finishing'
    BY <2>1 DEF Waiting, Transcoding, Finishing
  <2>7. Accepted' /\ Written' /\ Coded'
    BY <1>3, <1>8, <2>1 DEF Begun, Accepted, Written, Coded
  <2> QED BY <1>6, <2>5, <2>6, <2>7, <2>10 DEF IInv
<1>9. \/ ScriptRefused(given) /\ Refuse("BAD_SCRIPT", given)
      \/ ~ScriptRefused(given) /\ Refuse("NOT_COMPILED", c)
      \/ Begun
  BY <1>2
<1> QED BY <1>7, <1>8, <1>9

LEMMA WriteCoefficientsStep ==
  ASSUME IInv, NEW image \in Images, jpeg_write_coefficients(image)
  PROVE  IInv'
<1> DEFINE given == [cinfo EXCEPT !.image = image]
           c == MasterControl(given)
<1>1. cinfo \in CInfo /\ given \in CInfo
  BY ImageGiven DEF IInv, Shapes
<1>2. /\ Ready("START") /\ images < MaxImages /\ OpenStream(TRUE)
      /\ UNCHANGED <<call, tbl>>
      /\ \/ ScriptRefused(given) /\ Refuse("BAD_SCRIPT", given)
         \/ /\ ~ScriptRefused(given)
            /\ cinfo' = c
            /\ master' = [pass_type |-> IF c.optimize_coding THEN "huff_opt"
                                        ELSE "output",
                          scan_number |-> 0, pass_number |-> 0,
                          call_pass_startup |-> FALSE, is_last_pass |-> FALSE]
            /\ coef' = [whole_image |-> TRUE, iMCU_row_num |-> 0]
            /\ next_scanline' = 0
            /\ global_state' = "WRCOEFS"
            /\ out' = Stream("header")
            /\ UNCHANGED <<error, scan, entropy>>
  BY DEF jpeg_write_coefficients
<1>3. ~ScriptRefused(given) => c \in CInfo /\ ScriptLegal(c)
  BY <1>1, MasterControlLegal
<1> HIDE DEF given, c
<1>4. /\ images' \in 0 .. MaxImages /\ sent' \subseteq Tables
      /\ reader' = [tables |-> reader'.tables, interval |-> reader'.interval]
  <2>1. images' \in 0 .. MaxImages
    <3>1. images \in 0 .. MaxImages /\ images < MaxImages /\ images' = images + 1
      BY <1>2 DEF OpenStream, IInv, Shapes
    <3> QED BY <3>1, SettingsAssumption
  <2>2. sent' \subseteq Tables
    BY <1>2 DEF OpenStream, IInv, Shapes
  <2>3. reader' = [tables |-> reader'.tables, interval |-> reader'.interval]
    BY <1>2 DEF OpenStream, IInv, Shapes, KnowsNothing
  <2> QED BY <2>1, <2>2, <2>3
<1>5. ReaderKnows'
  BY <1>2 DEF OpenStream, IInv, ReaderKnows, KnowsNothing
<1>6. CASE Refuse("BAD_SCRIPT", given)
  <2> USE <1>6, <1>2 DEF Refuse, Ready, Stream
  <2>1. Shapes'
    BY <1>1, <1>4 DEF IInv, Shapes
  <2>2. Waiting' /\ MainPass' /\ Transcoding' /\ Finishing'
    BY DEF Waiting, MainPass, Transcoding, Finishing
  <2>3. Accepted' /\ Written' /\ Coded'
    BY DEF Accepted, Written, Coded
  <2> QED BY <1>5, <2>1, <2>2, <2>3 DEF IInv
<1>7. CASE ~Refuse("BAD_SCRIPT", given)
  <2> USE <1>7, <1>2 DEF Ready, Stream
  <2> DEFINE type == IF c.optimize_coding THEN "huff_opt" ELSE "output"
             n == [pass_type |-> type, scan_number |-> 0, pass_number |-> 0,
                   call_pass_startup |-> FALSE, is_last_pass |-> FALSE]
  <2>1. master' \in Master
    <3>1. master' = n
      OBVIOUS
    <3>2. type \in {"main", "huff_opt", "output"}
      OBVIOUS
    <3> HIDE DEF type
    <3>3. n \in Master
      BY <3>2 DEF Master
    <3> QED BY <3>1, <3>3
  <2>2. Shapes'
    <3>1. /\ global_state' \in {"START", "SCANNING", "RAW_OK", "WRCOEFS"}
          /\ call' = "none" /\ error' = "none"
          /\ cinfo' \in CInfo /\ next_scanline' \in Nat
          /\ out' = [part |-> "header", frame |-> NoFrame, scans |-> <<>>]
          /\ entropy' = entropy
      BY <1>3 DEF IInv, Shapes
    <3>3. coef' \in [whole_image : BOOLEAN, iMCU_row_num : Nat]
      <4> DEFINE w == TRUE
      <4>1. coef' = [whole_image |-> w, iMCU_row_num |-> 0] /\ w \in BOOLEAN
        OBVIOUS
      <4> HIDE DEF w
      <4> QED BY ONLY <4>1
    <3>2. <<>> \in Seq(WrittenScan)
      OBVIOUS
    <3> QED BY <1>4, <2>1, <3>1, <3>2, <3>3 DEF IInv, Shapes
  <2>3. Transcoding'
    BY DEF Transcoding
  <2>4. Waiting' /\ MainPass' /\ Finishing'
    BY DEF Waiting, MainPass, Finishing
  <2>5. Accepted' /\ Written' /\ Coded'
    BY <1>3 DEF Accepted, Written, Coded
  <2> QED BY <1>5, <2>2, <2>3, <2>4, <2>5 DEF IInv
<1> QED BY <1>6, <1>7

LEMMA RangeConcat ==
  ASSUME NEW S, NEW f \in Seq(S), NEW g \in Seq(S)
  PROVE  Range(f \o g) = Range(f) \cup Range(g)
<1>1. /\ Len(f) \in Nat /\ Len(g) \in Nat /\ Len(f \o g) = Len(f) + Len(g)
      /\ DOMAIN f = 1 .. Len(f) /\ DOMAIN g = 1 .. Len(g)
      /\ DOMAIN (f \o g) = 1 .. Len(f) + Len(g)
  OBVIOUS
<1>2. /\ \A i \in 1 .. Len(f) : (f \o g)[i] = f[i]
      /\ \A i \in 1 .. Len(g) : (f \o g)[Len(f) + i] = g[i]
  OBVIOUS
<1>3. ASSUME NEW x \in Range(f \o g)
      PROVE  x \in Range(f) \cup Range(g)
  <2>1. PICK i \in 1 .. Len(f) + Len(g) : x = (f \o g)[i]
    BY <1>1 DEF Range
  <2>2. CASE i <= Len(f)
    BY <1>1, <1>2, <2>1, <2>2 DEF Range
  <2>3. CASE i > Len(f)
    <3>1. i - Len(f) \in 1 .. Len(g) /\ i = Len(f) + (i - Len(f))
      BY <1>1, <2>3
    <3> QED BY <1>1, <1>2, <2>1, <3>1 DEF Range
  <2> QED BY <1>1, <2>2, <2>3
<1>4. ASSUME NEW x \in Range(f)
      PROVE  x \in Range(f \o g)
  <2>1. PICK i \in 1 .. Len(f) : x = f[i]
    BY <1>1 DEF Range
  <2>2. i \in 1 .. Len(f) + Len(g)
    BY <1>1
  <2> QED BY <1>1, <1>2, <2>1, <2>2 DEF Range
<1>5. ASSUME NEW x \in Range(g)
      PROVE  x \in Range(f \o g)
  <2>1. PICK i \in 1 .. Len(g) : x = g[i]
    BY <1>1 DEF Range
  <2>2. Len(f) + i \in 1 .. Len(f) + Len(g)
    BY <1>1
  <2> QED BY <1>1, <1>2, <2>1, <2>2 DEF Range
<1> QED BY <1>3, <1>4, <1>5

LEMMA HeaderTablesIn ==
  ASSUME NEW c \in CInfo, NEW s, ScanOf(c, s), NEW first \in BOOLEAN
  PROVE  /\ HeaderTables(c, s, first) \in Seq(Tables)
         /\ Range(HeaderTables(c, s, first)) \subseteq Tables
         /\ Range(HuffTables(c, s)) \subseteq Range(HeaderTables(c, s, first))
         /\ first => Range(QuantTables(c)) \subseteq Range(HeaderTables(c, s, first))
         /\ \A k \in 0 .. Len(HeaderTables(c, s, first)) :
              Range(SubSeq(HeaderTables(c, s, first), 1, k)) \subseteq Tables
<1> DEFINE q == IF first THEN QuantTables(c) ELSE <<>>
           h == HuffTables(c, s)
           t == HeaderTables(c, s, first)
<1>1. q \in Seq(Tables) /\ h \in Seq(Tables) /\ t = q \o h
  BY TablesIn DEF HeaderTables
<1>2. first => Range(q) = Range(QuantTables(c))
  OBVIOUS
<1> HIDE DEF q, h, t
<1>3. t \in Seq(Tables) /\ Range(t) = Range(q) \cup Range(h)
  BY <1>1, RangeConcat
<1>4. Range(t) \subseteq Tables
  BY <1>3 DEF Range
<1>5. ASSUME NEW k \in 0 .. Len(t)
      PROVE  Range(SubSeq(t, 1, k)) \subseteq Tables
  <2>1. SubSeq(t, 1, k) \in Seq(Tables)
    BY <1>3
  <2> QED BY <2>1 DEF Range
<1> QED BY <1>2, <1>3, <1>4, <1>5 DEF h, t

\* What is so once the headers of a scan are written.
LEMMA HeadersWritten ==
  ASSUME Shapes, ReaderKnows, NEW c \in CInfo, NEW s, ScanOf(c, s),
         NEW first \in BOOLEAN, NEW rows \in Nat,
         WriteHeaders(c, s, first, rows), tbl' = tbl
  PROVE  /\ ReaderKnows'
         /\ reader' = [tables |-> reader'.tables, interval |-> reader'.interval]
         /\ reader'.interval = c.restart_interval
         /\ sent \subseteq sent' /\ sent' \subseteq Tables
         /\ Range(HuffTables(c, s)) \subseteq sent'
         /\ first => Range(QuantTables(c)) \subseteq sent'
         /\ out'.part = "scan"
         /\ out' = [part |-> out'.part, frame |-> out'.frame, scans |-> out'.scans]
         /\ out'.frame = IF first THEN FrameHeader(c) ELSE out.frame
         /\ out'.scans = Append(out.scans, WithRows(s, rows))
         /\ WithRows(s, rows) \in WrittenScan /\ out'.scans \in Seq(WrittenScan)
<1> DEFINE all == Range(HeaderTables(c, s, first))
<1>1. /\ all \subseteq Tables /\ Range(HuffTables(c, s)) \subseteq all
      /\ first => Range(QuantTables(c)) \subseteq all
  BY HeaderTablesIn
<1> HIDE DEF all
<1>2. /\ sent' = sent \cup (all \ sent)
      /\ reader' = [tables |-> [t \in Tables |->
                                  IF t \in all \ sent THEN tbl[t] ELSE reader.tables[t]],
                    interval |-> IF DRIRequired(c) THEN c.restart_interval
                                 ELSE reader.interval]
      /\ last_restart_interval' = c.restart_interval
      /\ out' = [part |-> "scan",
                 frame |-> IF first THEN FrameHeader(c) ELSE out.frame,
                 scans |-> Append(out.scans, WithRows(s, rows))]
  BY DEF WriteHeaders, all
<1>3. reader'.interval = c.restart_interval
  BY <1>2 DEF DRIRequired, ReaderKnows
<1>4. sent \subseteq Tables /\ \A t \in sent : reader.tables[t] = tbl[t]
  BY DEF Shapes, ReaderKnows
<1>5. ReaderKnows'
  BY <1>1, <1>2, <1>3, <1>4 DEF ReaderKnows
<1>6. sent \subseteq sent' /\ sent' \subseteq Tables /\ all \subseteq sent'
  BY <1>1, <1>2, <1>4
<1>7. WithRows(s, rows) \in WrittenScan
  BY DEF WithRows, WrittenScan, ScanOf, Scan
<1>8. out.scans \in Seq(WrittenScan)
  BY DEF Shapes
<1> QED BY <1>1, <1>2, <1>3, <1>5, <1>6, <1>7, <1>8

LEMMA HeadersBroken ==
  ASSUME Shapes, ReaderKnows, NEW c \in CInfo, NEW s, ScanOf(c, s),
         NEW first \in BOOLEAN, HeadersFail(c, s, first), tbl' = tbl
  PROVE  /\ ReaderKnows'
         /\ reader' = [tables |-> reader'.tables, interval |-> reader'.interval]
         /\ sent' \subseteq Tables /\ error' = "CANT_SUSPEND"
         /\ out' = [part |-> "broken", frame |-> NoFrame, scans |-> <<>>]
<1>1. PICK k \in 0 .. Len(HeaderTables(c, s, first)) :
        EmitTables(SubSeq(HeaderTables(c, s, first), 1, k))
  BY DEF HeadersFail
<1> DEFINE all == Range(SubSeq(HeaderTables(c, s, first), 1, k))
<1>2. all \subseteq Tables
  BY HeaderTablesIn
<1>3. /\ sent' = sent \cup all
      /\ reader' = [reader EXCEPT !.tables =
           [t \in Tables |-> IF t \in all \ sent THEN tbl[t] ELSE @[t]]]
  BY <1>1 DEF EmitTables
<1>4. /\ last_restart_interval' = last_restart_interval
      /\ error' = "CANT_SUSPEND" /\ out' = Stream("broken")
  BY DEF HeadersFail
<1> HIDE DEF all
<1>5. /\ sent \subseteq Tables /\ \A t \in sent : reader.tables[t] = tbl[t]
      /\ reader = [tables |-> reader.tables, interval |-> reader.interval]
  BY DEF Shapes, ReaderKnows
<1>6. ReaderKnows'
  BY <1>2, <1>3, <1>4, <1>5 DEF ReaderKnows
<1> QED BY <1>2, <1>3, <1>4, <1>5, <1>6 DEF Stream

-------------------------------------------------------------------------------
(* The main pass and the passes after it *)

LEMMA StartupFailsStep ==
  ASSUME IInv, StartupFails
  PROVE  IInv'
<1>1. /\ global_state \in {"SCANNING", "RAW_OK"} /\ call = "none" /\ error = "none"
      /\ master.call_pass_startup
      /\ master' = [master EXCEPT !.call_pass_startup = FALSE]
      /\ HeadersFail(cinfo, scan, TRUE)
      /\ UNCHANGED <<global_state, call, cinfo, next_scanline, scan, entropy, coef,
                     tbl, images>>
  BY DEF StartupFails, Ready
<1>2. /\ Shapes /\ ReaderKnows /\ cinfo \in CInfo /\ ScriptLegal(cinfo)
      /\ scan = select_scan_parameters(cinfo, 0)
  BY <1>1 DEF IInv, MainPass, Accepted, Shapes
<1>3. ScanOf(cinfo, scan)
  BY <1>2, SelectIs, NumScans
<1>4. /\ ReaderKnows' /\ sent' \subseteq Tables /\ error' = "CANT_SUSPEND"
      /\ reader' = [tables |-> reader'.tables, interval |-> reader'.interval]
      /\ out' = [part |-> "broken", frame |-> NoFrame, scans |-> <<>>]
  <2>1. /\ Shapes /\ ReaderKnows /\ cinfo \in CInfo /\ ScanOf(cinfo, scan)
        /\ HeadersFail(cinfo, scan, TRUE) /\ tbl' = tbl /\ TRUE \in BOOLEAN
    BY <1>1, <1>2, <1>3
  <2> QED BY <2>1, HeadersBroken
<1>5. master \in Master
  BY <1>1 DEF IInv, Shapes
<1>6. /\ master' \in Master /\ ~master'.call_pass_startup
      /\ master'.pass_type = master.pass_type
      /\ master'.scan_number = master.scan_number
      /\ master'.pass_number = master.pass_number
      /\ (master'.is_last_pass <=> master.is_last_pass)
  BY <1>1, <1>5 DEF Master
<1>7. Shapes'
  BY <1>1, <1>4, <1>6 DEF IInv, Shapes
<1>8. MainPass'
  BY <1>1, <1>4, <1>6 DEF IInv, MainPass
<1>9. Waiting' /\ Transcoding' /\ Finishing'
  BY <1>1 DEF Waiting, Transcoding, Finishing
<1>10. Accepted' /\ Written' /\ Coded'
  BY <1>4 DEF Accepted, Written, Coded
<1> QED BY <1>4, <1>7, <1>8, <1>9, <1>10 DEF IInv

\* iMCU rows go out, or are counted, in the main pass.
LEMMA CompressStep ==
  ASSUME IInv, Ready("SCANNING") \/ Ready("RAW_OK"), NEW rows \in Nat, Compress(rows),
         UNCHANGED <<global_state, call, cinfo, scan, entropy, tbl, images>>,
         error' \in {"none", "BAD_VIRTUAL_ACCESS", "BUFFER_SIZE"}, next_scanline' \in Nat
  PROVE  IInv'
<1>1. /\ global_state \in {"SCANNING", "RAW_OK"} /\ call = "none" /\ error = "none"
      /\ global_state' = global_state /\ call' = call /\ cinfo' = cinfo
      /\ scan' = scan /\ entropy' = entropy /\ tbl' = tbl /\ images' = images
      /\ coef' = [coef EXCEPT !.iMCU_row_num = rows]
      /\ master' = [master EXCEPT !.call_pass_startup = FALSE]
  BY DEF Ready, Compress
<1>2. /\ Shapes /\ ReaderKnows /\ cinfo \in CInfo /\ ScriptLegal(cinfo)
      /\ scan = select_scan_parameters(cinfo, 0) /\ master \in Master
      /\ coef \in [whole_image : BOOLEAN, iMCU_row_num : Nat]
      /\ num_scans(cinfo) \in Nat \ {0}
  BY <1>1, NumScans DEF IInv, MainPass, Accepted, Shapes
<1>3. /\ master' \in Master /\ ~master'.call_pass_startup
      /\ master'.pass_type = master.pass_type
      /\ master'.scan_number = master.scan_number
      /\ master'.pass_number = master.pass_number
      /\ (master'.is_last_pass <=> master.is_last_pass)
  BY <1>1, <1>2 DEF Master
<1>4. coef' \in [whole_image : BOOLEAN, iMCU_row_num : Nat]
  BY <1>1, <1>2
<1>5. Waiting' /\ Transcoding' /\ Finishing'
  BY <1>1 DEF Waiting, Transcoding, Finishing
<1>6. CASE master.call_pass_startup
  <2>1. WriteHeaders(cinfo, scan, TRUE, rows)
    BY <1>6 DEF Compress
  <2>2. ScanOf(cinfo, scan)
    BY <1>2, SelectIs
  <2>3. /\ ReaderKnows' /\ sent' \subseteq Tables
        /\ reader' = [tables |-> reader'.tables, interval |-> reader'.interval]
        /\ reader'.interval = cinfo.restart_interval
        /\ Range(HuffTables(cinfo, scan)) \subseteq sent'
        /\ Range(QuantTables(cinfo)) \subseteq sent'
        /\ out'.part = "scan"
        /\ out' = [part |-> out'.part, frame |-> out'.frame, scans |-> out'.scans]
        /\ out'.frame = FrameHeader(cinfo)
        /\ out'.scans = Append(out.scans, WithRows(scan, rows))
        /\ WithRows(scan, rows) \in WrittenScan /\ out'.scans \in Seq(WrittenScan)
    <3>1. /\ Shapes /\ ReaderKnows /\ cinfo \in CInfo /\ ScanOf(cinfo, scan)
          /\ WriteHeaders(cinfo, scan, TRUE, rows) /\ tbl' = tbl /\ TRUE \in BOOLEAN
      BY <1>1, <1>2, <2>1, <2>2
    <3> QED BY <3>1, HeadersWritten
  <2>4. /\ out.scans = <<>> /\ ~entropy.gather
        /\ entropy.interval = cinfo.restart_interval
        /\ entropy.codes = [t \in Range(HuffTables(cinfo, scan)) |-> tbl[t]]
    BY <1>1, <1>6 DEF IInv, MainPass
  <2>5. Len(out'.scans) = 1 /\ out'.scans[1] = WithRows(scan, rows)
    BY <2>3, <2>4
  <2>6. Shapes'
    BY <1>1, <1>3, <1>4, <2>3 DEF IInv, Shapes
  <2>7. MainPass'
    BY <1>1, <1>3, <1>6, <2>3, <2>5 DEF IInv, MainPass
  <2>8. Accepted'
    BY <1>1, <1>2 DEF Accepted
  <2>9. Written'
    <3>1. WithRows(scan, rows).rows = rows
      BY DEF WithRows
    <3>2. DOMAIN out'.scans = {1}
      BY <2>3, <2>5
    <3> QED BY <1>1, <1>2, <2>3, <2>5, <3>1, <3>2 DEF Written
  <2>10. Coded'
    BY <1>1, <2>3, <2>4 DEF Coded, ReaderKnows
  <2> QED BY <1>5, <2>3, <2>6, <2>7, <2>8, <2>9, <2>10 DEF IInv
<1>7. CASE ~master.call_pass_startup /\ entropy.gather
  <2>1. UNCHANGED <<out, sent, reader, last_restart_interval>>
    BY <1>7 DEF Compress
  <2>2. Shapes'
    BY <1>1, <1>3, <1>4, <2>1 DEF IInv, Shapes
  <2>3. ReaderKnows'
    BY <1>1, <2>1 DEF IInv, ReaderKnows
  <2>4. MainPass'
    BY <1>1, <1>3, <1>7, <2>1 DEF IInv, MainPass
  <2>5. Accepted' /\ Written' /\ Coded'
    BY <1>1, <1>7, <2>1 DEF IInv, Accepted, Written, Coded, MainPass
  <2> QED BY <1>5, <2>2, <2>3, <2>4, <2>5 DEF IInv
<1>8. CASE ~master.call_pass_startup /\ ~entropy.gather
  <2>1. /\ out' = [out EXCEPT !.scans[1].rows = rows]
        /\ sent' = sent /\ reader' = reader
        /\ last_restart_interval' = last_restart_interval
    BY <1>8 DEF Compress
  <2>2. /\ out.part = "scan" /\ Len(out.scans) = 1
        /\ out = [part |-> out.part, frame |-> out.frame, scans |-> out.scans]
        /\ out.scans \in Seq(WrittenScan)
    BY <1>1, <1>8 DEF IInv, MainPass, Shapes
  <2>3. /\ out.frame = FrameHeader(cinfo)
        /\ out.scans[1] = WithRows(scan, out.scans[1].rows)
    <3>1. 1 \in DOMAIN out.scans /\ 1 - 1 = 0
      BY <2>2
    <3> QED BY <1>2, <2>2, <3>1 DEF IInv, Written
  <2>4. /\ out' = [part |-> out'.part, frame |-> out'.frame, scans |-> out'.scans]
        /\ out'.part = "scan" /\ out'.frame = out.frame
        /\ out'.scans = [out.scans EXCEPT ![1] = [out.scans[1] EXCEPT !.rows = rows]]
    BY <2>1, <2>2
  <2>5. [out.scans[1] EXCEPT !.rows = rows] = WithRows(scan, rows)
    BY <2>3 DEF WithRows
  <2>6. WithRows(scan, rows) \in WrittenScan
    <3>1. ScanOf(cinfo, scan)
      BY <1>2, SelectIs
    <3> QED BY <3>1 DEF WithRows, WrittenScan, ScanOf, Scan
  <2>7. /\ out'.scans \in Seq(WrittenScan) /\ Len(out'.scans) = 1
        /\ DOMAIN out'.scans = {1} /\ out'.scans[1] = WithRows(scan, rows)
    BY <2>2, <2>4, <2>5, <2>6
  <2>8. Shapes'
    BY <1>1, <1>3, <1>4, <2>1, <2>4, <2>7 DEF IInv, Shapes
  <2>9. ReaderKnows'
    BY <1>1, <2>1 DEF IInv, ReaderKnows
  <2>10. MainPass'
    BY <1>1, <1>3, <1>8, <2>1, <2>4, <2>7 DEF IInv, MainPass
  <2>11. Accepted'
    BY <1>1, <1>2 DEF Accepted
  <2>12. Written'
    <3>1. WithRows(scan, rows).rows = rows
      BY DEF WithRows
    <3>2. \A i \in DOMAIN out'.scans : i = 1 /\ i - 1 = 0
      BY <2>7
    <3>3. \A i \in DOMAIN out'.scans :
            out'.scans[i] = WithRows(select_scan_parameters(cinfo, i - 1), out'.scans[i].rows)
      BY <1>2, <2>7, <3>1, <3>2
    <3> QED BY <1>1, <1>2, <2>3, <2>4, <2>7, <3>3 DEF Written
  <2>13. Coded'
    BY <1>1, <2>1, <2>2, <2>4 DEF IInv, Coded
  <2> QED BY <1>5, <2>8, <2>9, <2>10, <2>11, <2>12, <2>13 DEF IInv
<1> QED BY <1>6, <1>7, <1>8

\* finish_pass_master
LEMMA NextPassIs ==
  ASSUME NEW p \in Master, NEW c
  PROVE  LET n == NextPass(p, c)
         IN  /\ n \in Master
             /\ n.pass_type = IF p.pass_type = "output" /\ c.optimize_coding
                              THEN "huff_opt" ELSE "output"
             /\ n.scan_number =
                  IF p.pass_type = "output" \/ (p.pass_type = "main" /\ ~c.optimize_coding)
                  THEN p.scan_number + 1 ELSE p.scan_number
             /\ n.pass_number = p.pass_number + 1
             /\ (n.is_last_pass <=> p.is_last_pass)
<1> DEFINE type == IF p.pass_type = "output" /\ c.optimize_coding THEN "huff_opt" ELSE "output"
           number == IF \/ p.pass_type = "output"
                        \/ p.pass_type = "main" /\ ~c.optimize_coding
                     THEN p.scan_number + 1 ELSE p.scan_number
           n == NextPass(p, c)
<1>1. type \in {"main", "huff_opt", "output"} /\ number \in Nat /\ p.pass_number + 1 \in Nat
  BY DEF Master
<1>2. n = [p EXCEPT !.pass_type = type, !.scan_number = number,
                    !.pass_number = p.pass_number + 1]
  BY DEF NextPass, Master
<1> HIDE DEF n, type, number
<1>3. /\ n \in Master /\ n.pass_type = type /\ n.scan_number = number
      /\ n.pass_number = p.pass_number + 1 /\ (n.is_last_pass <=> p.is_last_pass)
  BY <1>1, <1>2 DEF Master
<1> QED BY <1>3 DEF n, type, number

\* The record of the pass that follows one.
LEMMA PassAfter ==
  ASSUME NEW m \in Master, NEW c \in CInfo
  PROVE  LET n == NextPass(Prepared(m, c, FALSE), c)
         IN  /\ n \in Master
             /\ n.pass_type = IF m.pass_type = "output" /\ c.optimize_coding
                              THEN "huff_opt" ELSE "output"
             /\ n.scan_number =
                  IF m.pass_type = "output" \/ (m.pass_type = "main" /\ ~c.optimize_coding)
                  THEN m.scan_number + 1 ELSE m.scan_number
             /\ n.pass_number = m.pass_number + 1
             /\ n.is_last_pass <=> m.pass_number = total_passes(c) - 1
<1> DEFINE last == m.pass_number = total_passes(c) - 1
           p == Prepared(m, c, FALSE)
           q == [m EXCEPT !.call_pass_startup = FALSE, !.is_last_pass = last]
<1>1. last \in BOOLEAN
  BY Zenon
<1>2. p = q
  BY DEF Prepared
<1> HIDE DEF last, p
<1>3. /\ q \in Master /\ q.pass_type = m.pass_type /\ q.scan_number = m.scan_number
      /\ q.pass_number = m.pass_number /\ (q.is_last_pass <=> last)
  BY <1>1 DEF Master
<1>4. /\ p \in Master /\ p.pass_type = m.pass_type /\ p.scan_number = m.scan_number
      /\ p.pass_number = m.pass_number /\ (p.is_last_pass <=> last)
  BY <1>2, <1>3
<1>5. LET n == NextPass(p, c)
      IN  /\ n \in Master
          /\ n.pass_type = IF p.pass_type = "output" /\ c.optimize_coding
                           THEN "huff_opt" ELSE "output"
          /\ n.scan_number =
               IF p.pass_type = "output" \/ (p.pass_type = "main" /\ ~c.optimize_coding)
               THEN p.scan_number + 1 ELSE p.scan_number
          /\ n.pass_number = p.pass_number + 1
          /\ (n.is_last_pass <=> p.is_last_pass)
  BY <1>4, NextPassIs
<1> DEFINE n == NextPass(p, c)
<1> HIDE DEF n
<1>6. /\ n \in Master
      /\ n.pass_type = IF m.pass_type = "output" /\ c.optimize_coding
                       THEN "huff_opt" ELSE "output"
      /\ n.scan_number =
           IF m.pass_type = "output" \/ (m.pass_type = "main" /\ ~c.optimize_coding)
           THEN m.scan_number + 1 ELSE m.scan_number
      /\ n.pass_number = m.pass_number + 1
      /\ (n.is_last_pass <=> last)
  BY <1>4, <1>5 DEF n
<1> QED BY <1>6 DEF n, p, last

LEMMA FinishStep ==
  ASSUME IInv, FinishCompress
  PROVE  IInv'
<1>1. UNCHANGED <<global_state, cinfo, next_scanline, scan, entropy, coef,
                  last_restart_interval, images, out, reader>>
  BY DEF FinishCompress
<1>2. Accepted' /\ Written'
  BY <1>1 DEF IInv, Accepted, Written
<1>3. Shapes /\ cinfo \in CInfo /\ num_scans(cinfo) \in Nat \ {0}
      /\ total_passes(cinfo) = IF cinfo.optimize_coding THEN 2 * num_scans(cinfo)
                               ELSE num_scans(cinfo)
  BY NumScans DEF IInv, Shapes, total_passes
<1>4. CASE /\ Ready("SCANNING") \/ Ready("RAW_OK")
           /\ error' = "TOO_LITTLE_DATA"
           /\ UNCHANGED <<call, master, tbl, sent>>
  <2> USE <1>1, <1>4 DEF IInv, Ready
  <2>1. Shapes'
    BY DEF Shapes
  <2>2. ReaderKnows' /\ Waiting'
    BY DEF ReaderKnows, Waiting
  <2>3. MainPass'
    BY DEF MainPass
  <2>4. Transcoding' /\ Finishing' /\ Coded'
    BY DEF Transcoding, Finishing, Coded
  <2> QED BY <1>2, <2>1, <2>2, <2>3, <2>4
<1>5. CASE /\ Ready("SCANNING") \/ Ready("RAW_OK")
           /\ next_scanline >= cinfo.image.height
           /\ IF entropy.gather THEN OptimalTables(cinfo, scan)
              ELSE UNCHANGED <<tbl, sent>>
           /\ master' = NextPass(master, cinfo)
           /\ call' = "finish"
           /\ UNCHANGED error
  <2>1. /\ global_state \in {"SCANNING", "RAW_OK"} /\ call = "none" /\ error = "none"
        /\ call' = "finish" /\ error' = "none" /\ master' = NextPass(master, cinfo)
    BY <1>5 DEF Ready
  <2>2. /\ master \in Master /\ ~master.call_pass_startup
        /\ master.pass_type = "main" /\ master.scan_number = 0 /\ master.pass_number = 0
        /\ (master.is_last_pass <=> total_passes(cinfo) = 1)
        /\ scan = select_scan_parameters(cinfo, 0)
        /\ (entropy.gather <=> cinfo.optimize_coding)
        /\ out.part \in {"header", "scan"}
        /\ (out.part = "header" <=> cinfo.optimize_coding)
        /\ (out.part = "header" => out.scans = <<>>)
        /\ (out.part = "scan" => Len(out.scans) = 1)
    <3>1. cinfo.image.height \in Nat \ {0} /\ cinfo.optimize_coding \in BOOLEAN
      BY <1>3, CInfoFields
    <3>2. master.call_pass_startup => next_scanline = 0
      BY <2>1 DEF IInv, MainPass
    <3>3. ~master.call_pass_startup
      BY <1>5, <3>1, <3>2
    <3> QED BY <2>1, <3>3 DEF IInv, MainPass, Shapes
  <2>3. /\ master' \in Master
        /\ master'.pass_type = "output" /\ master'.pass_number = 1
        /\ master'.scan_number = IF cinfo.optimize_coding THEN 0 ELSE 1
        /\ (master'.is_last_pass <=> master.is_last_pass)
    <3>1. cinfo.optimize_coding \in BOOLEAN
      BY <1>3, CInfoFields
    <3>2. LET n == NextPass(master, cinfo)
          IN  /\ n \in Master
              /\ n.pass_type = IF master.pass_type = "output" /\ cinfo.optimize_coding
                               THEN "huff_opt" ELSE "output"
              /\ n.scan_number =
                   IF \/ master.pass_type = "output"
                      \/ master.pass_type = "main" /\ ~cinfo.optimize_coding
                   THEN master.scan_number + 1 ELSE master.scan_number
              /\ n.pass_number = master.pass_number + 1
              /\ (n.is_last_pass <=> master.is_last_pass)
      BY <2>2, NextPassIs
    <3> QED BY <2>1, <2>2, <3>1, <3>2
  <2>4. /\ sent' \subseteq sent
        /\ \A t \in sent' : tbl'[t] = tbl[t]
        /\ (~entropy.gather => sent' = sent /\ tbl' = tbl)
    <3>1. sent \subseteq Tables
      BY <1>3 DEF Shapes
    <3> QED BY <1>5, <3>1 DEF OptimalTables
  <2>5. Shapes'
    BY <1>1, <2>1, <2>3, <2>4 DEF IInv, Shapes
  <2>6. ReaderKnows' /\ Waiting'
    BY <1>1, <2>1, <2>4 DEF IInv, ReaderKnows, Waiting
  <2>7. MainPass' /\ Transcoding'
    BY <2>1 DEF MainPass, Transcoding
  <2>8. Finishing'
    <3>1. cinfo.optimize_coding \in BOOLEAN
      BY <1>3, CInfoFields
    <3>2. /\ cinfo' = cinfo /\ out' = out /\ scan' = scan
          /\ Len(out.scans) = master'.scan_number
          /\ (out.part = "header" <=> master'.scan_number = 0)
      <4>1. cinfo' = cinfo /\ out' = out /\ scan' = scan
        BY <1>1
      <4>2. CASE cinfo.optimize_coding
        <5>1. out.part = "header" /\ out.scans = <<>> /\ master'.scan_number = 0
          BY <2>2, <2>3, <4>2
        <5> QED BY <4>1, <5>1
      <4>3. CASE ~cinfo.optimize_coding
        <5>1. out.part = "scan" /\ Len(out.scans) = 1 /\ master'.scan_number = 1
          BY <2>2, <2>3, <4>3
        <5> QED BY <4>1, <5>1
      <4> QED BY <4>2, <4>3
    <3>3. IF master'.is_last_pass THEN master'.scan_number = num_scans(cinfo)
          ELSE /\ master'.scan_number < num_scans(cinfo)
               /\ master'.pass_number =
                    IF cinfo.optimize_coding THEN 2 * master'.scan_number + 1
                    ELSE master'.scan_number
      BY <1>3, <2>2, <2>3, <3>1
    <3> QED BY <2>1, <2>2, <2>3, <3>1, <3>2, <3>3 DEF Finishing
  <2>9. Coded'
    BY <1>1, <2>1, <2>2, <2>4 DEF IInv, Coded
  <2> QED BY <1>2, <2>5, <2>6, <2>7, <2>8, <2>9 DEF IInv
<1>6. CASE /\ Ready("WRCOEFS") /\ call' = "finish" /\ UNCHANGED <<error, master, tbl, sent>>
  <2>1. /\ global_state = "WRCOEFS" /\ call = "none" /\ call' = "finish"
        /\ error' = error /\ master' = master /\ tbl' = tbl /\ sent' = sent
    BY <1>6 DEF Ready
  <2>2. Shapes'
    BY <1>1, <2>1 DEF IInv, Shapes
  <2>3. ReaderKnows' /\ Waiting'
    BY <1>1, <2>1 DEF IInv, ReaderKnows, Waiting
  <2>4. MainPass' /\ Transcoding'
    BY <2>1 DEF MainPass, Transcoding
  <2>5. Finishing'
    BY <1>1, <1>3, <2>1 DEF IInv, Transcoding, Finishing, Stream
  <2>6. Coded'
    BY <1>1, <2>1 DEF IInv, Coded
  <2> QED BY <1>2, <2>2, <2>3, <2>4, <2>5, <2>6 DEF IInv
<1> QED BY <1>4, <1>5, <1>6 DEF FinishCompress

\* What is so when a pass of jpeg_finish_compress begins.
LEMMA PassBegins ==
  ASSUME IInv, PassDue
  PROVE  LET s == select_scan_parameters(cinfo, master.scan_number)
         IN  /\ error = "none" /\ call = "finish" /\ ~master.is_last_pass
             /\ global_state \in {"SCANNING", "RAW_OK", "WRCOEFS"}
             /\ Shapes /\ ReaderKnows /\ cinfo \in CInfo /\ ScriptLegal(cinfo)
             /\ cinfo.optimize_coding \in BOOLEAN
             /\ master \in Master /\ coef \in [whole_image : BOOLEAN, iMCU_row_num : Nat]
             /\ num_scans(cinfo) \in Nat \ {0} /\ master.scan_number < num_scans(cinfo)
             /\ total_passes(cinfo) = IF cinfo.optimize_coding THEN 2 * num_scans(cinfo)
                                      ELSE num_scans(cinfo)
             /\ master.pass_number =
                  IF cinfo.optimize_coding
                  THEN 2 * master.scan_number
                       + (IF master.pass_type = "output" THEN 1 ELSE 0)
                  ELSE master.scan_number
             /\ master.pass_type \in {"huff_opt", "output"}
             /\ master.pass_type = "huff_opt" => cinfo.optimize_coding
             /\ master.pass_type = "output" /\ cinfo.optimize_coding => scan = s
             /\ out.part \in {"header", "scan"} /\ Len(out.scans) = master.scan_number
             /\ (out.part = "header" <=> master.scan_number = 0)
             /\ ScanOf(cinfo, s) /\ total_iMCU_rows(cinfo) \in Nat \ {0}
             /\ ScanOf(cinfo, s) =>
                  /\ per_scan_setup(cinfo, s) \in CInfo
                  /\ Alike(cinfo, per_scan_setup(cinfo, s))
<1>1. /\ error = "none" /\ call = "finish" /\ ~master.is_last_pass
      /\ Shapes /\ ReaderKnows /\ Waiting /\ Finishing /\ Accepted
  BY DEF PassDue, IInv
<1>2. /\ global_state \in {"SCANNING", "RAW_OK", "WRCOEFS"} /\ cinfo \in CInfo
      /\ coef \in [whole_image : BOOLEAN, iMCU_row_num : Nat]
  BY <1>1 DEF Shapes, Waiting
<1>3. master \in Master
  BY <1>1, <1>2 DEF Shapes
<1>4. /\ out.part \in {"header", "scan"} /\ Len(out.scans) = master.scan_number
      /\ (out.part = "header" <=> master.scan_number = 0)
      /\ master.scan_number < num_scans(cinfo)
      /\ master.pass_number =
           IF cinfo.optimize_coding
           THEN 2 * master.scan_number + (IF master.pass_type = "output" THEN 1 ELSE 0)
           ELSE master.scan_number
      /\ master.pass_type \in {"huff_opt", "output"}
      /\ (master.pass_type = "huff_opt" => cinfo.optimize_coding)
      /\ (master.pass_type = "output" /\ cinfo.optimize_coding
            => scan = select_scan_parameters(cinfo, master.scan_number))
  BY <1>1 DEF Finishing
<1>5. ScriptLegal(cinfo)
  BY <1>1, <1>4 DEF Accepted
<1>6. ScanOf(cinfo, select_scan_parameters(cinfo, master.scan_number))
  <2>1. master.scan_number \in Nat
    BY <1>3 DEF Master
  <2> QED BY <1>2, <1>4, <1>5, <2>1, SelectIs
<1>7. /\ total_iMCU_rows(cinfo) \in Nat \ {0} /\ num_scans(cinfo) \in Nat \ {0}
      /\ cinfo.optimize_coding \in BOOLEAN
  BY <1>2, Factors, NumScans, CInfoFields
<1>8. total_passes(cinfo) = IF cinfo.optimize_coding THEN 2 * num_scans(cinfo)
                            ELSE num_scans(cinfo)
  BY <1>7 DEF total_passes
<1> QED BY <1>1, <1>2, <1>3, <1>4, <1>5, <1>6, <1>7, <1>8, PerScanSetup

LEMMA OptimizeStep ==
  ASSUME IInv, OptimizePass
  PROVE  IInv'
<1> DEFINE s == select_scan_parameters(cinfo, master.scan_number)
           c == per_scan_setup(cinfo, s)
<1>1. /\ PassDue /\ master.pass_type = "huff_opt"
      /\ cinfo' = c /\ scan' = s
      /\ \/ error' = "NOT_COMPILED" /\ UNCHANGED <<entropy, coef, tbl, sent, master>>
         \/ /\ entropy' = start_pass(c, s, TRUE)
            /\ coef' = [coef EXCEPT !.iMCU_row_num = total_iMCU_rows(c)]
            /\ OptimalTables(c, s)
            /\ master' = NextPass(Prepared(master, c, FALSE), c)
            /\ UNCHANGED error
      /\ UNCHANGED <<global_state, call, next_scanline, last_restart_interval,
                     images, out, reader>>
  BY DEF OptimizePass
<1>2. /\ error = "none" /\ call = "finish" /\ ~master.is_last_pass
      /\ global_state \in {"SCANNING", "RAW_OK", "WRCOEFS"}
      /\ Shapes /\ ReaderKnows /\ cinfo \in CInfo /\ ScriptLegal(cinfo)
      /\ cinfo.optimize_coding
      /\ master \in Master /\ coef \in [whole_image : BOOLEAN, iMCU_row_num : Nat]
      /\ num_scans(cinfo) \in Nat \ {0} /\ master.scan_number < num_scans(cinfo)
      /\ total_passes(cinfo) = 2 * num_scans(cinfo)
      /\ master.pass_number = 2 * master.scan_number
      /\ out.part \in {"header", "scan"} /\ Len(out.scans) = master.scan_number
      /\ (out.part = "header" <=> master.scan_number = 0)
      /\ ScanOf(cinfo, s) /\ total_iMCU_rows(cinfo) \in Nat \ {0}
      /\ c \in CInfo /\ Alike(cinfo, c)
  BY <1>1, PassBegins
<1>3. /\ total_iMCU_rows(c) = total_iMCU_rows(cinfo)
      /\ num_scans(c) = num_scans(cinfo) /\ total_passes(c) = total_passes(cinfo)
      /\ \A n : select_scan_parameters(c, n) = select_scan_parameters(cinfo, n)
      /\ QuantTables(c) = QuantTables(cinfo)
      /\ HuffTables(c, s) = HuffTables(cinfo, s)
      /\ FrameHeader(c) = FrameHeader(cinfo)
      /\ ScriptLegal(c) /\ c.optimize_coding = cinfo.optimize_coding
  <2> HIDE DEF c, s
  <2>1. Alike(cinfo, c)
    BY <1>2
  <2>2. /\ total_iMCU_rows(c) = total_iMCU_rows(cinfo)
        /\ num_scans(c) = num_scans(cinfo) /\ total_passes(c) = total_passes(cinfo)
        /\ \A n : select_scan_parameters(c, n) = select_scan_parameters(cinfo, n)
        /\ QuantTables(c) = QuantTables(cinfo)
        /\ HuffTables(c, s) = HuffTables(cinfo, s)
        /\ FrameHeader(c) = FrameHeader(cinfo)
        /\ (ScriptLegal(c) <=> ScriptLegal(cinfo))
    BY <2>1, AlikeDerived
  <2>3. c.optimize_coding = cinfo.optimize_coding
    BY <2>1 DEF Alike
  <2> QED BY <1>2, <2>2, <2>3
<1> HIDE DEF c
<1>4. Waiting' /\ MainPass' /\ Transcoding'
  BY <1>1, <1>2 DEF Waiting, MainPass, Transcoding
<1>5. Accepted' /\ Written'
  BY <1>1, <1>2, <1>3 DEF IInv, Accepted, Written
<1> HIDE DEF s
<1>6. CASE error' = "NOT_COMPILED" /\ UNCHANGED <<entropy, coef, tbl, sent, master>>
  <2>1. Shapes'
    BY <1>1, <1>2, <1>6 DEF Shapes
  <2>2. ReaderKnows'
    BY <1>1, <1>2, <1>6 DEF ReaderKnows
  <2>3. Finishing'
    BY <1>1, <1>2, <1>3, <1>6 DEF Finishing
  <2>4. Coded'
    BY <1>1, <1>2, <1>3, <1>6 DEF IInv, Coded
  <2> QED BY <1>4, <1>5, <2>1, <2>2, <2>3, <2>4 DEF IInv
<1>7. CASE /\ entropy' = start_pass(c, s, TRUE)
           /\ coef' = [coef EXCEPT !.iMCU_row_num = total_iMCU_rows(c)]
           /\ OptimalTables(c, s)
           /\ master' = NextPass(Prepared(master, c, FALSE), c)
           /\ UNCHANGED error
  <2>1. /\ entropy' = [gather |-> entropy'.gather, interval |-> entropy'.interval,
                       codes |-> entropy'.codes]
        /\ entropy'.gather \in BOOLEAN /\ entropy'.gather
    <3>1. entropy' = [gather |-> TRUE, interval |-> c.restart_interval, codes |-> <<>>]
      BY <1>7 DEF start_pass
    <3> QED BY <3>1
  <2>2. coef' \in [whole_image : BOOLEAN, iMCU_row_num : Nat]
    BY <1>2, <1>3, <1>7
  <2>3. /\ sent' = sent \ Range(HuffTables(cinfo, s))
        /\ \A t \in sent' : tbl'[t] = tbl[t]
    <3>1. sent \subseteq Tables
      BY <1>2 DEF Shapes
    <3> QED BY <1>3, <1>7, <3>1 DEF OptimalTables
  <2>4. /\ master' \in Master /\ master'.pass_type = "output"
        /\ master'.scan_number = master.scan_number
        /\ master'.pass_number = master.pass_number + 1
        /\ (master'.is_last_pass <=> master.pass_number = total_passes(c) - 1)
    <3>1. LET n == NextPass(Prepared(master, c, FALSE), c)
          IN  /\ n \in Master
              /\ n.pass_type = IF master.pass_type = "output" /\ c.optimize_coding
                               THEN "huff_opt" ELSE "output"
              /\ n.scan_number =
                   IF \/ master.pass_type = "output"
                      \/ master.pass_type = "main" /\ ~c.optimize_coding
                   THEN master.scan_number + 1 ELSE master.scan_number
              /\ n.pass_number = master.pass_number + 1
              /\ (n.is_last_pass <=> master.pass_number = total_passes(c) - 1)
      BY <1>2, PassAfter
    <3> QED BY <1>1, <1>7, <3>1
  <2>5. Shapes'
    BY <1>1, <1>2, <1>7, <2>1, <2>2, <2>3, <2>4 DEF Shapes
  <2>6. ReaderKnows'
    BY <1>1, <1>2, <2>3 DEF ReaderKnows
  <2>7. Finishing'
    <3>1. master.scan_number \in Nat
      BY <1>2 DEF Master
    <3>2. ~master'.is_last_pass
      BY <1>2, <1>3, <2>4, <3>1
    <3>3. master'.pass_number = 2 * master'.scan_number + 1
      BY <1>2, <2>4
    <3>4. scan' = select_scan_parameters(c, master'.scan_number)
      BY <1>1, <1>3, <2>4 DEF s
    <3> QED BY <1>1, <1>2, <1>3, <2>4, <3>2, <3>3, <3>4 DEF Finishing
  <2>8. Coded'
    <3>1. \A t \in Range(QuantTables(cinfo)) : t \notin Range(HuffTables(cinfo, s))
      BY <1>2, TablesIn
    <3>2. out.part = "scan" => Range(QuantTables(cinfo)) \subseteq sent
      BY DEF IInv, Coded
    <3> QED BY <1>1, <1>3, <2>1, <2>3, <3>1, <3>2 DEF Coded
  <2> QED BY <1>4, <1>5, <2>5, <2>6, <2>7, <2>8 DEF IInv
<1> QED BY <1>1, <1>6, <1>7

LEMMA OutputStep ==
  ASSUME IInv, OutputPass
  PROVE  IInv'
<1> DEFINE skip == master.pass_type = "huff_opt"
           m == IF skip THEN Skipped(master) ELSE master
           next == select_scan_parameters(cinfo, m.scan_number)
           s == select_scan_parameters(cinfo, master.scan_number)
           c == IF SetupDue(skip) THEN per_scan_setup(cinfo, s) ELSE cinfo
           first == master.scan_number = 0
<1>1. PassDue
  BY DEF OutputPass
<1>2. /\ error = "none" /\ call = "finish" /\ ~master.is_last_pass
      /\ global_state \in {"SCANNING", "RAW_OK", "WRCOEFS"}
      /\ Shapes /\ ReaderKnows /\ cinfo \in CInfo /\ ScriptLegal(cinfo)
      /\ cinfo.optimize_coding \in BOOLEAN
      /\ master \in Master /\ coef \in [whole_image : BOOLEAN, iMCU_row_num : Nat]
      /\ num_scans(cinfo) \in Nat \ {0} /\ master.scan_number < num_scans(cinfo)
      /\ total_passes(cinfo) = IF cinfo.optimize_coding THEN 2 * num_scans(cinfo)
                               ELSE num_scans(cinfo)
      /\ master.pass_number =
           IF cinfo.optimize_coding
           THEN 2 * master.scan_number + (IF master.pass_type = "output" THEN 1 ELSE 0)
           ELSE master.scan_number
      /\ master.pass_type \in {"huff_opt", "output"}
      /\ (master.pass_type = "huff_opt" => cinfo.optimize_coding)
      /\ (master.pass_type = "output" /\ cinfo.optimize_coding => scan = s)
      /\ out.part \in {"header", "scan"} /\ Len(out.scans) = master.scan_number
      /\ (out.part = "header" <=> master.scan_number = 0)
      /\ ScanOf(cinfo, s) /\ total_iMCU_rows(cinfo) \in Nat \ {0}
      /\ per_scan_setup(cinfo, s) \in CInfo /\ Alike(cinfo, per_scan_setup(cinfo, s))
  BY <1>1, PassBegins
<1>3. /\ m \in Master /\ m.scan_number = master.scan_number
      /\ m.pass_type = "output"
      /\ m.pass_number = IF cinfo.optimize_coding THEN 2 * master.scan_number + 1
                         ELSE master.scan_number
      /\ (m.is_last_pass <=> master.is_last_pass)
  <2>1. CASE skip
    <3> DEFINE number == master.pass_number + 1
               n == [master EXCEPT !.pass_type = "output", !.pass_number = number]
    <3>1. m = n
      BY <1>2, <2>1 DEF Skipped, Master
    <3>2. master.pass_number + 1 = 2 * master.scan_number + 1
      BY <1>2, <2>1
    <3>3. number \in Nat
      BY <1>2 DEF Master
    <3> HIDE DEF m, number
    <3>4. n \in Master /\ n.scan_number = master.scan_number /\ n.pass_type = "output"
          /\ n.pass_number = number /\ (n.is_last_pass <=> master.is_last_pass)
      BY <1>2, <3>3 DEF Master
    <3> QED BY <1>2, <2>1, <3>1, <3>2, <3>4 DEF number
  <2>2. CASE ~skip
    <3>1. m = master
      BY <2>2
    <3> HIDE DEF m
    <3> QED BY <1>2, <2>2, <3>1
  <2> QED BY <2>1, <2>2
<1>4. next = s /\ (m.scan_number = 0 <=> first) /\ first \in BOOLEAN
  BY <1>3, Zenon
<1>5. (IF SetupDue(skip) THEN next ELSE scan) = s
  BY <1>2, <1>4 DEF SetupDue
<1>6. c \in CInfo /\ Alike(cinfo, c)
  BY <1>2 DEF Alike
<1>7. /\ total_iMCU_rows(c) = total_iMCU_rows(cinfo)
      /\ num_scans(c) = num_scans(cinfo) /\ total_passes(c) = total_passes(cinfo)
      /\ \A n : select_scan_parameters(c, n) = select_scan_parameters(cinfo, n)
      /\ QuantTables(c) = QuantTables(cinfo)
      /\ FrameHeader(c) = FrameHeader(cinfo)
      /\ ScriptLegal(c) /\ c.optimize_coding = cinfo.optimize_coding
  <2> HIDE DEF c, s
  <2>1. Alike(cinfo, c)
    BY <1>6
  <2>2. /\ total_iMCU_rows(c) = total_iMCU_rows(cinfo)
        /\ num_scans(c) = num_scans(cinfo) /\ total_passes(c) = total_passes(cinfo)
        /\ \A n : select_scan_parameters(c, n) = select_scan_parameters(cinfo, n)
        /\ QuantTables(c) = QuantTables(cinfo)
        /\ FrameHeader(c) = FrameHeader(cinfo)
        /\ (ScriptLegal(c) <=> ScriptLegal(cinfo))
    BY <2>1, AlikeDerived
  <2>3. c.optimize_coding = cinfo.optimize_coding
    BY <2>1 DEF Alike
  <2> QED BY <1>2, <2>2, <2>3
<1>8. ScanOf(c, s)
  <2>1. c.components = cinfo.components
    BY <1>6 DEF Alike
  <2> HIDE DEF c, s
  <2> QED BY <1>2, <2>1 DEF ScanOf, Components
<1>9. /\ cinfo' = c /\ scan' = s /\ entropy' = start_pass(c, s, FALSE)
      /\ coef' = [coef EXCEPT !.iMCU_row_num = total_iMCU_rows(c)]
      /\ UNCHANGED <<global_state, call, next_scanline, tbl, images>>
  BY <1>5 DEF OutputPass
<1>15. \/ HeadersFail(c, s, first) /\ master' = m
       \/ /\ WriteHeaders(c, s, first, total_iMCU_rows(c))
          /\ master' = NextPass(Prepared(m, c, FALSE), c)
          /\ UNCHANGED error
  <2>1. first = (m.scan_number = 0)
    BY <1>3
  <2> HIDE DEF m, first
  <2> QED BY <1>4, <1>5, <2>1 DEF OutputPass, m
<1> HIDE DEF skip, m, next, s, c, first
<1>10. Waiting' /\ MainPass' /\ Transcoding'
  BY <1>2, <1>9 DEF Waiting, MainPass, Transcoding
<1>11. coef' \in [whole_image : BOOLEAN, iMCU_row_num : Nat]
  BY <1>2, <1>7, <1>9
<1>12. /\ entropy' = [gather |-> entropy'.gather, interval |-> entropy'.interval,
                      codes |-> entropy'.codes]
       /\ entropy'.gather \in BOOLEAN /\ ~entropy'.gather
       /\ entropy'.interval = c.restart_interval
       /\ entropy'.codes = [t \in Range(HuffTables(c, s)) |-> tbl[t]]
  <2>1. entropy' = [gather |-> FALSE, interval |-> c.restart_interval,
                    codes |-> [t \in Range(HuffTables(c, s)) |-> tbl[t]]]
    BY <1>9 DEF start_pass
  <2> QED BY <2>1
<1>13. CASE HeadersFail(c, s, first) /\ master' = m
  <2>1. /\ ReaderKnows' /\ sent' \subseteq Tables /\ error' = "CANT_SUSPEND"
        /\ reader' = [tables |-> reader'.tables, interval |-> reader'.interval]
        /\ out' = [part |-> "broken", frame |-> NoFrame, scans |-> <<>>]
    <3>1. /\ Shapes /\ ReaderKnows /\ c \in CInfo /\ ScanOf(c, s)
          /\ first \in BOOLEAN /\ HeadersFail(c, s, first) /\ tbl' = tbl
      BY <1>2, <1>4, <1>6, <1>8, <1>9, <1>13
    <3> QED BY <3>1, HeadersBroken
  <2>2. Shapes'
    <3>1. master' \in Master /\ cinfo' \in CInfo /\ <<>> \in Seq(WrittenScan)
      BY <1>3, <1>6, <1>9, <1>13
    <3>2. /\ global_state' = global_state /\ call' = call
          /\ next_scanline' = next_scanline /\ images' = images
      BY <1>9
    <3> QED BY <1>2, <1>11, <1>12, <2>1, <3>1, <3>2 DEF Shapes
  <2>3. Finishing'
    BY <1>2, <1>3, <1>7, <1>9, <1>13, <2>1 DEF Finishing
  <2>4. Accepted' /\ Written' /\ Coded'
    BY <2>1 DEF Accepted, Written, Coded
  <2> QED BY <1>10, <2>1, <2>2, <2>3, <2>4 DEF IInv
<1>14. CASE /\ WriteHeaders(c, s, first, total_iMCU_rows(c))
            /\ master' = NextPass(Prepared(m, c, FALSE), c)
            /\ UNCHANGED error
  <2> DEFINE w == WithRows(s, total_iMCU_rows(c))
  <2>1. /\ ReaderKnows' /\ sent \subseteq sent' /\ sent' \subseteq Tables
        /\ reader' = [tables |-> reader'.tables, interval |-> reader'.interval]
        /\ reader'.interval = c.restart_interval
        /\ Range(HuffTables(c, s)) \subseteq sent'
        /\ (first => Range(QuantTables(c)) \subseteq sent')
        /\ out'.part = "scan"
        /\ out' = [part |-> out'.part, frame |-> out'.frame, scans |-> out'.scans]
        /\ out'.frame = IF first THEN FrameHeader(c) ELSE out.frame
        /\ out'.scans = Append(out.scans, w)
        /\ w \in WrittenScan /\ out'.scans \in Seq(WrittenScan)
    <3>1. total_iMCU_rows(c) \in Nat
      BY <1>2, <1>7
    <3>2. /\ Shapes /\ ReaderKnows /\ c \in CInfo /\ ScanOf(c, s)
          /\ first \in BOOLEAN /\ tbl' = tbl
          /\ WriteHeaders(c, s, first, total_iMCU_rows(c))
      BY <1>2, <1>4, <1>6, <1>8, <1>9, <1>14
    <3> QED BY <3>1, <3>2, HeadersWritten
  <2>2. w = WithRows(s, w.rows)
    BY DEF WithRows
  <2> HIDE DEF w
  <2>3. /\ master' \in Master
        /\ master'.pass_type = IF c.optimize_coding THEN "huff_opt" ELSE "output"
        /\ master'.scan_number = master.scan_number + 1
        /\ master'.pass_number = m.pass_number + 1
        /\ (master'.is_last_pass <=> m.pass_number = total_passes(c) - 1)
    <3>1. LET n == NextPass(Prepared(m, c, FALSE), c)
          IN  /\ n \in Master
              /\ n.pass_type = IF m.pass_type = "output" /\ c.optimize_coding
                               THEN "huff_opt" ELSE "output"
              /\ n.scan_number =
                   IF \/ m.pass_type = "output"
                      \/ m.pass_type = "main" /\ ~c.optimize_coding
                   THEN m.scan_number + 1 ELSE m.scan_number
              /\ n.pass_number = m.pass_number + 1
              /\ (n.is_last_pass <=> m.pass_number = total_passes(c) - 1)
      BY <1>3, <1>6, PassAfter
    <3> QED BY <1>2, <1>3, <1>7, <1>14, <3>1
  <2>4. master.scan_number \in Nat /\ (first <=> master.scan_number = 0)
    BY <1>2 DEF Master, first
  <2>5. Shapes'
    BY <1>2, <1>6, <1>9, <1>11, <1>12, <1>14, <2>1, <2>3 DEF Shapes
  <2>6. /\ out.scans \in Seq(WrittenScan)
        /\ Len(out'.scans) = master.scan_number + 1
        /\ DOMAIN out'.scans = 1 .. master.scan_number + 1
        /\ out'.scans[master.scan_number + 1] = w
        /\ \A i \in 1 .. master.scan_number : out'.scans[i] = out.scans[i]
    <3> DEFINE old == out.scans
               new == out'.scans
               n == master.scan_number
    <3>1. old \in Seq(WrittenScan)
      BY <1>2 DEF Shapes
    <3>2. Len(old) = n /\ n \in Nat
      BY <1>2, <2>4
    <3>3. new = Append(old, w) /\ w \in WrittenScan
      BY <2>1
    <3> HIDE DEF old, new, n, w
    <3>4. /\ Len(new) = n + 1 /\ DOMAIN new = 1 .. n + 1 /\ new[n + 1] = w
          /\ \A i \in 1 .. n : new[i] = old[i]
      BY <3>1, <3>2, <3>3
    <3> QED BY <3>1, <3>4 DEF old, new, n
  <2>7. Finishing'
    <3>1. m.pass_number = IF c.optimize_coding THEN 2 * master.scan_number + 1
                          ELSE master.scan_number
      BY <1>3, <1>7
    <3>2. IF master'.is_last_pass THEN master'.scan_number = num_scans(c)
          ELSE /\ master'.scan_number < num_scans(c)
               /\ master'.pass_number = IF c.optimize_coding THEN 2 * master'.scan_number
                                        ELSE master'.scan_number
      <4>1. CASE c.optimize_coding
        <5>1. cinfo.optimize_coding
          BY <1>7, <4>1
        <5>2. /\ total_passes(c) = 2 * num_scans(c) /\ num_scans(c) \in Nat
              /\ master.scan_number < num_scans(c)
              /\ m.pass_number = 2 * master.scan_number + 1
              /\ master'.pass_number = 2 * master.scan_number + 2
          BY <1>2, <1>3, <1>7, <2>3, <2>4, <5>1
        <5>3. master'.scan_number = master.scan_number + 1
              /\ (master'.is_last_pass
                    <=> 2 * master.scan_number + 1 = 2 * num_scans(c) - 1)
          BY <2>3, <5>2
        <5>4. master'.is_last_pass => master'.scan_number = num_scans(c)
          BY <2>4, <5>2, <5>3
        <5>5. ~master'.is_last_pass => master'.scan_number < num_scans(c)
          BY <2>4, <5>2, <5>3
        <5>6. master'.pass_number = 2 * master'.scan_number
          BY <2>4, <5>2, <5>3
        <5> QED BY <4>1, <5>4, <5>5, <5>6
      <4>2. CASE ~c.optimize_coding
        <5>1. ~cinfo.optimize_coding
          BY <1>7, <4>2
        <5>2. /\ total_passes(c) = num_scans(c) /\ num_scans(c) \in Nat
              /\ master.scan_number < num_scans(c)
              /\ m.pass_number = master.scan_number
              /\ master'.pass_number = master.scan_number + 1
          BY <1>2, <1>3, <1>7, <2>3, <2>4, <5>1
        <5>3. master'.scan_number = master.scan_number + 1
              /\ (master'.is_last_pass <=> master.scan_number = num_scans(c) - 1)
          BY <2>3, <5>2
        <5>4. master'.is_last_pass => master'.scan_number = num_scans(c)
          BY <2>4, <5>2, <5>3
        <5>5. ~master'.is_last_pass => master'.scan_number < num_scans(c)
          BY <2>4, <5>2, <5>3
        <5> QED BY <4>2, <5>2, <5>3, <5>4, <5>5
      <4> QED BY <4>1, <4>2
    <3>3. master'.scan_number # 0
      BY <2>3, <2>4
    <3> QED BY <1>2, <1>7, <1>9, <2>1, <2>3, <2>6, <3>2, <3>3 DEF Finishing
  <2>8. Accepted'
    BY <1>7, <1>9 DEF Accepted
  <2>9. Written'
    <3>1. out'.frame = FrameHeader(c)
      <4>1. CASE first
        BY <2>1, <4>1
      <4>2. CASE ~first
        <5>1. out.part = "scan"
          BY <1>2, <2>4, <4>2
        <5> QED BY <1>7, <2>1, <4>2, <5>1 DEF IInv, Written
      <4> QED BY <1>4, <4>1, <4>2
    <3>2. ASSUME NEW i \in 1 .. master.scan_number + 1
          PROVE  out'.scans[i] = WithRows(select_scan_parameters(c, i - 1),
                                          out'.scans[i].rows)
      <4>1. CASE i = master.scan_number + 1
        <5>1. i - 1 = master.scan_number
          BY <2>4, <4>1
        <5>2. select_scan_parameters(c, i - 1) = s
          BY <1>7, <5>1 DEF s
        <5> QED BY <2>2, <2>6, <4>1, <5>2
      <4>2. CASE i # master.scan_number + 1
        <5>1. i \in 1 .. master.scan_number /\ i \in DOMAIN out.scans
          BY <1>2, <2>4, <2>6, <4>2
        <5>2. out.part = "scan"
          BY <1>2, <2>4, <5>1
        <5>3. out.scans[i] = WithRows(select_scan_parameters(cinfo, i - 1),
                                      out.scans[i].rows)
          BY <5>1, <5>2 DEF IInv, Written
        <5> QED BY <1>7, <2>6, <5>1, <5>3
      <4> QED BY <4>1, <4>2
    <3>3. Len(out'.scans) \in 1 .. num_scans(c)
      BY <1>2, <1>7, <2>4, <2>6
    <3> QED BY <1>9, <2>1, <2>6, <3>1, <3>2, <3>3 DEF Written
  <2>10. Coded'
    <3>1. Range(QuantTables(c)) \subseteq sent'
      <4>1. CASE first
        BY <2>1, <4>1
      <4>2. CASE ~first
        <5>1. out.part = "scan"
          BY <1>2, <2>4, <4>2
        <5> QED BY <1>7, <2>1, <5>1 DEF IInv, Coded
      <4> QED BY <1>4, <4>1, <4>2
    <3> QED BY <1>9, <1>12, <2>1, <3>1 DEF Coded
  <2> QED BY <1>10, <2>1, <2>5, <2>7, <2>8, <2>9, <2>10 DEF IInv
<1> QED BY <1>13, <1>14, <1>15

LEMMA ScanlinesStep ==
  ASSUME IInv, NEW num_lines \in LineCounts, jpeg_write_scanlines(num_lines)
  PROVE  IInv'
<1> DEFINE lines == LinesTaken(num_lines)
           full == RowsIn(cinfo, lines)
<1>1. PICK rows \in coef.iMCU_row_num .. full :
        Compress(rows) /\ next_scanline' = NextLine(lines, full, rows)
  BY DEF jpeg_write_scanlines
<1>2. /\ cinfo \in CInfo /\ num_lines \in Nat /\ next_scanline \in Nat
      /\ coef.iMCU_row_num \in Nat
      /\ cinfo.image.height \in Nat \ {0}
      /\ LinesPerRow(cinfo) \in Nat \ {0} /\ total_iMCU_rows(cinfo) \in Nat \ {0}
  BY SettingsAssumption, CInfoFields, Factors DEF IInv, Shapes
<1>3. lines \in Nat /\ full \in Int
  <2>1. lines \in Nat
    BY <1>2 DEF LinesTaken, Minimum
  <2> HIDE DEF lines
  <2>2. lines \div LinesPerRow(cinfo) \in Int
    BY <1>2, <2>1, DivIs
  <2> QED BY <1>2, <2>1, <2>2 DEF RowsIn
<1> HIDE DEF lines, full
<1>4. rows \in Nat
  BY <1>1, <1>2, <1>3
<1>5. next_scanline' \in Nat
  <2>1. (rows + 1) * LinesPerRow(cinfo) \in Nat \ {0}
    BY <1>2, <1>4, PositiveProduct
  <2>2. Full(cinfo, rows) \in Nat \ {0}
    BY <1>2, <2>1 DEF Full, Minimum
  <2> QED BY <1>1, <1>3, <2>2 DEF NextLine
<1>6. /\ Ready("SCANNING") /\ error' = error
      /\ UNCHANGED <<global_state, call, cinfo, scan, entropy, tbl, images>>
  BY DEF jpeg_write_scanlines
<1>7. error' \in {"none", "BAD_VIRTUAL_ACCESS", "BUFFER_SIZE"}
  BY <1>6 DEF Ready
<1> QED BY <1>1, <1>4, <1>5, <1>6, <1>7, CompressStep

LEMMA RawStep ==
  ASSUME IInv, NEW num_lines, jpeg_write_raw_data(num_lines)
  PROVE  IInv'
<1>1. PICK done \in 0 .. 1 :
        /\ Compress(coef.iMCU_row_num + done)
        /\ error' \in {"none", "BAD_VIRTUAL_ACCESS", "BUFFER_SIZE"}
        /\ next_scanline' = next_scanline + done * lines_per_iMCU_row
  BY DEF jpeg_write_raw_data
<1>2. /\ cinfo \in CInfo /\ next_scanline \in Nat /\ coef.iMCU_row_num \in Nat
      /\ max_v_samp_factor(cinfo) \in Nat /\ DCTSIZE \in Nat
  BY Factors, ScriptAssumption DEF IInv, Shapes
<1>3. coef.iMCU_row_num + done \in Nat /\ next_scanline' \in Nat
  <2> DEFINE b == done * lines_per_iMCU_row
  <2>1. lines_per_iMCU_row \in Nat
    BY <1>2 DEF lines_per_iMCU_row
  <2>2. b \in Nat
    BY <2>1
  <2>3. next_scanline' = next_scanline + b
    BY <1>1
  <2> HIDE DEF b
  <2>4. coef.iMCU_row_num + done \in Nat
    BY <1>2
  <2> QED BY <1>2, <2>2, <2>3, <2>4
<1>4. /\ Ready("RAW_OK")
      /\ UNCHANGED <<global_state, call, cinfo, scan, entropy, tbl, images>>
  BY DEF jpeg_write_raw_data
<1>5. error' \in {"none", "BAD_VIRTUAL_ACCESS", "BUFFER_SIZE"}
  BY <1>1
<1> QED BY <1>1, <1>3, <1>4, <1>5, CompressStep

LEMMA NextIInv == IInv /\ [Next]_vars => IInv'
<1> SUFFICES ASSUME IInv, [Next]_vars  PROVE IInv'
  OBVIOUS
<1>1. CASE Next
  BY <1>1, SetParametersStep, SuppressStep, WriteTablesStep, StartStep,
     WriteCoefficientsStep, StartupFailsStep, ScanlinesStep, RawStep, FinishStep,
     OptimizeStep, OutputStep, TrailerStep, AbortStep, BadCallStep
  DEF Next
<1>2. CASE UNCHANGED vars
  BY <1>2, IdleStep
<1> QED BY <1>1, <1>2

LEMMA InvariantHolds == Spec => []IInv
BY InitIInv, NextIInv, PTL DEF Spec

-------------------------------------------------------------------------------
(* The reader *)

\* What a decoder accepts depends on the parameters of the scans up to this one.
LEMMA AcceptsSame ==
  ASSUME NEW a, NEW b, NEW i \in Nat \ {0}, NEW lim \in Int, DecoderAccepts(a, i, lim),
         \A j \in 1 .. i : /\ b[j].comps = a[j].comps /\ b[j].Ss = a[j].Ss
                           /\ b[j].Se = a[j].Se /\ b[j].Ah = a[j].Ah
                           /\ b[j].Al = a[j].Al
  PROVE  DecoderAccepts(b, i, lim)
<1>1. ASSUME NEW c, NEW k
      PROVE  last_bitpos(b, i, c, k) = last_bitpos(a, i, c, k)
  <2> DEFINE H(s) == {j \in 1 .. i - 1 : c \in Range(s[j].comps) /\ k \in s[j].Ss .. s[j].Se}
             L(s) == IF H(s) = {} THEN -1 ELSE s[Max(H(s))].Al
  <2>1. last_bitpos(a, i, c, k) = L(a) /\ last_bitpos(b, i, c, k) = L(b)
    BY DEF last_bitpos
  <2>2. \A j \in 1 .. i - 1 : j \in 1 .. i
    OBVIOUS
  <2>3. H(b) = H(a)
    BY <2>2
  <2>4. CASE H(a) = {}
    BY <2>1, <2>3, <2>4
  <2>5. CASE H(a) # {}
    <3> DEFINE S == H(a)
    <3>1. S \in SUBSET Nat /\ \A j \in S : j <= i
      OBVIOUS
    <3>2. \A j \in S : j \in 1 .. i
      OBVIOUS
    <3> HIDE DEF S
    <3>3. Max(S) \in S
      BY <2>5, <3>1, MaxIs DEF S
    <3>4. Max(S) \in 1 .. i
      BY <3>2, <3>3
    <3>5. b[Max(S)].Al = a[Max(S)].Al
      BY <3>4
    <3> QED BY <2>1, <2>3, <2>5, <3>5 DEF S
  <2> QED BY <2>4, <2>5
<1>2. /\ b[i].comps = a[i].comps /\ b[i].Ss = a[i].Ss /\ b[i].Se = a[i].Se
      /\ b[i].Ah = a[i].Ah /\ b[i].Al = a[i].Al
  OBVIOUS
<1>3. \A c, k : last_bitpos(b, i, c, k) = last_bitpos(a, i, c, k)
  BY <1>1
<1> QED BY <1>2, <1>3 DEF DecoderAccepts

\* A block size is known by the number of its coefficients.
LEMMA SizeOfBlock ==
  ASSUME NEW b \in 1 .. 2 * DCTSIZE
  PROVE  (CHOOSE x \in 1 .. 2 * DCTSIZE : x * x - 1 = b * b - 1) = b
<1>1. DCTSIZE \in Nat
  BY ScriptAssumption
<1>2. ASSUME NEW x \in 1 .. 2 * DCTSIZE, x * x - 1 = b * b - 1
      PROVE  x = b
  <2>1. x \in Nat \ {0} /\ b \in Nat \ {0} /\ x \in Int /\ b \in Int
    BY <1>1
  <2>2. x * x \in Int /\ b * b \in Int /\ x * b \in Int /\ b * x \in Int /\ x * b = b * x
    BY <2>1
  <2>3. x < b => x * x < b * x /\ x * b < b * b
    BY <2>1, ProductOrder
  <2>4. b < x => b * x < x * x /\ b * b < x * b
    BY <2>1, ProductOrder
  <2> DEFINE xx == x * x
             bb == b * b
             xb == x * b
             bx == b * x
  <2>5. xx \in Int /\ bb \in Int /\ xb \in Int /\ xb = bx /\ xx - 1 = bb - 1
        /\ (x < b => xx < bx /\ xb < bb) /\ (b < x => bx < xx /\ bb < xb)
    BY <1>2, <2>2, <2>3, <2>4
  <2> HIDE DEF xx, bb, xb, bx
  <2> QED BY <2>1, <2>5
<1> QED BY <1>2

LEMMA InStep == IInv => ReaderInStep
<1> SUFFICES ASSUME IInv  PROVE ReaderInStep
  OBVIOUS
<1>1. ScanDecodable
  <2> SUFFICES ASSUME out.part = "scan", error = "none", ~entropy.gather
               PROVE  /\ \A t \in DOMAIN entropy.codes :
                           reader.tables[t] = entropy.codes[t]
                      /\ \A t \in Range(QuantTables(cinfo)) : reader.tables[t] = tbl[t]
    BY DEF ScanDecodable
  <2> QED BY DEF IInv, Coded, ReaderKnows
<1>2. RestartAgreed
  BY DEF RestartAgreed, IInv, Coded
<1>3. ScansUnderstood
  <2> SUFFICES ASSUME out.part \in {"scan", "done"}
               PROVE  /\ BlockSizeRead = cinfo.block_size
                      /\ out.frame.progressive =>
                           \A i \in DOMAIN out.scans :
                             DecoderAccepts(out.scans, i, LimSe(BlockSizeRead))
    BY DEF ScansUnderstood
  <2> DEFINE b == cinfo.block_size
             first == select_scan_parameters(cinfo, 0)
  <2>1. /\ cinfo \in CInfo /\ ScriptLegal(cinfo)
        /\ out.frame = FrameHeader(cinfo)
        /\ out.scans \in Seq(WrittenScan) /\ Len(out.scans) \in 1 .. num_scans(cinfo)
        /\ \A i \in DOMAIN out.scans :
             out.scans[i] = WithRows(select_scan_parameters(cinfo, i - 1),
                                     out.scans[i].rows)
    BY DEF IInv, Shapes, Accepted, Written
  <2>2. /\ b \in 1 .. 2 * DCTSIZE /\ b \in Nat \ {0} /\ cinfo.scan_info \in Seq(Scan)
        /\ DCTSIZE \in Nat /\ cinfo.progressive_mode \in BOOLEAN
        /\ cinfo.arith_code \in BOOLEAN
    BY <2>1, CInfoFields, ScriptAssumption
  <2>3. /\ (out.frame.progressive <=> cinfo.progressive_mode)
        /\ (out.frame.baseline => b = DCTSIZE)
        /\ out.frame.pseudo_Se = IF cinfo.progressive_mode /\ b # DCTSIZE
                                 THEN b * b - 1 ELSE -1
    <3> DEFINE baseline == /\ ~cinfo.arith_code /\ ~cinfo.progressive_mode
                           /\ cinfo.block_size = DCTSIZE
    <3>1. out.frame.progressive = cinfo.progressive_mode
          /\ out.frame.baseline = baseline
          /\ out.frame.pseudo_Se = IF cinfo.progressive_mode /\ b # DCTSIZE
                                   THEN b * b - 1 ELSE -1
      BY <2>1 DEF FrameHeader
    <3>2. baseline => b = DCTSIZE
      OBVIOUS
    <3>3. out.frame.baseline => b = DCTSIZE
      BY <3>1, <3>2, Zenon
    <3>4. out.frame.progressive <=> cinfo.progressive_mode
      BY <3>1, Zenon
    <3> QED BY <3>1, <3>3, <3>4
  <2>4. b * b - 1 # -1 /\ b * b \in Int
    <3>1. b * b \in Nat \ {0}
      BY <2>2, PositiveProduct
    <3> QED BY <3>1
  <2>5. 1 \in DOMAIN out.scans
    BY <2>1
  <2>6. ~cinfo.progressive_mode => out.scans[1].Se = b * b - 1
    <3>1. out.scans[1].Se = first.Se
      <4>1. 1 - 1 = 0
        OBVIOUS
      <4>2. out.scans[1] = WithRows(first, out.scans[1].rows)
        BY <2>1, <2>5, <4>1
      <4> QED BY <4>2 DEF WithRows
    <3> QED BY <3>1 DEF select_scan_parameters
  <2>7. BlockSizeRead = b
    <3> DEFINE Se == IF out.frame.progressive THEN out.frame.pseudo_Se
                     ELSE out.scans[1].Se
               direct == out.frame.baseline \/ (out.frame.progressive
                                                /\ out.frame.pseudo_Se = -1)
    <3>1. BlockSizeRead = IF direct THEN DCTSIZE
                          ELSE CHOOSE x \in 1 .. 2 * DCTSIZE : x * x - 1 = Se
      BY DEF BlockSizeRead
    <3>2. CASE direct
      BY <2>3, <2>4, <3>1, <3>2
    <3>3. CASE ~direct
      <4>1. Se = b * b - 1
        BY <2>3, <2>6, <3>3
      <4> HIDE DEF Se, direct
      <4>2. BlockSizeRead = CHOOSE x \in 1 .. 2 * DCTSIZE : x * x - 1 = Se
        BY <3>1, <3>3
      <4> QED BY <2>2, <4>1, <4>2, SizeOfBlock
    <3> QED BY <3>2, <3>3
  <2>8. ASSUME out.frame.progressive, NEW i \in DOMAIN out.scans
        PROVE  DecoderAccepts(out.scans, i, LimSe(b))
    <3> DEFINE script == cinfo.scan_info
    <3>1. cinfo.progressive_mode
      BY <2>3, <2>8
    <3>2. /\ script # <<>> /\ num_scans(cinfo) = Len(script)
          /\ \A j \in DOMAIN script : DecoderAccepts(script, j, LimSe(b))
      BY <2>1, <3>1 DEF ScriptLegal, num_scans
    <3>3. /\ DOMAIN out.scans = 1 .. Len(out.scans) /\ DOMAIN script = 1 .. Len(script)
          /\ Len(out.scans) \in Nat /\ Len(script) \in Nat
          /\ Len(out.scans) <= Len(script)
      BY <2>1, <2>2, <3>2
    <3>4. ASSUME NEW j \in 1 .. i
          PROVE  LET o == out.scans[j]
                     s == script[j]
                 IN  /\ o.comps = s.comps /\ o.Ss = s.Ss /\ o.Se = s.Se
                     /\ o.Ah = s.Ah /\ o.Al = s.Al
      <4>1. j \in DOMAIN out.scans /\ j \in Int /\ (j - 1) + 1 = j
        BY <3>3
      <4>2. out.scans[j] = WithRows(select_scan_parameters(cinfo, j - 1),
                                    out.scans[j].rows)
        BY <2>1, <4>1
      <4>3. select_scan_parameters(cinfo, j - 1) = script[j]
        BY <3>1, <4>1 DEF select_scan_parameters
      <4> QED BY <4>2, <4>3 DEF WithRows
    <3>5. i \in Nat \ {0} /\ i \in DOMAIN script /\ DecoderAccepts(script, i, LimSe(b))
      BY <3>2, <3>3
    <3>6. LimSe(b) \in Int
      <4>1. DCTSIZE2 \in Int
        BY FullSize
      <4> QED BY <2>4, <4>1 DEF LimSe
    <3> HIDE DEF script
    <3> QED BY <3>4, <3>5, <3>6, AcceptsSame
  <2> QED BY <2>7, <2>8
<1> QED BY <1>1, <1>2, <1>3 DEF ReaderInStep

\* While scan data are written, whatever was sent in the streams before, whichever
\* tables the application suppressed or optimization replaced, and wherever a
\* destination gave up: a reader of the stream holds the tables and the restart
\* interval the entropy encoder works with, finds the block size, and accepts
\* every scan of a progressive image.
THEOREM ReaderInStepTheorem == Spec => []ReaderInStep
BY InvariantHolds, InStep, PTL

-------------------------------------------------------------------------------
(* The rows *)

\* Raw data are only passed for images that are not scaled.
RawUnscaled == \A s \in Settings : s.raw_data_in => min_DCT_scaled_size(s) = DCTSIZE

Unscaled ==
  /\ cinfo.raw_data_in => min_DCT_scaled_size(cinfo) = DCTSIZE
  /\ global_state = "RAW_OK" => cinfo.raw_data_in

\* The iMCU rows compressed are those of the lines taken.
Fed ==
  /\ global_state = "SCANNING" => next_scanline <= cinfo.image.height
  /\ global_state = "SCANNING" /\ call = "none" =>
       coef.iMCU_row_num = RowsIn(cinfo, next_scanline)
  /\ global_state = "RAW_OK" /\ call = "none" =>
       /\ next_scanline = coef.iMCU_row_num * LinesPerRow(cinfo)
       /\ coef.iMCU_row_num <= total_iMCU_rows(cinfo)

RowsWritten ==
  /\ out.part = "scan" =>
       \A i \in DOMAIN out.scans :
         out.scans[i].rows = IF call = "none" THEN coef.iMCU_row_num
                             ELSE total_iMCU_rows(cinfo)
  /\ out.part = "done" =>
       \A i \in DOMAIN out.scans : out.scans[i].rows = total_iMCU_rows(cinfo)

Counted == Unscaled /\ Fed /\ RowsWritten /\ NoInternalError

\* When all lines are taken all iMCU rows are compressed.
LEMMA AllRows ==
  ASSUME IInv, Fed, global_state \in {"SCANNING", "RAW_OK"}, call = "none",
         next_scanline >= cinfo.image.height
  PROVE  coef.iMCU_row_num = total_iMCU_rows(cinfo)
<1>1. /\ cinfo \in CInfo /\ next_scanline \in Nat /\ coef.iMCU_row_num \in Nat
      /\ cinfo.image.height \in Nat /\ total_iMCU_rows(cinfo) \in Nat
      /\ LinesPerRow(cinfo) \in Nat
  BY CInfoFields, Factors DEF IInv, Shapes
<1>2. CASE global_state = "SCANNING"
  <2>1. next_scanline = cinfo.image.height
    BY <1>1, <1>2 DEF Fed
  <2> QED BY <1>2, <2>1 DEF Fed, RowsIn
<1>3. CASE global_state = "RAW_OK"
  <2> DEFINE k == coef.iMCU_row_num
             p == k * LinesPerRow(cinfo)
  <2>1. k < total_iMCU_rows(cinfo) <=> p < cinfo.image.height
    BY <1>1, RowsInImage
  <2>2. next_scanline = p /\ k <= total_iMCU_rows(cinfo)
    BY <1>3 DEF Fed
  <2> HIDE DEF p
  <2>3. ~(k < total_iMCU_rows(cinfo))
    BY <1>1, <2>1, <2>2
  <2> QED BY <1>1, <2>2, <2>3
<1> QED BY <1>2, <1>3

\* The iMCU rows that lines of the image fill.
LEMMA RowsOfLines ==
  ASSUME NEW c \in CInfo, NEW lines \in Nat, lines <= c.image.height
  PROVE  RowsIn(c, lines) \in Nat /\ RowsIn(c, lines) <= total_iMCU_rows(c)
<1> DEFINE k == lines \div LinesPerRow(c)
           p == k * LinesPerRow(c)
<1>1. /\ LinesPerRow(c) \in Nat \ {0} /\ total_iMCU_rows(c) \in Nat \ {0}
      /\ c.image.height \in Nat
  BY Factors, CInfoFields
<1>2. k \in Nat /\ p <= lines /\ p \in Int
  <2>1. k \in Int /\ p <= lines
    BY <1>1, DivIs
  <2>2. k \in Nat
    BY <1>1
  <2>3. p \in Int
    BY <1>1, <2>1
  <2> QED BY <2>1, <2>2, <2>3
<1>3. k < total_iMCU_rows(c) <=> p < c.image.height
  BY <1>2, RowsInImage
<1>4. RowsIn(c, lines) = IF lines = c.image.height THEN total_iMCU_rows(c) ELSE k
  BY DEF RowsIn
<1> HIDE DEF k, p
<1> QED BY <1>1, <1>2, <1>3, <1>4

\* One line less than a number of iMCU rows and the next need fills that number.
LEMMA RowsBefore ==
  ASSUME NEW c \in CInfo, NEW rows \in Nat, rows < total_iMCU_rows(c)
  PROVE  /\ Full(c, rows) - 1 \in Nat /\ Full(c, rows) - 1 <= c.image.height
         /\ RowsIn(c, Full(c, rows) - 1) = rows
<1> DEFINE l == LinesPerRow(c)
           h == c.image.height
           p == rows * l
           q == (rows + 1) * l
           f == Full(c, rows)
<1>1. l \in Nat \ {0} /\ h \in Nat \ {0}
  BY Factors, CInfoFields
<1>2. p < h
  BY RowsInImage
<1> HIDE DEF l, h
<1>3. q = p + l /\ p \in Nat /\ q \in Nat
  <2>1. (rows + 1) * l = rows * l + 1 * l
    BY <1>1, SumTimes
  <2> QED BY <1>1, <2>1
<1>4. f = IF q <= h THEN q ELSE h
  BY DEF Full, Minimum, l, h
<1> DEFINE n == f - 1
<1>5. n \in Nat /\ n < h /\ p <= n /\ n < p + l
  <2> HIDE DEF f, p, q
  <2> QED BY <1>1, <1>2, <1>3, <1>4
<1>6. n \div l = rows
  <2> HIDE DEF n
  <2> QED BY <1>1, <1>5, DivUnique
<1> HIDE DEF n
<1>7. RowsIn(c, n) = rows
  BY <1>1, <1>5, <1>6 DEF RowsIn, l, h
<1> QED BY <1>1, <1>5, <1>7 DEF n, f, h

\* The rows that a call in the main pass leaves in the stream.
LEMMA RowsCompressed ==
  ASSUME IInv, IInv', Ready("SCANNING") \/ Ready("RAW_OK"), NEW rows \in Nat,
         Compress(rows), UNCHANGED <<global_state, call, cinfo, scan, entropy, tbl>>
  PROVE  coef'.iMCU_row_num = rows /\ RowsWritten'
<1>1. /\ global_state \in {"SCANNING", "RAW_OK"} /\ call = "none" /\ error = "none"
      /\ global_state' = global_state /\ call' = "none"
      /\ coef' = [coef EXCEPT !.iMCU_row_num = rows]
  BY DEF Ready, Compress
<1>2. coef'.iMCU_row_num = rows
  BY <1>1 DEF IInv, Shapes
<1>3. out'.part \in {"header", "scan", "broken"} /\ (out'.part = "scan" => Len(out'.scans) = 1)
      /\ out'.scans \in Seq(WrittenScan)
  <2>1. MainPass' /\ Shapes'
    BY DEF IInv
  <2> QED BY <1>1, <2>1 DEF MainPass, Shapes
<1>4. out'.part = "scan" => out'.scans[1].rows = rows
  <2>1. CASE master.call_pass_startup
    <3>1. /\ out.scans = <<>>
          /\ out' = [part |-> "scan", frame |-> FrameHeader(cinfo),
                     scans |-> Append(out.scans, WithRows(scan, rows))]
      BY <1>1, <2>1 DEF IInv, MainPass, Compress, WriteHeaders
    <3>2. out'.scans[1] = WithRows(scan, rows)
      BY <3>1
    <3> QED BY <3>2 DEF WithRows
  <2>2. CASE ~master.call_pass_startup /\ entropy.gather
    BY <1>1, <2>2 DEF IInv, MainPass, Compress
  <2>3. CASE ~master.call_pass_startup /\ ~entropy.gather
    <3>1. out' = [out EXCEPT !.scans[1].rows = rows]
      BY <2>3 DEF Compress
    <3>2. /\ out.part = "scan" /\ Len(out.scans) = 1
          /\ out = [part |-> out.part, frame |-> out.frame, scans |-> out.scans]
          /\ out.scans \in Seq(WrittenScan)
      BY <1>1, <2>3 DEF IInv, MainPass, Shapes
    <3>3. 1 \in DOMAIN out.scans /\ out.scans[1] \in WrittenScan
      BY <3>2
    <3>4. out'.scans = [out.scans EXCEPT ![1] = [out.scans[1] EXCEPT !.rows = rows]]
      BY <3>1, <3>2
    <3>5. out'.scans[1] = [out.scans[1] EXCEPT !.rows = rows]
      BY <3>3, <3>4
    <3> QED BY <3>3, <3>5 DEF WrittenScan
  <2> QED BY <2>1, <2>2, <2>3
<1>5. RowsWritten'
  <2>1. out'.part = "scan" => DOMAIN out'.scans = {1}
    BY <1>3
  <2> QED BY <1>1, <1>2, <1>3, <1>4, <2>1 DEF RowsWritten
<1> QED BY <1>2, <1>5

\* A parameter set is scaled as the application set it.
LEMMA SetUnscaled ==
  ASSUME RawUnscaled, NEW s \in Settings, NEW i \in Images
  PROVE  Parameters(s, i).raw_data_in => min_DCT_scaled_size(Parameters(s, i)) = DCTSIZE
<1> DEFINE p == Parameters(s, i)
<1>1. /\ p.raw_data_in = s.raw_data_in /\ p.scale_num = s.scale_num
      /\ p.scale_denom = s.scale_denom /\ p.block_size = s.block_size
  BY DEF Parameters
<1> HIDE DEF p
<1>2. min_DCT_scaled_size(p) = min_DCT_scaled_size(s)
  BY <1>1 DEF min_DCT_scaled_size
<1> QED BY <1>1, <1>2 DEF RawUnscaled, p

LEMMA InitCounted ==
  ASSUME RawUnscaled, Init
  PROVE  Counted
<1>1. Unscaled
  BY SetUnscaled DEF Init, Unscaled
<1>2. Fed /\ RowsWritten /\ NoInternalError
  BY DEF Init, Stream, Fed, RowsWritten, NoInternalError
<1> QED BY <1>1, <1>2 DEF Counted

\* Steps between images, and errors.
LEMMA BetweenCounted ==
  ASSUME RawUnscaled, IInv, Counted,
         \/ \E s \in Settings : SetParameters(s)
         \/ \E b \in BOOLEAN : jpeg_suppress_tables(b)
         \/ jpeg_write_tables \/ StartupFails \/ jpeg_abort_compress \/ BadCall
         \/ UNCHANGED vars
  PROVE  Counted'
<1>1. ASSUME NEW s \in Settings, SetParameters(s)
      PROVE  Counted'
  <2>1. cinfo.image \in Images
    BY CInfoFields DEF IInv, Shapes
  <2>2. Unscaled'
    BY <1>1, <2>1, SetUnscaled DEF SetParameters, Ready, Unscaled
  <2>3. Fed' /\ RowsWritten' /\ NoInternalError'
    BY <1>1 DEF SetParameters, Ready, Stream, Fed, RowsWritten, NoInternalError
  <2> QED BY <2>2, <2>3 DEF Counted
<1>2. ASSUME NEW b \in BOOLEAN, jpeg_suppress_tables(b)
      PROVE  Counted'
  <2> USE <1>2 DEF jpeg_suppress_tables, Counted, Stream, Ready
  <2>1. Unscaled' /\ Fed'
    BY DEF Unscaled, Fed
  <2>2. RowsWritten' /\ NoInternalError'
    BY DEF RowsWritten, NoInternalError
  <2> QED BY <2>1, <2>2
<1>3. ASSUME jpeg_write_tables
      PROVE  Counted'
  <2> USE <1>3 DEF jpeg_write_tables, Counted
  <2>1. Unscaled' /\ Fed'
    BY DEF Unscaled, Fed
  <2>2. RowsWritten' /\ NoInternalError'
    BY DEF RowsWritten, NoInternalError
  <2> QED BY <2>1, <2>2
<1>4. ASSUME StartupFails
      PROVE  Counted'
  <2> USE <1>4 DEF StartupFails, HeadersFail, Counted, Stream
  <2>1. Unscaled' /\ Fed'
    BY DEF Unscaled, Fed
  <2>2. RowsWritten' /\ NoInternalError'
    BY DEF RowsWritten, NoInternalError
  <2> QED BY <2>1, <2>2
<1>5. ASSUME jpeg_abort_compress
      PROVE  Counted'
  <2> USE <1>5 DEF jpeg_abort_compress, Counted, Stream, IInv, Waiting
  <2>1. Unscaled' /\ Fed'
    BY DEF Unscaled, Fed
  <2>2. RowsWritten' /\ NoInternalError'
    BY DEF RowsWritten, NoInternalError
  <2> QED BY <2>1, <2>2
<1>6. ASSUME BadCall
      PROVE  Counted'
  <2> USE <1>6 DEF BadCall, Counted
  <2>1. Unscaled' /\ Fed'
    BY DEF Unscaled, Fed
  <2>2. RowsWritten' /\ NoInternalError'
    BY DEF RowsWritten, NoInternalError
  <2> QED BY <2>1, <2>2
<1>7. ASSUME UNCHANGED vars
      PROVE  Counted'
  <2> USE <1>7 DEF vars, Counted
  <2>1. Unscaled' /\ Fed'
    BY DEF Unscaled, Fed
  <2>2. RowsWritten' /\ NoInternalError'
    BY DEF RowsWritten, NoInternalError
  <2> QED BY <2>1, <2>2
<1> QED BY <1>1, <1>2, <1>3, <1>4, <1>5, <1>6, <1>7

LEMMA StartCounted ==
  ASSUME IInv, Counted, NEW write_all_tables \in BOOLEAN, NEW image \in Images,
         jpeg_start_compress(write_all_tables, image)
  PROVE  Counted'
<1> DEFINE given == [cinfo EXCEPT !.image = image]
           legal == MasterControl(given)
           first == select_scan_parameters(legal, 0)
           c == per_scan_setup(legal, first)
           Begun ==
             /\ error' = IF (total_passes(c) > 1) # need_full_buffer(c)
                         THEN "BAD_BUFFER_MODE" ELSE "none"
             /\ cinfo' = c
             /\ coef' = [whole_image |-> need_full_buffer(c), iMCU_row_num |-> 0]
             /\ next_scanline' = 0
             /\ global_state' = IF c.raw_data_in THEN "RAW_OK" ELSE "SCANNING"
             /\ out' = Stream("header")
<1>1. /\ cinfo \in CInfo /\ given \in CInfo /\ given.raw_data_in = cinfo.raw_data_in
      /\ min_DCT_scaled_size(given) = min_DCT_scaled_size(cinfo)
  BY ImageGiven DEF IInv, Shapes
<1>2. /\ Ready("START") /\ call' = call
      /\ \/ Refuse("BAD_SCRIPT", given)
         \/ ~ScriptRefused(given) /\ Refuse("NOT_COMPILED", c)
         \/ ~ScriptRefused(given) /\ Begun
  BY DEF jpeg_start_compress
<1>3. ~ScriptRefused(given) =>
        /\ c \in CInfo /\ (c.raw_data_in <=> cinfo.raw_data_in)
        /\ min_DCT_scaled_size(c) = min_DCT_scaled_size(cinfo)
  <2> SUFFICES ASSUME ~ScriptRefused(given)
               PROVE  /\ c \in CInfo /\ (c.raw_data_in <=> cinfo.raw_data_in)
                      /\ min_DCT_scaled_size(c) = min_DCT_scaled_size(cinfo)
    OBVIOUS
  <2>1. /\ legal \in CInfo /\ ScriptLegal(legal)
        /\ legal.raw_data_in = given.raw_data_in
        /\ min_DCT_scaled_size(legal) = min_DCT_scaled_size(given)
    BY <1>1, MasterControlLegal
  <2> HIDE DEF legal
  <2>2. ScanOf(legal, first)
    BY <2>1, SelectIs, NumScans
  <2>3. c \in CInfo /\ Alike(legal, c)
    BY <2>1, <2>2, PerScanSetup
  <2> HIDE DEF c, given
  <2>4. min_DCT_scaled_size(c) = min_DCT_scaled_size(legal)
    BY <2>3, AlikeDerived
  <2>5. c.raw_data_in = legal.raw_data_in
    BY <2>3 DEF Alike
  <2> QED BY <1>1, <2>1, <2>3, <2>4, <2>5
<1>4. cinfo.raw_data_in => min_DCT_scaled_size(cinfo) = DCTSIZE
  BY DEF Counted, Unscaled
<1> HIDE DEF given, c, Begun
<1>5. CASE \/ Refuse("BAD_SCRIPT", given)
           \/ ~ScriptRefused(given) /\ Refuse("NOT_COMPILED", c)
  <2>1. /\ cinfo' = given \/ (~ScriptRefused(given) /\ cinfo' = c)
        /\ error' \in {"BAD_SCRIPT", "NOT_COMPILED"}
        /\ out' = Stream("none") /\ global_state' = "START"
    BY <1>2, <1>5 DEF Refuse, Ready
  <2>2. Unscaled'
    BY <1>1, <1>3, <1>4, <2>1 DEF Unscaled
  <2>3. Fed' /\ RowsWritten' /\ NoInternalError'
    BY <2>1 DEF Fed, RowsWritten, NoInternalError, Stream
  <2> QED BY <2>2, <2>3 DEF Counted
<1>6. CASE ~ScriptRefused(given) /\ Begun
  <2>1. /\ cinfo' = c /\ c \in CInfo /\ next_scanline' = 0 /\ call' = "none"
        /\ coef'.iMCU_row_num = 0 /\ out' = Stream("header")
        /\ global_state' = IF c.raw_data_in THEN "RAW_OK" ELSE "SCANNING"
    BY <1>2, <1>3, <1>6 DEF Begun, Ready
  <2>2. Unscaled'
    BY <1>3, <1>4, <1>6, <2>1 DEF Unscaled
  <2>3. Fed'
    <3>1. /\ c.image.height \in Nat \ {0} /\ LinesPerRow(c) \in Nat \ {0}
          /\ total_iMCU_rows(c) \in Nat \ {0}
      BY <2>1, CInfoFields, Factors
    <3>2. 0 * LinesPerRow(c) = 0
      BY <3>1
    <3>3. 0 \div LinesPerRow(c) = 0
      BY <3>1
    <3>4. RowsIn(c, 0) = 0
      BY <3>1, <3>3 DEF RowsIn
    <3> QED BY <2>1, <3>1, <3>2, <3>4 DEF Fed
  <2>4. RowsWritten'
    BY <2>1 DEF RowsWritten, Stream
  <2>5. NoInternalError'
    <3> DEFINE passes == total_passes(c)
               need == need_full_buffer(c)
    <3>1. num_scans(c) \in Nat \ {0} /\ c.optimize_coding \in BOOLEAN
      BY <2>1, NumScans, CInfoFields
    <3>2. passes \in Nat /\ need \in BOOLEAN /\ (passes > 1 <=> need)
      BY <3>1 DEF total_passes, need_full_buffer
    <3>3. error' = IF (passes > 1) # need THEN "BAD_BUFFER_MODE" ELSE "none"
      BY <1>6 DEF Begun
    <3> HIDE DEF passes, need
    <3>6. error' = "none"
      BY <3>2, <3>3
    <3> QED BY <3>6 DEF NoInternalError
  <2> QED BY <2>2, <2>3, <2>4, <2>5 DEF Counted
<1> QED BY <1>2, <1>5, <1>6

LEMMA WriteCoefficientsCounted ==
  ASSUME IInv, Counted, NEW image \in Images, jpeg_write_coefficients(image)
  PROVE  Counted'
<1> DEFINE given == [cinfo EXCEPT !.image = image]
           c == MasterControl(given)
<1>1. /\ given \in CInfo /\ given.raw_data_in = cinfo.raw_data_in
      /\ min_DCT_scaled_size(given) = min_DCT_scaled_size(cinfo)
  BY ImageGiven DEF IInv, Shapes
<1>2. ~ScriptRefused(given) =>
        /\ c.raw_data_in = cinfo.raw_data_in
        /\ min_DCT_scaled_size(c) = min_DCT_scaled_size(cinfo)
  BY <1>1, MasterControlLegal
<1>3. /\ call' = call /\ call = "none"
      /\ \/ /\ cinfo' = given /\ error' = "BAD_SCRIPT" /\ out' = Stream("none")
            /\ global_state' = "START"
         \/ /\ ~ScriptRefused(given) /\ cinfo' = c /\ error' = "none"
            /\ out' = Stream("header") /\ global_state' = "WRCOEFS"
  BY DEF jpeg_write_coefficients, Refuse, Ready
<1>4. cinfo.raw_data_in => min_DCT_scaled_size(cinfo) = DCTSIZE
  BY DEF Counted, Unscaled
<1> HIDE DEF given, c
<1>5. Unscaled'
  BY <1>1, <1>2, <1>3, <1>4 DEF Unscaled
<1>6. Fed' /\ RowsWritten' /\ NoInternalError'
  BY <1>3 DEF Fed, RowsWritten, NoInternalError, Stream
<1> QED BY <1>5, <1>6 DEF Counted

LEMMA ScanlinesCounted ==
  ASSUME IInv, IInv', Counted, NEW num_lines \in LineCounts,
         jpeg_write_scanlines(num_lines)
  PROVE  Counted'
<1> DEFINE lines == LinesTaken(num_lines)
           full == RowsIn(cinfo, lines)
<1>1. PICK rows \in coef.iMCU_row_num .. full :
        Compress(rows) /\ next_scanline' = NextLine(lines, full, rows)
  BY DEF jpeg_write_scanlines
<1>2. /\ Ready("SCANNING")
      /\ UNCHANGED <<global_state, call, error, cinfo, scan, entropy, tbl, images>>
  BY DEF jpeg_write_scanlines
<1>3. /\ cinfo \in CInfo /\ num_lines \in Nat /\ next_scanline \in Nat
      /\ coef.iMCU_row_num \in Nat /\ cinfo.image.height \in Nat \ {0}
      /\ next_scanline < cinfo.image.height /\ total_iMCU_rows(cinfo) \in Nat
  BY SettingsAssumption, CInfoFields, Factors DEF IInv, Shapes, jpeg_write_scanlines
<1>4. lines \in Nat /\ lines <= cinfo.image.height
  BY <1>3 DEF LinesTaken, Minimum
<1> HIDE DEF lines
<1>5. full \in Nat /\ full <= total_iMCU_rows(cinfo)
  BY <1>3, <1>4, RowsOfLines
<1> HIDE DEF full
<1>6. rows \in Nat /\ rows <= full
  BY <1>1, <1>3, <1>5
<1>7. coef'.iMCU_row_num = rows /\ RowsWritten'
  BY <1>1, <1>2, <1>6, RowsCompressed
<1>8. next_scanline' <= cinfo.image.height /\ RowsIn(cinfo, next_scanline') = rows
  <2>1. CASE rows < full
    <3>1. rows < total_iMCU_rows(cinfo)
      BY <1>3, <1>5, <1>6, <2>1
    <3>2. next_scanline' = Full(cinfo, rows) - 1
      BY <1>1, <2>1 DEF NextLine
    <3> QED BY <1>3, <1>6, <3>1, <3>2, RowsBefore
  <2>2. CASE ~(rows < full)
    <3>1. rows = full /\ next_scanline' = lines
      BY <1>1, <1>5, <1>6, <2>2 DEF NextLine
    <3> QED BY <1>4, <3>1 DEF full
  <2> QED BY <2>1, <2>2
<1>9. Fed'
  BY <1>2, <1>7, <1>8 DEF Fed, Ready
<1>10. Unscaled' /\ NoInternalError'
  BY <1>2 DEF Counted, Unscaled, NoInternalError
<1> QED BY <1>7, <1>9, <1>10 DEF Counted

LEMMA RawCounted ==
  ASSUME IInv, IInv', Counted, NEW num_lines, jpeg_write_raw_data(num_lines)
  PROVE  Counted'
<1> DEFINE k == coef.iMCU_row_num
           l == LinesPerRow(cinfo)
           p == k * l
<1>1. PICK done \in 0 .. 1 :
        /\ Compress(k + done)
        /\ error' = IF ~(num_lines >= lines_per_iMCU_row) THEN "BUFFER_SIZE"
                    ELSE IF coef.whole_image /\ k = total_iMCU_rows(cinfo)
                         THEN "BAD_VIRTUAL_ACCESS" ELSE "none"
        /\ next_scanline' = next_scanline + done * lines_per_iMCU_row
  BY DEF jpeg_write_raw_data
<1>2. /\ Ready("RAW_OK")
      /\ UNCHANGED <<global_state, call, cinfo, scan, entropy, tbl, images>>
  BY DEF jpeg_write_raw_data
<1>3. /\ cinfo \in CInfo /\ k \in Nat /\ l \in Nat \ {0} /\ next_scanline \in Nat
      /\ next_scanline < cinfo.image.height /\ total_iMCU_rows(cinfo) \in Nat
      /\ max_v_samp_factor(cinfo) \in Nat /\ DCTSIZE \in Nat
  BY Factors, ScriptAssumption DEF IInv, Shapes, jpeg_write_raw_data
<1>4. /\ next_scanline = p /\ k <= total_iMCU_rows(cinfo)
      /\ min_DCT_scaled_size(cinfo) = DCTSIZE
  BY <1>2 DEF Counted, Fed, Unscaled, Ready
<1>5. k < total_iMCU_rows(cinfo)
  <2>1. k < total_iMCU_rows(cinfo) <=> p < cinfo.image.height
    BY <1>3, RowsInImage
  <2> HIDE DEF p
  <2> QED BY <1>3, <1>4, <2>1
<1>6. l = lines_per_iMCU_row
  BY <1>4 DEF LinesPerRow, lines_per_iMCU_row
<1> HIDE DEF l
<1>7. coef'.iMCU_row_num = k + done /\ RowsWritten'
  <2>1. k + done \in Nat
    BY <1>3
  <2> HIDE DEF k
  <2> QED BY <1>1, <1>2, <2>1, RowsCompressed
<1>8. next_scanline' = (k + done) * l
  <2>1. CASE done = 0
    <3>1. done * lines_per_iMCU_row = 0
      BY <1>3, <1>6, <2>1
    <3>2. k + done = k
      BY <1>3, <2>1
    <3> QED BY <1>1, <1>3, <1>4, <3>1, <3>2
  <2>2. CASE done = 1
    <3>1. done * lines_per_iMCU_row = l
      BY <1>3, <1>6, <2>2
    <3>2. (k + 1) * l = k * l + 1 * l
      BY <1>3, SumTimes
    <3> QED BY <1>1, <1>3, <1>4, <2>2, <3>1, <3>2
  <2> QED BY <2>1, <2>2
<1>9. k + done <= total_iMCU_rows(cinfo)
  BY <1>3, <1>5
<1>10. Fed'
  <2>1. LinesPerRow(cinfo') = l /\ total_iMCU_rows(cinfo') = total_iMCU_rows(cinfo)
    BY <1>2 DEF l
  <2> QED BY <1>2, <1>7, <1>8, <1>9, <2>1 DEF Fed, Ready
<1>11. Unscaled'
  BY <1>2 DEF Counted, Unscaled
<1>12. NoInternalError'
  BY <1>1, <1>3, <1>5 DEF NoInternalError
<1> QED BY <1>7, <1>10, <1>11, <1>12 DEF Counted

LEMMA FinishCounted ==
  ASSUME IInv, Counted, FinishCompress
  PROVE  Counted'
<1>1. /\ global_state' = global_state /\ cinfo' = cinfo
      /\ next_scanline' = next_scanline /\ coef' = coef /\ out' = out
  BY DEF FinishCompress
<1>2. Unscaled' /\ NoInternalError'
  BY <1>1 DEF FinishCompress, Counted, Unscaled, NoInternalError
<1>3. call' = call \/ (call = "none" /\ call' = "finish")
  BY DEF FinishCompress, Ready
<1>4. Fed'
  BY <1>1, <1>3 DEF Counted, Fed
<1>5. RowsWritten'
  <2>1. CASE call' = call
    BY <1>1, <2>1 DEF Counted, RowsWritten
  <2>2. CASE call = "none" /\ call' = "finish"
    <3>1. CASE Ready("WRCOEFS")
      <4>1. out.part = "header"
        BY <2>2, <3>1 DEF IInv, Transcoding, Stream, Ready
      <4> QED BY <1>1, <4>1 DEF RowsWritten
    <3>2. CASE /\ global_state \in {"SCANNING", "RAW_OK"}
               /\ next_scanline >= cinfo.image.height
      <4>1. coef.iMCU_row_num = total_iMCU_rows(cinfo)
        BY <2>2, <3>2, AllRows DEF Counted
      <4> QED BY <1>1, <2>2, <4>1 DEF Counted, RowsWritten
    <3> QED BY <2>2, <3>1, <3>2 DEF FinishCompress, Ready
  <2> QED BY <1>3, <2>1, <2>2
<1> QED BY <1>2, <1>4, <1>5 DEF Counted

\* What the passes of jpeg_finish_compress leave as it is.
LEMMA PassCounted ==
  ASSUME Counted, call = "finish", call' = call, global_state' = global_state,
         next_scanline' = next_scanline, Alike(cinfo, cinfo'),
         error' \notin {"BAD_BUFFER_MODE", "BAD_VIRTUAL_ACCESS"}, RowsWritten'
  PROVE  Counted'
<1>1. /\ cinfo'.raw_data_in = cinfo.raw_data_in /\ cinfo'.image = cinfo.image
      /\ min_DCT_scaled_size(cinfo') = min_DCT_scaled_size(cinfo)
  BY AlikeDerived DEF Alike
<1>2. Unscaled'
  BY <1>1 DEF Counted, Unscaled
<1>3. Fed'
  BY <1>1 DEF Counted, Fed
<1>4. NoInternalError'
  BY DEF NoInternalError
<1> QED BY <1>2, <1>3, <1>4 DEF Counted

LEMMA OptimizeCounted ==
  ASSUME IInv, Counted, OptimizePass
  PROVE  Counted'
<1> DEFINE s == select_scan_parameters(cinfo, master.scan_number)
           c == per_scan_setup(cinfo, s)
<1>1. /\ PassDue /\ cinfo' = c
      /\ error' = "NOT_COMPILED" \/ error' = error
      /\ UNCHANGED <<global_state, call, next_scanline, out>>
  BY DEF OptimizePass
<1>2. error = "none" /\ call = "finish" /\ Alike(cinfo, c)
      /\ out.part \in {"header", "scan"}
  BY <1>1, PassBegins
<1> HIDE DEF c
<1>3. total_iMCU_rows(c) = total_iMCU_rows(cinfo)
  BY <1>2, AlikeDerived
<1>4. RowsWritten'
  BY <1>1, <1>2, <1>3 DEF Counted, RowsWritten
<1>5. Alike(cinfo, cinfo')
  BY <1>1, <1>2
<1>6. error' \notin {"BAD_BUFFER_MODE", "BAD_VIRTUAL_ACCESS"}
  BY <1>1, <1>2
<1> QED BY <1>1, <1>2, <1>4, <1>5, <1>6, PassCounted

LEMMA OutputCounted ==
  ASSUME IInv, Counted, OutputPass
  PROVE  Counted'
<1> DEFINE skip == master.pass_type = "huff_opt"
           m == IF skip THEN Skipped(master) ELSE master
           next == select_scan_parameters(cinfo, m.scan_number)
           s == IF SetupDue(skip) THEN next ELSE scan
           c == IF SetupDue(skip) THEN per_scan_setup(cinfo, s) ELSE cinfo
           first == m.scan_number = 0
           rows == total_iMCU_rows(c)
<1>1. /\ PassDue /\ cinfo' = c
      /\ \/ HeadersFail(c, s, first)
         \/ WriteHeaders(c, s, first, rows) /\ error' = error
      /\ UNCHANGED <<global_state, call, next_scanline>>
  BY DEF OutputPass
<1>2. /\ error = "none" /\ call = "finish" /\ cinfo \in CInfo
      /\ out.part \in {"header", "scan"} /\ out.scans \in Seq(WrittenScan)
  BY <1>1, PassBegins DEF Shapes
<1>3. Alike(cinfo, c)
  <2> HIDE DEF s
  <2>1. Alike(cinfo, cinfo) /\ Alike(cinfo, per_scan_setup(cinfo, s))
    BY <1>2 DEF Alike, per_scan_setup, CInfo
  <2> QED BY <2>1
<1> HIDE DEF c, s, first
<1>4. rows = total_iMCU_rows(cinfo)
  BY <1>3, AlikeDerived
<1>5. Alike(cinfo, cinfo')
  BY <1>1, <1>3
<1>6. error' \notin {"BAD_BUFFER_MODE", "BAD_VIRTUAL_ACCESS"}
  BY <1>1, <1>2 DEF HeadersFail
<1>7. RowsWritten'
  <2>1. CASE HeadersFail(c, s, first)
    BY <2>1 DEF HeadersFail, Stream, RowsWritten
  <2>2. CASE WriteHeaders(c, s, first, rows)
    <3> DEFINE w == WithRows(s, rows)
    <3>1. out'.part = "scan" /\ out'.scans = Append(out.scans, w)
      BY <2>2 DEF WriteHeaders
    <3>2. w.rows = rows
      BY DEF WithRows
    <3> HIDE DEF w, rows
    <3>3. \A i \in DOMAIN out.scans : out.scans[i].rows = rows
      <4>1. CASE out.part = "scan"
        BY <1>2, <1>4, <4>1 DEF Counted, RowsWritten
      <4>2. CASE out.part = "header"
        <5>1. Len(out.scans) = 0
          BY <1>1, <4>2, PassBegins
        <5> QED BY <1>2, <5>1
      <4> QED BY <1>2, <4>1, <4>2
    <3>4. \A i \in DOMAIN out'.scans : out'.scans[i].rows = rows
      <4> SUFFICES ASSUME NEW i \in DOMAIN out'.scans
                   PROVE  out'.scans[i].rows = rows
        OBVIOUS
      <4>1. CASE i \in DOMAIN out.scans
        <5>1. out'.scans[i] = out.scans[i]
          BY <1>2, <3>1, <4>1
        <5> QED BY <3>3, <4>1, <5>1
      <4>2. CASE i \notin DOMAIN out.scans
        <5>1. out'.scans[i] = w
          BY <1>2, <3>1, <4>2
        <5> QED BY <3>2, <5>1
      <4> QED BY <4>1, <4>2
    <3>5. rows = total_iMCU_rows(cinfo')
      BY <1>1 DEF rows
    <3> QED BY <1>1, <1>2, <3>1, <3>4, <3>5 DEF RowsWritten
  <2> QED BY <1>1, <2>1, <2>2
<1> QED BY <1>1, <1>2, <1>5, <1>6, <1>7, PassCounted

LEMMA TrailerCounted ==
  ASSUME IInv, Counted, WriteTrailer
  PROVE  Counted'
<1>1. /\ error = "none" /\ error' = "none" /\ call = "finish" /\ cinfo' = cinfo
      /\ global_state' = "START" /\ out' = [out EXCEPT !.part = "done"]
      /\ master.is_last_pass
  BY DEF WriteTrailer
<1>2. out.part = "scan" /\ out'.part = "done" /\ out'.scans = out.scans
  <2>1. num_scans(cinfo) # 0
    BY NumScans DEF IInv, Shapes
  <2> QED BY <1>1, <2>1 DEF IInv, Finishing, Shapes
<1>3. RowsWritten'
  BY <1>1, <1>2 DEF Counted, RowsWritten
<1>4. Unscaled' /\ Fed' /\ NoInternalError'
  BY <1>1 DEF Counted, Unscaled, Fed, NoInternalError
<1> QED BY <1>3, <1>4 DEF Counted

LEMMA NextCounted ==
  ASSUME RawUnscaled, IInv, IInv', Counted, [Next]_vars
  PROVE  Counted'
<1>1. CASE Next
  BY <1>1, BetweenCounted, StartCounted, WriteCoefficientsCounted, ScanlinesCounted,
     RawCounted, FinishCounted, OptimizeCounted, OutputCounted, TrailerCounted
  DEF Next
<1>2. CASE UNCHANGED vars
  BY <1>2, BetweenCounted
<1> QED BY <1>1, <1>2

LEMMA CountedHolds ==
  ASSUME RawUnscaled
  PROVE  Spec => [](IInv /\ Counted)
<1>1. Init => IInv /\ Counted
  BY InitIInv, InitCounted
<1>2. IInv /\ Counted /\ [Next]_vars => (IInv /\ Counted)'
  BY NextIInv, NextCounted
<1> QED BY <1>1, <1>2, PTL DEF Spec

-------------------------------------------------------------------------------
(* What follows *)

\* An application that scales no raw data never meets an error inside the library:
\* no more lines are taken than the image has, an interval of restarts fits its
\* marker, and every pass finds the buffer it needs and stays within it.
THEOREM StaysConsistentTheorem ==
  ASSUME RawUnscaled
  PROVE  Spec => []StaysConsistent
<1>1. IInv /\ Counted => StaysConsistent
  <2> SUFFICES ASSUME IInv, Counted  PROVE StaysConsistent
    OBVIOUS
  <2>1. cinfo.restart_interval \in 0 .. MAX_INTERVAL
    BY CInfoFields DEF IInv, Shapes
  <2>2. TypeOK
    BY <2>1 DEF IInv, Shapes, Counted, Fed, TypeOK
  <2> QED BY <2>2 DEF Counted, StaysConsistent
<1> QED BY <1>1, CountedHolds, PTL

\* When the application has passed all lines, every iMCU row has been through the
\* coefficient controller, however often a destination refused one.
THEOREM DoneMeansCompressedTheorem ==
  ASSUME RawUnscaled
  PROVE  Spec => []DoneMeansCompressed
<1>1. IInv /\ Counted => DoneMeansCompressed
  BY AllRows DEF Counted, DoneMeansCompressed, Ready
<1> QED BY <1>1, CountedHolds, PTL

\* A file that is complete has every scan of the script, in order, and each as long
\* as a decoder expects, for any script, any number of passes and any sampling.
THEOREM ImageCompleteTheorem ==
  ASSUME RawUnscaled
  PROVE  Spec => []ImageComplete
<1>1. IInv /\ Counted => ImageComplete
  <2> SUFFICES ASSUME IInv, Counted, out.part = "done"
               PROVE  /\ Len(out.scans) = num_scans(cinfo)
                      /\ \A i \in DOMAIN out.scans :
                           out.scans[i] = WithRows(select_scan_parameters(cinfo, i - 1),
                                                   RowsRead)
    BY DEF ImageComplete
  <2>1. /\ Len(out.scans) = num_scans(cinfo) /\ out.frame = FrameHeader(cinfo)
        /\ \A i \in DOMAIN out.scans :
             out.scans[i] = WithRows(select_scan_parameters(cinfo, i - 1),
                                     out.scans[i].rows)
    BY DEF IInv, Written
  <2>2. BlockSizeRead = cinfo.block_size
    BY InStep DEF ReaderInStep, ScansUnderstood
  <2>3. /\ out.frame.height = jpeg_height(cinfo)
        /\ out.frame.max_v = max_v_samp_factor(cinfo)
    BY <2>1 DEF FrameHeader
  <2>4. RowsRead = total_iMCU_rows(cinfo)
    BY <2>2, <2>3 DEF RowsRead, total_iMCU_rows
  <2>5. \A i \in DOMAIN out.scans : out.scans[i].rows = RowsRead
    BY <2>4 DEF Counted, RowsWritten
  <2> QED BY <2>1, <2>5
<1> QED BY <1>1, CountedHolds, PTL
================================================================================
