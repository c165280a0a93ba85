--------------------------- MODULE MCEntropyCoding ---------------------------
EXTENDS EntropyCoding

\* A block with the given coefficients, the others zero.
Block(lim, f) == [k \in 0 .. lim |-> IF k \in DOMAIN f THEN f[k] ELSE 0]
Full(lim, v) == [k \in 0 .. lim |-> v]

\* A scan of one component with one block per MCU.
Single(Ss, Se, Ah, Al, lim, n, interval) ==
  [progressive_mode |-> TRUE, Ss |-> Ss, Se |-> Se, Ah |-> Ah, Al |-> Al,
   lim_Se |-> lim, MCU_membership |-> <<1>>, tbl |-> <<0>>,
   L |-> 0, U |-> 1, K |-> 5, restart_interval |-> interval,
   coef_limit |-> <<lim + 1>>, mcus |-> [m \in 1 .. n |-> <<m>>]]

Sequential(lim, n, interval) ==
  [Single(0, lim, 0, 0, lim, n, interval) EXCEPT !.progressive_mode = FALSE]

\* Two components with blocks one after the other in each MCU.
Interleaved(ci, n, tbl) ==
  [ci EXCEPT !.MCU_membership = <<1, 2>>, !.tbl = tbl,
             !.coef_limit = <<@[1], @[1]>>,
             !.mcus = [m \in 1 .. n \div 2 |-> <<2 * m - 1, 2 * m>>]]

Base(blocks, scans) ==
  [arith |-> TRUE, optimize |-> FALSE, blocks |-> blocks,
   component |-> [b \in DOMAIN blocks |-> 1], scans |-> scans,
   tables |-> <<>>, counted |-> <<>>, blanks |-> 0,
   free |-> {2, 1000}, arriving |-> {}, harm |-> "none"]
Huffman(j) == [j EXCEPT !.arith = FALSE, !.optimize = TRUE]
TwoComponents(j) == [j EXCEPT !.component = [b \in DOMAIN @ |-> 2 - (b % 2)]]

Script(lim, n, interval) ==
  << Single(0, 0, 0, 1, lim, n, interval), Single(1, lim, 0, 1, lim, n, interval),
     Single(1, lim, 1, 0, lim, n, interval), Single(0, 0, 1, 0, lim, n, interval) >>

-------------------------------------------------------------------------------
Seqs(S, n) == [1 .. n -> S]

\* Blocks of four coefficients: empty, ends of the value range, runs of zeros.
Pool == { Full(3, 0), Block(3, 0 :> 5 @@ 1 :> -1), Block(3, 0 :> -1023 @@ 3 :> 1),
          Block(3, 0 :> 1023 @@ 1 :> 700 @@ 2 :> -3), Full(3, 1), Full(3, -2) }
\* For successive approximation: coefficients that appear in each of the scans.
RefinePool == { Full(3, 0), Full(3, 1), Full(3, -3), Block(3, 0 :> -5 @@ 1 :> 4 @@ 3 :> -1),
                Block(3, 2 :> 1 @@ 3 :> -2), Block(3, 1 :> -1 @@ 2 :> 6) }

\* Images of three blocks, and of four.
Three(S) == Seqs(S, 3)
Four(S) == {<<p[1], p[2], p[2], p[1]>> : p \in Seqs(S, 2)}

ArithSequential ==
  {Base(blocks, <<[Sequential(3, 3, r) EXCEPT !.L = lu[1], !.U = lu[2], !.K = lu[3]]>>) :
     blocks \in Three(Pool), r \in {0, 1}, lu \in {<<0, 1, 5>>, <<2, 4, 1>>}}

\* Two components that share a statistics area, or do not.
ArithInterleaved ==
  {TwoComponents(Base(blocks, <<Interleaved(Sequential(3, 4, 1), 4, t)>>)) :
     blocks \in Four(Pool), t \in {<<0, 0>>, <<0, 1>>}}

ArithProgressive ==
  {Base(blocks, Script(3, 3, r)) : blocks \in Three(RefinePool), r \in {0, 1}}

(***************************************************************************)
(* Carries: the bits of a DC refinement scan all have probability near one *)
(* half, so that they can be chosen such that the code comes close to      *)
(* given bytes (the comment after each line); every continuation of them   *)
(* then makes the encoder keep, add one to, or turn around the bytes it    *)
(* holds back.                                                             *)
(***************************************************************************)
Nines == [Single(0, 0, 1, 0, 0, 4, 0) EXCEPT
            !.MCU_membership = <<1, 1, 1, 1, 1, 1, 1, 1, 2>>, !.tbl = <<0, 0>>,
            !.coef_limit = <<1, 1>>,
            !.mcus = [m \in 1 .. 4 |-> [b \in 1 .. 9 |-> 9 * (m - 1) + b]]]

Toward == <<
   <<0, 1, 0, 1, 0, 1, 1, 1, 1, 0, 1, 0, 0, 0, 1, 1, 0, 1, 1, 0, 0, 1, 1, 1, 1, 1, 0, 0, 1, 0, 1>>,   \* 64, 0, 0, 0, 0
   <<0, 1, 0, 0, 0, 0, 0, 0, 1, 1, 1, 0, 1, 0, 0, 0, 1, 0, 0, 1, 1, 0, 0, 0, 1, 0, 0, 1, 1, 0, 1>>,   \* 31, 255, 0, 0, 0, 0
   <<0, 1, 1, 0, 1, 1, 1, 0, 1, 1, 0, 0, 1, 0, 1, 0, 0, 0, 0, 0, 1, 0, 1, 1, 1, 0, 1, 1, 0, 0, 0>>,   \* 0, 255, 0, 255, 0, 255, 0
   <<0, 0, 1, 0, 0, 1, 0, 1, 0, 0, 0, 1, 0, 1, 1, 1, 1, 0, 0, 1, 1, 0, 1, 0, 1, 0, 0, 0, 0, 1, 1>>,   \* 127, 255, 0, 255, 0, 255, 0
   <<1, 1, 1, 1, 1, 1, 1, 0, 1, 0, 0, 1, 0, 1, 0, 0, 0, 1, 0, 1, 1, 1, 1, 0, 0, 1, 1, 0, 1, 0, 0>>>>   \* 254, 255, 0, 255, 0, 255, 0

ArithCarries ==
  {[Base([b \in 1 .. 36 |-> (0 :> (Toward[t] \o r)[b])],
         <<[Nines EXCEPT !.Ah = 0, !.Al = 1], Nines>>) EXCEPT
      !.component = [b \in 1 .. 36 |-> IF b % 9 = 0 THEN 2 ELSE 1]] :
     t \in DOMAIN Toward, r \in Seqs({0, 1}, 5)}

-------------------------------------------------------------------------------
(***************************************************************************)
(* Huffman coding with optimized tables; the encoder and the decoder       *)
(* suspend at many places.                                                 *)
(***************************************************************************)
Bytewise(j) == [j EXCEPT !.arriving = {1, 100}]

HuffSequential ==
  {Bytewise(Huffman(Base(blocks, <<Sequential(3, 3, r)>>))) :
     blocks \in Three(Pool), r \in {0, 1}}

HuffInterleaved ==
  {Bytewise(Huffman(TwoComponents(Base(blocks, <<Interleaved(Sequential(3, 4, 1), 4, t)>>)))) :
     blocks \in Four(Pool), t \in {<<0, 0>>, <<0, 1>>}}

\* Long runs of zeros, blocks of one coefficient, and decoding at reduced size.
HuffSizes ==
  {Huffman(Base(<<Block(24, 0 :> 3 @@ 24 :> -1), Block(24, 1 :> 5 @@ 18 :> 2 @@ 24 :> 7),
                  Block(24, 17 :> 1), Full(24, 0)>>,
                <<[Sequential(24, 4, 3) EXCEPT !.coef_limit = <<l>>]>>)) :
     l \in {0, 1, 2, 7, 25}}
  \cup {Bytewise(Huffman(Base(<<(0 :> v[1]), (0 :> v[2]), (0 :> 7)>>, <<Sequential(0, 3, 2)>>))) :
          v \in Seqs({-1024, 0, 1023}, 2)}

HuffProgressive ==
  {Bytewise(Huffman(Base(blocks, Script(3, 3, r)))) :
     blocks \in Three(RefinePool), r \in {0, 2}}

\* Blocks whose refinement takes several bytes: corrections before, between and
\* after new coefficients, and in runs of more than 15 zeros.
WidePool ==
  { [k \in 0 .. 24 |-> CASE k % 3 = 0 -> 1 [] k % 3 = 1 -> -3 [] OTHER -> 0],
    [k \in 0 .. 24 |-> IF k % 2 = 0 THEN -1 ELSE 2 + (k % 4) \div 2],
    [k \in 0 .. 24 |-> IF k \in {3, 9} THEN 2 ELSE IF k \in {21, 23} THEN -1 ELSE 0],
    Full(24, -3) }

HuffWide ==
  {Bytewise(Huffman(Base(blocks, Script(24, 3, r)))) :
     blocks \in Three(WidePool), r \in {0, 1}}

(***************************************************************************)
(* Limits of a progressive scan: correction bits up to and over the        *)
(* threshold at which they are flushed (14 blocks of 63, one of 54 to 56,  *)
(* and one more of 63), and EOB runs up to the longest.                    *)
(***************************************************************************)
CorrectionBits ==
  {Huffman(Base([b \in 1 .. 16 |-> IF b = 15 THEN [k \in 0 .. 63 |-> IF k <= n THEN 3 ELSE 0]
                                   ELSE Full(63, -3)],
                <<Single(0, 0, 0, 0, 63, 16, 0), Single(1, 63, 0, 1, 63, 16, 0),
                  Single(1, 63, 1, 0, 63, 16, 0)>>)) :
     n \in {54, 55, 56}}

RunEnds == { Full(3, 0), Block(3, 2 :> 2), Block(3, 1 :> 1) }
LongRuns ==
  {[Huffman(Base(<<Full(3, 0), b[1], Full(3, 0), b[2]>>,
                 <<Single(1, 3, 0, 1, 3, 4, 0), Single(1, 3, 1, 0, 3, 4, 0)>>))
      EXCEPT !.blanks = n] :
     n \in {32763, 32764, 32765, 32766}, b \in Seqs(RunEnds, 2)}

(***************************************************************************)
(* Counts that make codes of 17 to 33 bits, and one longer than the error  *)
(* exit allows, and counts that are all the same.  A sequence in which     *)
(* each is the sum of the two before gives every symbol a code length of   *)
(* its own; it starts above what the blocks themselves add to the counts.  *)
(***************************************************************************)
Fibonacci ==
  Huff!FoldLeft(LAMBDA s, i : Append(s, s[i] + s[i + 1]), <<60, 60>>, [i \in 1 .. 32 |-> i])
AcSymbol(i) == <<"ac", 0, 16 * ((i - 1) \div 9) + ((i - 1) % 9) + 1>>
SkewedTables ==
  {[Huffman(Base(<<Block(24, 0 :> 3 @@ 1 :> 511 @@ 3 :> -1), Full(24, -2),
                   Block(24, 4 :> 300 @@ 5 :> 7 @@ 24 :> -1)>>, <<Sequential(24, 3, 0)>>))
      EXCEPT !.counted = [key \in {AcSymbol(i) : i \in 1 .. n} |->
                            Fibonacci[CHOOSE i \in 1 .. n : AcSymbol(i) = key]]] :
     n \in (14 .. 24) \cup {30, 34}}
FlatTables ==
  {[Huffman(Base(<<Full(3, 1), Full(3, 0)>>, <<Sequential(3, 2, 0)>>))
      EXCEPT !.counted = [key \in {<<"ac", 0, 16 * r + s>> : r \in 0 .. n, s \in 1 .. 10} |-> 7]] :
     n \in 0 .. 2}

\* One restart interval damaged.
Damaged ==
  LET sequential == {Base(<<p[1], p[2], p[2]>>, <<Sequential(3, 3, 1)>>) : p \in Seqs(Pool, 2)}
      progressive == {Base(<<p[1], p[2], p[1], p[2], p[2], p[1]>>,
                           <<Single(0, 0, 0, 0, 3, 6, 2), Single(1, 3, 0, 1, 3, 6, 2),
                             Single(1, 3, 1, 0, 3, 6, 2)>>) : p \in Seqs(RefinePool, 2)}
      all == sequential \cup progressive \cup {Huffman(j) : j \in sequential \cup progressive}
  IN {[j EXCEPT !.harm = h] : j \in all, h \in {"lost", "changed"}}

MCJobs ==
  UNION {ArithSequential, ArithInterleaved, ArithProgressive, ArithCarries,
         HuffSequential, HuffInterleaved, HuffSizes, HuffProgressive, HuffWide,
         CorrectionBits, LongRuns, SkewedTables, FlatTables, Damaged}
MCWrong == {0, 90}
===============================================================================
