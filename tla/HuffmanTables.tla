----------------------------- MODULE HuffmanTables -----------------------------
(***************************************************************************)
(* Huffman tables (jchuff.c, jdhuff.c): the optimal table for the counts   *)
(* of a gathering pass, and the tables the encoder and the decoder derive  *)
(* from the bits[] and huffval[] of a DHT marker.                          *)
(***************************************************************************)
EXTENDS Integers, Sequences, SequencesExt, FiniteSets

MAX_CLEN == 32            \* assumed maximum initial code length
MAX_FREQ == 1000000000    \* a greater count is never looked at
Longest == 16             \* longest code JPEG allows
Pseudo == 256             \* reserves the code of all ones
HUFF_LOOKAHEAD == 8

-------------------------------------------------------------------------------
(***************************************************************************)
(* The smallest count; in case of ties the larger symbol number, which     *)
(* makes the pseudo-symbol one of the longest codes.  A tree is known by   *)
(* its root symbol, and leaves are the symbols chained to it.              *)
(***************************************************************************)
Smallest(trees) ==
  CHOOSE t \in trees : \A u \in trees :
    t.freq < u.freq \/ (t.freq = u.freq /\ t.root >= u.root)

\* Huffman's algorithm: merge the two smallest until one is left, or the others
\* are too great to be found.
RECURSIVE CodeSizes(_, _)
CodeSizes(trees, codesize) ==
  LET found == {t \in trees : t.freq <= MAX_FREQ}
      c1 == Smallest(found)
      c2 == Smallest(found \ {c1})
      leaves == c1.leaves \union c2.leaves
      merged == [root |-> c1.root, freq |-> c1.freq + c2.freq, leaves |-> leaves]
  IN IF Cardinality(found) <= 1 THEN codesize
     ELSE CodeSizes((trees \ {c1, c2}) \union {merged},
                    [s \in DOMAIN codesize |->
                       codesize[s] + IF s \in leaves THEN 1 ELSE 0])

(***************************************************************************)
(* Lengths over 16: two symbols leave length i; their prefix goes to one   *)
(* of them, and a code of the next shorter length in use becomes the       *)
(* prefix of the other and of the symbol it had.                           *)
(***************************************************************************)
RECURSIVE LimitLengths(_, _)
LimitLengths(bits, i) ==
  LET j == CHOOSE x \in 1 .. i - 2 :
             bits[x] > 0 /\ \A y \in x + 1 .. i - 2 : bits[y] = 0
      moved == [l \in DOMAIN bits |->
                  bits[l] - (IF l = i THEN 2 ELSE 0) + (IF l = i - 1 THEN 1 ELSE 0)
                          + (IF l = j + 1 THEN 2 ELSE 0) - (IF l = j THEN 1 ELSE 0)]
  IN IF i = Longest THEN bits
     ELSE IF bits[i] = 0 THEN LimitLengths(bits, i - 1)
     ELSE LimitLengths(moved, i)

\* The pseudo-symbol is one of the longest codes still in use.
WithoutPseudo(bits) ==
  LET last == CHOOSE l \in 1 .. Longest :
                bits[l] > 0 /\ \A m \in l + 1 .. Longest : bits[m] = 0
  IN [l \in 1 .. Longest |-> bits[l] - IF l = last THEN 1 ELSE 0]

(***************************************************************************)
(* jpeg_gen_optimal_table, from the counts of the symbols that occur; the  *)
(* empty tuple is the error exit for a code longer than MAX_CLEN.          *)
(***************************************************************************)
jpeg_gen_optimal_table(freq) ==
  LET symbols == DOMAIN freq
      leaf(s) == [root |-> s, leaves |-> {s},
                  freq |-> IF s = Pseudo THEN 1 ELSE freq[s]]
      codesize == CodeSizes({leaf(s) : s \in symbols \union {Pseudo}},
                            [s \in symbols \union {Pseudo} |-> 0])
      bits == [l \in 1 .. MAX_CLEN |-> Cardinality({s \in DOMAIN codesize : codesize[s] = l})]
      before(s, t) == codesize[s] < codesize[t]
                      \/ (codesize[s] = codesize[t] /\ s < t)
      coded == {s \in symbols : codesize[s] > 0}
  IN IF \E s \in DOMAIN codesize : codesize[s] > MAX_CLEN THEN <<>>
     ELSE [bits |-> WithoutPseudo(LimitLengths(bits, MAX_CLEN)),
           huffval |-> [p \in 1 .. Cardinality(coded) |->
                         CHOOSE s \in coded : Cardinality({t \in coded : before(t, s)}) = p - 1]]

-------------------------------------------------------------------------------
\* Figure C.1: the code length of each entry of huffval.
huffsize(tbl) ==
  FlattenSeq([l \in 1 .. Longest |-> [i \in 1 .. tbl.bits[l] |-> l]])

\* Figure C.2: the codes.
huffcode(tbl) ==
  LET sizes == huffsize(tbl)
      code[p \in 1 .. Len(sizes)] ==
        IF p = 1 THEN 0
        ELSE (code[p - 1] + 1) * 2 ^ (sizes[p] - sizes[p - 1])
  IN [p \in 1 .. Len(sizes) |-> code[p]]

\* The counts are those of a code tree in which no code is all ones.
LegalTree(tbl) ==
  LET sizes == huffsize(tbl)  codes == huffcode(tbl)
  IN /\ Len(sizes) <= 256
     /\ \A p \in DOMAIN sizes : codes[p] + 1 < 2 ^ sizes[p]

\* jpeg_make_c_derived_tbl: code and size of each symbol; an error when bad.
jpeg_make_c_derived_tbl(tbl, maxsymbol) ==
  LET sizes == huffsize(tbl)  codes == huffcode(tbl)
      Used(p) == tbl.huffval[p]
  IN IF /\ LegalTree(tbl)
        /\ \A p \in DOMAIN sizes : Used(p) <= maxsymbol
        /\ \A p, q \in DOMAIN sizes : p # q => Used(p) # Used(q)
     THEN [s \in {Used(p) : p \in DOMAIN sizes} |->
             LET p == CHOOSE x \in DOMAIN sizes : Used(x) = s
             IN [code |-> codes[p], size |-> sizes[p]]]
     ELSE <<>>

(***************************************************************************)
(* jpeg_make_d_derived_tbl: the largest code of each length, -1 if none,   *)
(* with a sentinel; where its symbols are in huffval; and the lookahead    *)
(* table, here of the codes of up to HUFF_LOOKAHEAD bits themselves.       *)
(***************************************************************************)
jpeg_make_d_derived_tbl(tbl) ==
  LET sizes == huffsize(tbl)  codes == huffcode(tbl)
      Of(l) == {p \in DOMAIN sizes : sizes[p] = l}
  IN [maxcode |-> [l \in 1 .. 17 |-> IF l = 17 THEN 1048575
                                     ELSE Max({-1} \union {codes[p] : p \in Of(l)})],
      valoffset |-> [l \in 1 .. 16 |-> IF Of(l) = {} THEN 0
                                       ELSE Min(Of(l)) - codes[Min(Of(l))]],
      huffval |-> tbl.huffval,
      look |-> [x \in {<<sizes[p], codes[p]>> :
                         p \in {q \in DOMAIN sizes : sizes[q] <= HUFF_LOOKAHEAD}} |->
                  tbl.huffval[CHOOSE p \in DOMAIN sizes : sizes[p] = x[1] /\ codes[p] = x[2]]]]
===============================================================================
