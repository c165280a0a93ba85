------------------------------ MODULE ScanScript ------------------------------
(***************************************************************************)
(* Scan scripts: what validate_script (jcmaster.c) admits, how             *)
(* reduce_script shortens a script for small DCT blocks, the scripts of    *)
(* jpeg_simple_progression (jcparam.c), and what the decoder (jdhuff.c,    *)
(* the same text in jdarith.c) requires of a progressive scan.             *)
(*                                                                         *)
(* A script is a sequence of scans.  A scan is a record: comps, the        *)
(* numbers of its components (from 1), the spectral band Ss .. Se, and the *)
(* bit positions Ah (before) and Al (after).                               *)
(***************************************************************************)
EXTENDS Integers, Sequences, FiniteSets, FiniteSetsExt, Functions

CONSTANTS DCTSIZE, MAX_COMPS_IN_SCAN

ASSUME ScriptAssumption ==
  /\ DCTSIZE \in Nat \ {0}
  /\ MAX_COMPS_IN_SCAN \in Nat \ {0}

\* jpeg_scan_info
Scan == [comps : Seq(Int), Ss : Int, Se : Int, Ah : Int, Al : Int]

DCTSIZE2 == DCTSIZE * DCTSIZE
MAX_AH_AL == 10   \* for 8-bit samples

Minimum(a, b) == IF a <= b THEN a ELSE b

\* The bit position that coefficient k of component c has reached before scan
\* i of a script, -1 if no scan had it: last_bitpos of the encoder, and the
\* decoder's coef_bits.
last_bitpos(script, i, c, k) ==
  LET having == {j \in 1 .. i - 1 : /\ c \in Range(script[j].comps)
                                    /\ k \in script[j].Ss .. script[j].Se}
  IN  IF having = {} THEN -1 ELSE script[Max(having)].Al

Progressive(script) == script[1].Ss # 0 \/ script[1].Se # DCTSIZE2 - 1

ValidComponents(scan, num_components) ==
  /\ Len(scan.comps) \in 1 .. MAX_COMPS_IN_SCAN
  /\ \A n \in DOMAIN scan.comps : scan.comps[n] \in 1 .. num_components
  /\ \A n \in 2 .. Len(scan.comps) : scan.comps[n - 1] < scan.comps[n]

ValidProgression(script, i) ==
  LET scan == script[i]
  IN  /\ scan.Ss \in 0 .. DCTSIZE2 - 1 /\ scan.Se \in scan.Ss .. DCTSIZE2 - 1
      /\ {scan.Ah, scan.Al} \subseteq 0 .. MAX_AH_AL
      /\ scan.Ss = 0 => scan.Se = 0
      /\ scan.Ss # 0 => Len(scan.comps) = 1
      /\ \A c \in Range(scan.comps) :
           /\ scan.Ss # 0 => last_bitpos(script, i, c, 0) >= 0
           /\ \A k \in scan.Ss .. scan.Se :
                LET bitpos == last_bitpos(script, i, c, k)
                IN  IF bitpos < 0 THEN scan.Ah = 0
                    ELSE scan.Ah = bitpos /\ scan.Al = scan.Ah - 1

\* validate_script returns; it is left by an ERREXIT otherwise.
validate_script(script, num_components) ==
  /\ Len(script) > 0
  /\ \A i \in DOMAIN script : ValidComponents(script[i], num_components)
  /\ IF Progressive(script)
     THEN /\ \A i \in DOMAIN script : ValidProgression(script, i)
          /\ \A c \in 1 .. num_components :
               last_bitpos(script, Len(script) + 1, c, 0) >= 0
     ELSE /\ \A i \in DOMAIN script :
               /\ script[i].Ss = 0 /\ script[i].Se = DCTSIZE2 - 1
               /\ script[i].Ah = 0 /\ script[i].Al = 0
          /\ \A c \in 1 .. num_components :
               \E i \in DOMAIN script :
                 {j \in DOMAIN script : c \in Range(script[j].comps)} = {i}

\* The application's own array is changed: scans out of range are dropped, the
\* others move up and are limited to the block.  idxout(j) is the place of scan
\* j, counted from 1, if it is kept.
kept(script, lim_Se) == {j \in DOMAIN script : script[j].Ss <= lim_Se}
idxout(script, lim_Se, j) == Cardinality({k \in kept(script, lim_Se) : k <= j})
idxin(script, lim_Se, i) ==
  CHOOSE j \in kept(script, lim_Se) : idxout(script, lim_Se, j) = i
reduce_script(script, lim_Se) ==
  [i \in 1 .. Cardinality(kept(script, lim_Se)) |->
     [script[idxin(script, lim_Se, i)] EXCEPT !.Se = Minimum(@, lim_Se)]]

fill_a_scan(ci, ss, se, ah, al) ==
  <<[comps |-> <<ci>>, Ss |-> ss, Se |-> se, Ah |-> ah, Al |-> al]>>

fill_scans(ncomps, ss, se, ah, al) ==
  [ci \in 1 .. ncomps |-> fill_a_scan(ci, ss, se, ah, al)[1]]

fill_dc_scans(ncomps, ah, al) ==
  IF ncomps <= MAX_COMPS_IN_SCAN
  THEN <<[comps |-> [ci \in 1 .. ncomps |-> ci],
          Ss |-> 0, Se |-> 0, Ah |-> ah, Al |-> al]>>
  ELSE fill_scans(ncomps, 0, 0, ah, al)

jpeg_simple_progression(ncomps, YCbCr) ==
  LET last == DCTSIZE2 - 1
  IN  IF ncomps = 3 /\ YCbCr
      THEN fill_dc_scans(ncomps, 0, 1)
           \o fill_a_scan(1, 1, 5, 0, 2)
           \o fill_a_scan(3, 1, last, 0, 1)
           \o fill_a_scan(2, 1, last, 0, 1)
           \o fill_a_scan(1, 6, last, 0, 2)
           \o fill_a_scan(1, 1, last, 2, 1)
           \o fill_dc_scans(ncomps, 1, 0)
           \o fill_a_scan(3, 1, last, 1, 0)
           \o fill_a_scan(2, 1, last, 1, 0)
           \o fill_a_scan(1, 1, last, 1, 0)
      ELSE fill_dc_scans(ncomps, 0, 1)
           \o fill_scans(ncomps, 1, 5, 0, 2)
           \o fill_scans(ncomps, 6, last, 0, 2)
           \o fill_scans(ncomps, 1, last, 2, 1)
           \o fill_dc_scans(ncomps, 1, 0)
           \o fill_scans(ncomps, 1, last, 1, 0)

\* The decoder neither refuses scan i of a progressive file nor warns of
\* bogus progression.
DecoderAccepts(scans, i, lim_Se) ==
  LET scan == scans[i]
  IN  /\ IF scan.Ss = 0 THEN scan.Se = 0
         ELSE scan.Se \in scan.Ss .. lim_Se /\ Len(scan.comps) = 1
      /\ scan.Ah # 0 => scan.Al = scan.Ah - 1
      /\ scan.Al <= 13
      /\ \A c \in Range(scan.comps) :
           /\ scan.Ss # 0 => last_bitpos(scans, i, c, 0) >= 0
           /\ \A k \in scan.Ss .. scan.Se :
                scan.Ah = Max({0, last_bitpos(scans, i, c, k)})
===============================================================================
