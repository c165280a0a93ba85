---------------------------- MODULE MCMarkerReader ----------------------------
(***************************************************************************)
(* Files for MarkerReader: valid ones with every kind of marker, damaged   *)
(* ones that have lost restart markers, and ones that are cut off.         *)
(***************************************************************************)
EXTENDS MarkerReader

File(segments, n) ==
  [segs |-> segments, size |-> n, bytes |-> SubSeq(Written(segments), 1, n),
   home |-> SubSeq(Homes(segments), 1, n),
   ends |-> [k \in DOMAIN segments |-> Len(Written(SubSeq(segments, 1, k)))],
   valid |-> FALSE, recoverable |-> FALSE, survivors |-> {}, images |-> 1]

Whole(segments) == File(segments, Len(Written(segments)))

Frame(width, height) == SOF(width, height, <<<<7, 17, 0>>, <<9, 17, 1>>>>)
Scan1 == SOS(<<<<9, 2, 16>>>>, 0, 0, 1)
Scan2 == SOS(<<<<7, 1, 0>>, <<9, 2, 17>>>>, 0, 63, 0)

\* Tables of both precisions, one of them short, conditioning, a saved comment,
\* fill bytes, garbage with a stuffed zero, a pseudo scan, two scans.
Tables ==
  <<SOI, JFIFSeg(1, 2, 1, 300, 72, <<5>>),
          DQT(<<[slot |-> 1, prec |-> 0, vals |-> <<16, 11>>],
                [slot |-> 2, prec |-> 1, vals |-> <<300>>]>>),
          Other(254, <<1, 255, 217>>), Pad(2), DRI(1),
          DAC(<<[class |-> "dc", slot |-> 2, value |-> <<1, 3>>],
                [class |-> "ac", slot |-> 1, value |-> 7]>>),
          Frame(1, 1), DHT("ac", 2, <<4, 3>>), Garbage(<<3, 255, 0, 218>>),
          Scan1, Codes(1, <<255, 0>>), Restart(0), TEM,
          DRI(0), SOS(<<>>, 0, 0, 0), Scan2, Codes(1, <<8>>), Other(254, <<2>>), EOI>>

\* Two images, the second of which relies on the tables of the first.
Series ==
  <<SOI, DQT(<<[slot |-> 2, prec |-> 1, vals |-> <<300, 2>>]>>), Other(254, <<1, 255, 217>>),
    DRI(1), EOI,
    SOI, AdobeSeg(2), Other(225, <<4, 5, 6, 7>>), Frame(2, 1), Scan2,
    Codes(1, <<8>>), Codes(2, <<9>>), EOI>>

\* A comment whose length word is too small.
BogusLength == <<SOI, Garbage(<<255, 254, 0, 1>>), EOI>>

\* A scan of n intervals of one MCU each.  Those in lost have lost their restart
\* marker and their code; those in bare only the marker, and those in bogus have
\* another code in its place.
Intervals(n, lost, bare, bogus) ==
  <<SOI, DRI(1), Frame(n, 1), Scan2, Codes(1, <<1>>)>>
  \o Each(LAMBDA k : IF k \in lost THEN <<>>
                     ELSE (IF k \in bare THEN <<>>
                           ELSE IF k \in bogus THEN <<Garbage(<<255, 2>>)>>
                           ELSE <<Restart(k - 2)>>)
                          \o <<Codes(k, IF k % 2 = 0 THEN <<k>> ELSE <<255, 0>>)>>,
          [i \in 1 .. n - 1 |-> i + 1])
  \o <<EOI>>

Damaged(n, lost, bare, bogus) ==
  LET segments == Intervals(n, lost, bare, bogus)
  IN [Whole(segments) EXCEPT !.recoverable = TRUE,
                             !.survivors = (1 .. n) \ (lost \cup bare \cup bogus)]

AllFiles ==
  {[Whole(Tables) EXCEPT !.valid = TRUE], [Whole(Series) EXCEPT !.valid = TRUE, !.images = 2],
   File(BogusLength, 8)}
  \cup {File(Tables, n) : n \in {1, 47, 75}}
  \cup {Damaged(11, {2, 3}, {5}, {9, 10}), Damaged(11, {4}, {6, 7}, {2}),
        Damaged(4, {3, 4}, {}, {})}

Saving ==
  {<<>>, <<[code |-> 254, limit |-> 2], [code |-> 224, limit |-> 1], [code |-> 225, limit |-> 9]>>}
===============================================================================
