------------------------------ MODULE CodedBytes ------------------------------
(***************************************************************************)
(* The bytes of an entropy-coded segment, as the four entropy coders of    *)
(* libjpeg write and read them (jchuff.c, jcarith.c, jdhuff.c, jdarith.c): *)
(* a data byte 0xFF is followed by a stuffed zero, and 0xFF followed by    *)
(* anything else is a marker.  A file is a sequence of bytes of which the  *)
(* first "avail" have arrived; a position is the index of the next byte.   *)
(***************************************************************************)
EXTENDS Integers, Sequences, FiniteSetsExt

RST0 == 208

\* A data byte as it goes to the file.
Stuffed(b) == IF b = 255 THEN <<255, 0>> ELSE <<b>>

ZeroBytes(n) == [i \in 1 .. n |-> 0]

\* What follows, given x.
Given(x, Rest(_)) == Rest(x)

\* The blocks 1 .. n of an MCU one after the other.
ForBlocks(Code(_, _), start, n) ==
  LET after[b \in 0 .. n] == IF b = 0 THEN start ELSE Code(after[b - 1], b)
  IN after[n]

(***************************************************************************)
(* The next data byte or marker at a position; extra 0xFF bytes are        *)
(* swallowed.                                                              *)
(***************************************************************************)
NextByte(file, avail, pos) ==
  IF pos <= avail /\ file[pos] # 255
  THEN [kind |-> "data", val |-> file[pos], pos |-> pos + 1]
  ELSE LET later == {p \in pos .. avail : file[p] # 255}
           p == Min(later)
       IN IF later = {} THEN [kind |-> "starved", val |-> 0, pos |-> pos]
          ELSE IF file[p] = 0
               THEN [kind |-> "data", val |-> 255, pos |-> p + 1]
               ELSE [kind |-> "marker", val |-> file[p], pos |-> p + 1]

(***************************************************************************)
(* next_marker: skip to the next marker.  "skipped" tells whether bytes    *)
(* were passed over, which the caller reports as extraneous data.          *)
(***************************************************************************)
NextMarker(file, avail, pos) ==
  LET places == {p \in pos .. avail - 1 :
                   file[p] = 255 /\ file[p + 1] \notin {0, 255}}
      p == Min(places)
  IN IF places = {} THEN [kind |-> "starved", val |-> 0, pos |-> pos, skipped |-> FALSE]
     ELSE [kind |-> "marker", val |-> file[p + 1], pos |-> p + 2,
           skipped |-> \E q \in pos .. p - 1 : file[q] # 255]

\* The markers of a file, in order.
RECURSIVE MarkersFrom(_, _)
MarkersFrom(file, pos) ==
  LET m == NextMarker(file, Len(file), pos)
  IN IF m.kind = "starved" THEN <<>>
     ELSE <<m.val>> \o MarkersFrom(file, m.pos)

(***************************************************************************)
(* read_restart_marker: the marker, unless the decoder has met it already, *)
(* must be the next RSTn.  When another one is found the decoder           *)
(* resynchronizes, which module MarkerReader describes; here it is only    *)
(* recorded.                                                               *)
(***************************************************************************)
ReadRestartMarker(d) ==
  LET m == NextMarker(d.file, d.avail, d.pos)
      d1 == IF d.unread_marker # 0 THEN d
            ELSE [d EXCEPT !.unread_marker = m.val, !.pos = m.pos,
                           !.warned = @ \/ m.skipped]
  IN IF d.unread_marker = 0 /\ m.kind = "starved" THEN [d EXCEPT !.status = "suspend"]
     ELSE IF d1.unread_marker = RST0 + d.next_restart_num
          THEN [d1 EXCEPT !.unread_marker = 0,
                          !.next_restart_num = (@ + 1) % 8]
          ELSE [d1 EXCEPT !.warned = TRUE, !.next_restart_num = (@ + 1) % 8]
===============================================================================
