--------------------------- MODULE VirtualArraySpec ---------------------------
(***************************************************************************)
(* What a virtual array promises its clients (jpeglib.h, jmemmgr.c): a two *)
(* dimensional array that is larger than memory, of which the client sees  *)
(* one strip at a time.  A row keeps the value last stored in it, whatever *)
(* strips are visited in between; rows become defined in order, by being   *)
(* accessed for writing; a row of a pre-zeroed array reads as zero until   *)
(* it is stored into.  Nothing is said of windows or temporary files.      *)
(***************************************************************************)
EXTENDS Integers

CONSTANTS
  RowsInArray,  \* height of the array
  MaxAccess,    \* the most rows one access may ask for
  PreZero,      \* must new rows read as Zero?
  InMemory,     \* is the whole array held in memory?
  Value,        \* the contents a row can have
  Zero          \* the contents of an all-zero row

VARIABLES
  contents,     \* the defined rows: a function on 0 .. n-1
  view,         \* the strip the client sees: a function on its row numbers
  writable,     \* may the client store into the strip?
  status        \* "none", "requested", "ready" or an error code

absVars == <<contents, view, writable, status>>

EmptyFcn == [r \in {} |-> Zero]

Row == 0 .. RowsInArray - 1

Defined == DOMAIN contents

Strip(start, num) == start .. start + num - 1

\* The client keeps to the documented use of an access request.
Legal(start, num, write) ==
  /\ status = "ready"
  /\ start + num <= RowsInArray
  /\ num <= MaxAccess
  /\ write => start = 0 \/ start - 1 \in Defined
  /\ ~write => PreZero \/ Strip(start, num) \subseteq Defined

Init ==
  /\ contents = EmptyFcn
  /\ view = EmptyFcn
  /\ writable = FALSE
  /\ status = "none"

Become(s) ==
  /\ contents' = EmptyFcn
  /\ view' = EmptyFcn
  /\ writable' = FALSE
  /\ status' = s

Request == status = "none" /\ Become("requested")

Realize ==
  /\ status = "requested"
  /\ \/ Become("ready")
     \/ ~InMemory /\ Become("TFILE")

Access(start, num, write) ==
  \/ /\ Legal(start, num, write)
     /\ contents' \in [Defined \cup (IF write THEN Strip(start, num) ELSE {}) -> Value]
     /\ \A r \in Defined : contents'[r] = contents[r]
     /\ \A r \in (DOMAIN contents') \ Defined : PreZero => contents'[r] = Zero
     /\ view' = [r \in Strip(start, num) |->
                   IF r \in DOMAIN contents' THEN contents'[r] ELSE Zero]
     /\ writable' = write
     /\ UNCHANGED status
  \/ /\ ~Legal(start, num, write)
     /\ status \in {"requested", "ready"}
     /\ Become("BAD_VIRTUAL_ACCESS")
  \/ status = "ready" /\ ~InMemory /\ Become("TFILE")

Store(r, v) ==
  /\ status = "ready"
  /\ writable
  /\ r \in DOMAIN view
  /\ contents' = [contents EXCEPT ![r] = v]
  /\ view' = [view EXCEPT ![r] = v]
  /\ UNCHANGED <<writable, status>>

Free == status # "none" /\ Become("none")

Next ==
  \/ Request
  \/ Realize
  \/ \E start \in Row, num \in 1 .. RowsInArray, write \in BOOLEAN :
        Access(start, num, write)
  \/ \E r \in Row, v \in Value : Store(r, v)
  \/ Free

Spec == Init /\ [][Next]_absVars
===============================================================================
