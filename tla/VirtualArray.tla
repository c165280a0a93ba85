----------------------------- MODULE VirtualArray -----------------------------
(***************************************************************************)
(* One virtual array of the memory manager (jmemmgr.c), in either of its   *)
(* two copies: sample arrays and coefficient-block arrays run the same     *)
(* code.  A window of RowsInMem rows starting at cur_start_row is held in  *)
(* mem_buffer; the rest lives in a temporary file.  An access that does    *)
(* not fall in the window writes the window back if it is dirty, moves it  *)
(* and reads it in.  Rows from first_undef_row on have never been given to *)
(* a writer and are neither written nor read.                              *)
(*                                                                         *)
(* A row's samples are abstracted to one value.  An ERREXIT leaves its     *)
(* code in status; after it the application can only abort, which frees    *)
(* the image pool.                                                         *)
(***************************************************************************)
EXTENDS Integers

CONSTANTS
  RowsInArray,    \* rows_in_array
  MaxAccess,      \* maxaccess
  MaxMinheights,  \* max_minheights of realize_virt_arrays: what memory allows
  ChunkLimit,     \* rows that fit in one allocation of MAX_ALLOC_CHUNK bytes
  PreZero,        \* pre_zero
  Value,          \* the contents a row can have
  Zero,           \* the contents of a row that was cleared
  Unwritten       \* a row of the temporary file that was never written

ASSUME ArrayAssumption ==
  /\ RowsInArray \in Nat \ {0}
  /\ MaxAccess \in Nat \ {0}
  /\ MaxMinheights \in Nat \ {0}
  /\ ChunkLimit \in Nat \ {0}
  /\ PreZero \in BOOLEAN
  /\ Zero \in Value
  /\ Unwritten \notin Value

VARIABLES
  mem_buffer,       \* the window, rows 0 .. RowsInMem-1 of the buffer
  backing_store,    \* the temporary file, by row of the array
  b_s_open,         \* is there a temporary file?
  cur_start_row,    \* array row held in buffer row 0
  first_undef_row,  \* first row never accessed for writing
  dirty,            \* must the window be written back before it moves?
  strip,            \* the rows the client was last given: start, end, writable
  status            \* "none", "requested", "ready" or the code of an ERREXIT

vars == <<mem_buffer, backing_store, b_s_open, cur_start_row,
          first_undef_row, dirty, strip, status>>

Row == 0 .. RowsInArray - 1

Min2(a, b) == IF a <= b THEN a ELSE b

\* Minheights that cover the array, rounding up.
Minheights == (RowsInArray - 1) \div MaxAccess + 1

FitsInMemory == Minheights <= MaxMinheights

RowsInMem == IF FitsInMemory THEN RowsInArray ELSE MaxMinheights * MaxAccess

BufRow == 0 .. RowsInMem - 1

RowsPerChunk == Min2(ChunkLimit, RowsInMem)

Error == {"BAD_VIRTUAL_ACCESS", "VIRTUAL_BUG", "TFILE"}

NoStrip == [start |-> 0, end |-> 0, writable |-> FALSE]

TypeOK ==
  /\ mem_buffer \in [BufRow -> Value]
  /\ backing_store \in [Row -> Value \cup {Unwritten}]
  /\ b_s_open \in BOOLEAN
  /\ cur_start_row \in Row
  /\ first_undef_row \in 0 .. RowsInArray
  /\ dirty \in BOOLEAN
  /\ strip \in [start : Nat, end : Nat, writable : BOOLEAN]
  /\ status \in {"none", "requested", "ready"} \cup Error

-------------------------------------------------------------------------------
\* Seeded fault: the transfer is cut short at the end of the array only.
TransferredUndef(cur) == {i \in BufRow : cur + i < RowsInArray}

\* The buffer rows do_sarray_io / do_barray_io transfer for a window starting
\* at array row cur: each allocation chunk is cut short at the first undefined
\* row and at the end of the array.
Transferred(cur) ==
  {i \in BufRow :
     LET chunk == (i \div RowsPerChunk) * RowsPerChunk
         rows == Min2(Min2(RowsPerChunk, RowsInMem - chunk),
                      Min2(first_undef_row - (cur + chunk),
                           RowsInArray - (cur + chunk)))
     IN i - chunk < rows}

\* Seeded fault: the flush forgets the row just below first_undef_row.
WrittenBackShort ==
  [r \in Row |->
     IF r - cur_start_row \in Transferred(cur_start_row) /\ r + 1 < first_undef_row
       THEN mem_buffer[r - cur_start_row]
       ELSE backing_store[r]]

\* The file after the window has been written to it.
WrittenBack ==
  [r \in Row |->
     IF r - cur_start_row \in Transferred(cur_start_row)
       THEN mem_buffer[r - cur_start_row]
       ELSE backing_store[r]]

\* The buffer after a window starting at cur has been read from file.  Reading
\* a row that was never written yields nothing the buffer could hold: the
\* invariant NoRowLost says it does not happen.
ReadIn(file, cur) ==
  [i \in BufRow |->
     IF i \in Transferred(cur) THEN file[cur + i] ELSE mem_buffer[i]]

InWindow(start, end) ==
  /\ start >= cur_start_row
  /\ end <= cur_start_row + RowsInMem

\* Seeded fault: the backward scan loads up to the start of the target.
NewStartOff(start, end) ==
  IF start > cur_start_row THEN start
  ELSE IF start - RowsInMem < 0 THEN 0 ELSE start - RowsInMem

\* Forward: the target becomes the start of the window.  Backward: its end.
NewStart(start, end) ==
  IF start > cur_start_row THEN start
  ELSE IF end - RowsInMem < 0 THEN 0 ELSE end - RowsInMem

\* Window, file and dirty flag once rows start .. end-1 are accessible.
Accessible(start, end) ==
  IF InWindow(start, end)
    THEN [cur |-> cur_start_row, buffer |-> mem_buffer,
          file |-> backing_store, dirty |-> dirty]
    ELSE LET file == IF dirty THEN WrittenBack ELSE backing_store
             cur == NewStart(start, end)
         IN [cur |-> cur, buffer |-> ReadIn(file, cur),
             file |-> file, dirty |-> FALSE]

\* Seeded fault: every access to a pre-zeroed array clears its strip.
ClearedAll(buffer, cur, start, end) ==
  [i \in BufRow |->
     IF PreZero /\ start <= cur + i /\ cur + i < end THEN Zero ELSE buffer[i]]

\* The buffer with the undefined rows of start .. end-1 cleared.
Cleared(buffer, cur, start, end) ==
  LET undef_row == IF first_undef_row < start THEN start ELSE first_undef_row
  IN [i \in BufRow |->
        IF PreZero /\ undef_row <= cur + i /\ cur + i < end THEN Zero
        ELSE buffer[i]]

-------------------------------------------------------------------------------
Init ==
  /\ mem_buffer \in [BufRow -> Value]
  /\ backing_store = [r \in Row |-> Unwritten]
  /\ b_s_open = FALSE
  /\ cur_start_row = 0
  /\ first_undef_row = 0
  /\ dirty = FALSE
  /\ strip = NoStrip
  /\ status = "none"

\* request_virt_sarray, request_virt_barray: only a control block; the fields
\* set by realize_virt_arrays keep whatever they hold.
Request ==
  /\ status = "none"
  /\ status' = "requested"
  /\ b_s_open' = FALSE
  /\ UNCHANGED <<mem_buffer, backing_store, cur_start_row, first_undef_row,
                 dirty, strip>>

\* realize_virt_arrays for this array.  The buffer is fresh memory, hence holds
\* anything; opening the temporary file may fail.
Realize ==
  /\ status = "requested"
  /\ \/ /\ b_s_open' = ~FitsInMemory
        /\ mem_buffer' \in [BufRow -> Value]
        /\ backing_store' = [r \in Row |-> Unwritten]
        /\ cur_start_row' = 0
        /\ first_undef_row' = 0
        /\ dirty' = FALSE
        /\ status' = "ready"
        /\ UNCHANGED strip
     \/ /\ ~FitsInMemory
        /\ status' = "TFILE"
        /\ UNCHANGED <<mem_buffer, backing_store, b_s_open, cur_start_row,
                       first_undef_row, dirty, strip>>

\* The request checks at the head of access_virt_sarray / access_virt_barray.
BadRequest(start, num) ==
  \/ start + num > RowsInArray
  \/ num > MaxAccess
  \/ status = "requested"

Reject(code) ==
  /\ status' = code
  /\ strip' = NoStrip

\* The code of the ERREXIT an access ends in before anything has changed: the
\* last one when the window must move but there is no file behind it.
Refusal(start, num) ==
  IF BadRequest(start, num) THEN "BAD_VIRTUAL_ACCESS"
  ELSE IF ~InWindow(start, start + num) /\ ~b_s_open THEN "VIRTUAL_BUG"
  ELSE "none"

AccessRefused(start, num) ==
  /\ status \in {"requested", "ready"}
  /\ Refusal(start, num) # "none"
  /\ Reject(Refusal(start, num))
  /\ UNCHANGED <<mem_buffer, backing_store, b_s_open, cur_start_row,
                 first_undef_row, dirty>>

\* A write or a read of the temporary file fails.
AccessFileError(start, num) ==
  LET end == start + num
      w == Accessible(start, end)
  IN /\ status = "ready"
     /\ Refusal(start, num) = "none"
     /\ ~InWindow(start, end)
     /\ Reject("TFILE")
     /\ \/ /\ dirty                       \* in do_..._io(..., TRUE)
           /\ UNCHANGED <<backing_store, cur_start_row, dirty>>
        \/ /\ backing_store' = w.file     \* in do_..._io(..., FALSE)
           /\ cur_start_row' = w.cur
           /\ dirty' = w.dirty
     /\ UNCHANGED <<mem_buffer, b_s_open, first_undef_row>>

\* The writer skipped over undefined rows, or the reader asked for rows that
\* hold nothing and are not to be cleared.
Undefined(start, end, writable) ==
  /\ first_undef_row < end
  /\ IF writable THEN first_undef_row < start ELSE ~PreZero

Access(start, num, writable) ==
  LET end == start + num
      w == Accessible(start, end)
  IN /\ status = "ready"
     /\ Refusal(start, num) = "none"
     /\ cur_start_row' = w.cur
     /\ backing_store' = w.file
     /\ IF Undefined(start, end, writable)
          THEN /\ Reject("BAD_VIRTUAL_ACCESS")
               /\ mem_buffer' = w.buffer
               /\ dirty' = w.dirty
               /\ UNCHANGED first_undef_row
          ELSE /\ mem_buffer' = Cleared(w.buffer, w.cur, start, end)
               /\ first_undef_row' = IF writable /\ first_undef_row < end
                                       THEN end ELSE first_undef_row
               /\ dirty' = (w.dirty \/ writable)
               /\ strip' = [start |-> start, end |-> end, writable |-> writable]
               /\ UNCHANGED status
     /\ UNCHANGED b_s_open

\* The client stores through the pointer the access returned, which is
\* mem_buffer + (start_row - cur_start_row).
Store(r, v) ==
  /\ status = "ready"
  /\ strip.writable
  /\ strip.start <= r /\ r < strip.end
  /\ mem_buffer' = [mem_buffer EXCEPT ![r - cur_start_row] = v]
  /\ UNCHANGED <<backing_store, b_s_open, cur_start_row, first_undef_row,
                 dirty, strip, status>>

\* free_pool(JPOOL_IMAGE), reached from jpeg_abort after success or error.
Free ==
  /\ status # "none"
  /\ status' = "none"
  /\ b_s_open' = FALSE
  /\ strip' = NoStrip
  /\ UNCHANGED <<mem_buffer, backing_store, cur_start_row, first_undef_row,
                 dirty>>

AnyAccess(start, num) ==
  \/ AccessRefused(start, num)
  \/ AccessFileError(start, num)
  \/ \E writable \in BOOLEAN : Access(start, num, writable)

Next ==
  \/ Request
  \/ Realize
  \/ \E start \in Row, num \in 1 .. RowsInArray : AnyAccess(start, num)
  \/ \E r \in Row, v \in Value : Store(r, v)
  \/ Free

Spec == Init /\ [][Next]_vars

-------------------------------------------------------------------------------
Window == cur_start_row .. cur_start_row + RowsInMem - 1

\* No legal sequence of calls makes access_virt_?array move the window of an
\* array that has no temporary file (JERR_VIRTUAL_BUG never happens).
NoVirtualBug == status # "VIRTUAL_BUG"

\* The pointer handed out stays inside the buffer for every row of the strip:
\* mem_buffer + (start_row - cur_start_row) is a row of the window, and so is
\* the last one, whichever way the window moved.
StripInWindow ==
  /\ strip.start < strip.end =>
       cur_start_row <= strip.start /\ strip.end <= cur_start_row + RowsInMem
  /\ strip.writable => dirty /\ strip.end <= first_undef_row

\* A legal access is served, with a pointer that is good for all of the strip.
AccessesServed == NoVirtualBug /\ StripInWindow

\* No defined row is lost: one outside the window was written to the file, one
\* inside a window that is not dirty has the same value there, so that neither
\* a move of the window nor a later read-back can lose it.
NoRowLost ==
  status = "ready" =>
    \A r \in 0 .. first_undef_row - 1 :
      /\ r \notin Window => backing_store[r] # Unwritten
      /\ r \in Window /\ ~dirty => backing_store[r] = mem_buffer[r - cur_start_row]

\* The windowed array keeps the promise of VirtualArraySpec.  A defined row is
\* in the window, where the buffer has it, or else in the file.
AbsContents ==
  IF status # "ready" THEN [r \in {} |-> Zero]
  ELSE [r \in 0 .. first_undef_row - 1 |->
          IF r \in Window THEN mem_buffer[r - cur_start_row] ELSE backing_store[r]]

AbsView ==
  IF status # "ready" THEN [r \in {} |-> Zero]
  ELSE [r \in strip.start .. strip.end - 1 |-> mem_buffer[r - cur_start_row]]

Abs == INSTANCE VirtualArraySpec WITH
         InMemory <- FitsInMemory,
         contents <- AbsContents,
         view <- AbsView,
         writable <- strip.writable

AbsSpec == Abs!Spec
===============================================================================
