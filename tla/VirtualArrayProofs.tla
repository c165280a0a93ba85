-------------------------- MODULE VirtualArrayProofs --------------------------
(***************************************************************************)
(* Proofs about VirtualArray for arrays, windows and allocation chunks of  *)
(* any size: type correctness, the three safety invariants, and that the   *)
(* windowed array implements VirtualArraySpec.                             *)
(***************************************************************************)
EXTENDS VirtualArray, TLAPS

-------------------------------------------------------------------------------
(* Arithmetic of the window                                                *)

\* The array needs at least one minheight; the window holds one access at
\* least and the array at most, and all of it exactly when it fits in memory.
LEMMA WindowSize ==
  /\ RowsInMem \in Nat \ {0}
  /\ RowsInMem <= RowsInArray
  /\ FitsInMemory => RowsInMem = RowsInArray
  /\ ~FitsInMemory => MaxAccess <= RowsInMem
<1> USE ArrayAssumption
<1>1. CASE FitsInMemory
  BY <1>1 DEF RowsInMem
<1>2. CASE ~FitsInMemory
  <2> DEFINE q == (RowsInArray - 1) \div MaxAccess
  <2>1. q \in Nat /\ q * MaxAccess <= RowsInArray - 1
    <3>1. RowsInArray - 1 \in Nat /\ MaxAccess \in Nat \ {0}
      OBVIOUS
    <3>2. q \in Int /\ RowsInArray - 1 = MaxAccess * q + ((RowsInArray - 1) % MaxAccess)
      BY <3>1
    <3>3. (RowsInArray - 1) % MaxAccess >= 0
      BY <3>1
    <3> QED BY <3>1, <3>2, <3>3
  <2>2. MaxMinheights <= q
    BY <1>2, <2>1 DEF FitsInMemory, Minheights
  <2>3. MaxMinheights * MaxAccess <= q * MaxAccess
    BY <2>1, <2>2
  <2>4. MaxMinheights * MaxAccess \in Nat /\ MaxAccess <= MaxMinheights * MaxAccess
    OBVIOUS
  <2> QED
    BY <1>2, <2>1, <2>3, <2>4 DEF RowsInMem
<1> QED BY <1>1, <1>2

\* Chunk by chunk, do_sarray_io / do_barray_io transfer exactly the defined
\* rows of the window: the chunks leave no gap, and none is transferred beyond
\* the first undefined row.
LEMMA TransferredRows ==
  ASSUME NEW cur \in Int, first_undef_row \in 0 .. RowsInArray
  PROVE  Transferred(cur) = {i \in BufRow : cur + i < first_undef_row}
<1> USE ArrayAssumption
<1>1. RowsInMem \in Nat \ {0}
  BY WindowSize
<1>2. RowsPerChunk \in Nat \ {0}
  BY <1>1 DEF RowsPerChunk, Min2
<1>3. ASSUME NEW i \in BufRow
      PROVE  LET chunk == (i \div RowsPerChunk) * RowsPerChunk
                 rows == Min2(Min2(RowsPerChunk, RowsInMem - chunk),
                              Min2(first_undef_row - (cur + chunk),
                                   RowsInArray - (cur + chunk)))
             IN i - chunk < rows <=> cur + i < first_undef_row
  <2> DEFINE chunk == (i \div RowsPerChunk) * RowsPerChunk
  <2>1. i \in Nat /\ i < RowsInMem
    BY <1>1 DEF BufRow
  <2>2. chunk \in Int /\ chunk <= i /\ i < chunk + RowsPerChunk
    <3>1. /\ i = RowsPerChunk * (i \div RowsPerChunk) + (i % RowsPerChunk)
          /\ i % RowsPerChunk >= 0
          /\ i % RowsPerChunk < RowsPerChunk
          /\ i \div RowsPerChunk \in Int
          /\ i % RowsPerChunk \in Int
      BY <1>2, <2>1
    <3> QED BY <1>2, <2>1, <3>1
  <2> HIDE DEF chunk
  <2>3. Min2(Min2(RowsPerChunk, RowsInMem - chunk),
             Min2(first_undef_row - (cur + chunk), RowsInArray - (cur + chunk)))
          > i - chunk <=> cur + i < first_undef_row
    BY <1>1, <1>2, <2>1, <2>2 DEF Min2
  <2> QED
    BY <2>3 DEF chunk
<1> QED
  BY <1>3 DEF Transferred

-------------------------------------------------------------------------------
(* The inductive invariant                                                 *)

\* Only an array that does not fit in memory has a temporary file, and the
\* window of one that fits never leaves row 0.
Backed ==
  status = "ready" =>
    /\ b_s_open <=> ~FitsInMemory
    /\ FitsInMemory => cur_start_row = 0

\* No strip outlives the array or an error.
NoStaleStrip == status # "ready" => strip = NoStrip

IInv ==
  /\ TypeOK
  /\ NoVirtualBug
  /\ StripInWindow
  /\ NoRowLost
  /\ Backed
  /\ NoStaleStrip

\* The value of a defined row: in the window, the buffer has it; outside it,
\* the file.
Held(r) ==
  IF r \in Window THEN mem_buffer[r - cur_start_row] ELSE backing_store[r]

\* A legal request finds its rows in the window once the window has moved, and
\* no defined row changes its value or loses its only copy on the way.
LEMMA MoveKeepsRows ==
  ASSUME TypeOK, NoRowLost, Backed, status = "ready",
         NEW start \in Row, NEW num \in 1 .. RowsInArray,
         ~BadRequest(start, num),
         InWindow(start, start + num) \/ b_s_open,
         NEW w, w = Accessible(start, start + num)
  PROVE  /\ w.cur \in Row
         /\ w.buffer \in [BufRow -> Value]
         /\ w.file \in [Row -> Value \cup {Unwritten}]
         /\ w.dirty \in BOOLEAN
         /\ FitsInMemory => w.cur = 0
         /\ w.cur <= start /\ start + num <= w.cur + RowsInMem
         /\ \A r \in 0 .. first_undef_row - 1 :
              /\ r \notin w.cur .. w.cur + RowsInMem - 1 =>
                   w.file[r] = Held(r) /\ w.file[r] # Unwritten
              /\ r \in w.cur .. w.cur + RowsInMem - 1 =>
                   /\ w.buffer[r - w.cur] = Held(r)
                   /\ ~w.dirty => w.file[r] = Held(r)
<1> USE ArrayAssumption
<1> DEFINE end == start + num
<1>1. /\ RowsInMem \in Nat \ {0} /\ RowsInMem <= RowsInArray
      /\ FitsInMemory => RowsInMem = RowsInArray
      /\ ~FitsInMemory => MaxAccess <= RowsInMem
  BY WindowSize
<1>2. /\ start \in Nat /\ num \in Nat /\ end \in Nat /\ start < end
      /\ end <= RowsInArray /\ num <= MaxAccess
  BY DEF Row, BadRequest
<1>3. /\ cur_start_row \in Nat /\ cur_start_row < RowsInArray
      /\ first_undef_row \in 0 .. RowsInArray
      /\ mem_buffer \in [BufRow -> Value]
      /\ backing_store \in [Row -> Value \cup {Unwritten}]
      /\ dirty \in BOOLEAN
  BY DEF TypeOK, Row
<1>4. CASE InWindow(start, end)
  <2>1. w = [cur |-> cur_start_row, buffer |-> mem_buffer,
             file |-> backing_store, dirty |-> dirty]
    BY <1>4 DEF Accessible
  <2>2. /\ w.cur = cur_start_row /\ w.buffer = mem_buffer
        /\ w.file = backing_store /\ w.dirty = dirty
    BY <2>1
  <2>3. w.cur <= start /\ end <= w.cur + RowsInMem
    BY <1>1, <1>2, <1>3, <1>4, <2>2 DEF InWindow
  <2>4. FitsInMemory => w.cur = 0
    BY <2>2 DEF Backed
  <2>5. w.cur .. w.cur + RowsInMem - 1 = Window
    BY <2>2 DEF Window
  <2>6. ASSUME NEW r \in 0 .. first_undef_row - 1
        PROVE  /\ r \notin Window =>
                    backing_store[r] = Held(r) /\ backing_store[r] # Unwritten
               /\ r \in Window =>
                    /\ mem_buffer[r - cur_start_row] = Held(r)
                    /\ ~dirty => backing_store[r] = Held(r)
    BY DEF NoRowLost, Held
  <2>7. w.cur \in Row /\ w.buffer \in [BufRow -> Value]
    BY <2>2 DEF TypeOK
  <2>8. w.file \in [Row -> Value \cup {Unwritten}] /\ w.dirty \in BOOLEAN
    BY <1>3, <2>2
  <2> QED
    BY <2>2, <2>3, <2>4, <2>5, <2>6, <2>7, <2>8
<1>5. CASE ~InWindow(start, end)
  <2> DEFINE file == IF dirty THEN WrittenBack ELSE backing_store
             cur == NewStart(start, end)
  <2>1. ~FitsInMemory /\ MaxAccess <= RowsInMem
    BY <1>1, <1>5 DEF Backed
  <2>2. w = [cur |-> cur, buffer |-> ReadIn(file, cur),
             file |-> file, dirty |-> FALSE]
    BY <1>5 DEF Accessible
  <2>3. /\ w.cur = cur /\ w.buffer = ReadIn(file, cur)
        /\ w.file = file /\ w.dirty = FALSE
    BY <2>2
  <2>4. /\ cur \in Row
        /\ cur <= start /\ end <= cur + RowsInMem
    BY <1>1, <1>2, <1>3, <1>5, <2>1 DEF NewStart, InWindow, Row
  <2>5. /\ file \in [Row -> Value \cup {Unwritten}]
        /\ \A r \in 0 .. first_undef_row - 1 :
             file[r] = Held(r) /\ file[r] # Unwritten
    <3>1. CASE ~dirty
      <4>1. ASSUME NEW r \in 0 .. first_undef_row - 1
            PROVE  backing_store[r] = Held(r) /\ backing_store[r] # Unwritten
        <5>1. CASE r \in Window
          <6>1. r - cur_start_row \in BufRow
            BY <1>1, <1>3, <5>1 DEF Window, BufRow
          <6> QED BY <1>3, <3>1, <5>1, <6>1 DEF NoRowLost, Held
        <5>2. CASE r \notin Window
          BY <5>2 DEF NoRowLost, Held
        <5> QED BY <5>1, <5>2
      <4> QED BY <1>3, <3>1, <4>1
    <3>2. CASE dirty
      <4>1. file = WrittenBack
        BY <3>2
      <4>2. Transferred(cur_start_row)
              = {i \in BufRow : cur_start_row + i < first_undef_row}
        BY <1>3, TransferredRows
      <4>3. ASSUME NEW r \in Row
            PROVE  /\ WrittenBack[r] \in Value \cup {Unwritten}
                   /\ r < first_undef_row =>
                        WrittenBack[r] = Held(r) /\ WrittenBack[r] # Unwritten
        <5>1. CASE r - cur_start_row \in Transferred(cur_start_row)
          <6>1. /\ r - cur_start_row \in BufRow
                /\ WrittenBack[r] = mem_buffer[r - cur_start_row]
            BY <4>2, <5>1 DEF WrittenBack
          <6>2. r \in Window
            BY <1>1, <1>3, <6>1 DEF Window, BufRow, Row
          <6> QED BY <1>3, <6>1, <6>2 DEF Held
        <5>2. CASE r - cur_start_row \notin Transferred(cur_start_row)
          <6>1. WrittenBack[r] = backing_store[r]
            BY <5>2 DEF WrittenBack
          <6>2. r < first_undef_row => r \notin Window
            BY <1>1, <1>3, <4>2, <5>2 DEF Window, BufRow, Row
          <6>3. r < first_undef_row => r \in 0 .. first_undef_row - 1
            BY <1>3 DEF Row
          <6> QED BY <1>3, <6>1, <6>2, <6>3 DEF NoRowLost, Held
        <5> QED BY <5>1, <5>2
      <4>4. WrittenBack \in [Row -> Value \cup {Unwritten}]
        BY <4>3 DEF WrittenBack
      <4>5. \A r \in 0 .. first_undef_row - 1 : r \in Row /\ r < first_undef_row
        BY <1>3 DEF Row
      <4> QED BY <4>1, <4>3, <4>4, <4>5
    <3> QED BY <3>1, <3>2, <1>3
  <2> HIDE DEF file, cur
  <2>6. Transferred(cur) = {i \in BufRow : cur + i < first_undef_row}
    BY <1>3, <2>4, TransferredRows DEF Row
  <2>7. ASSUME NEW i \in BufRow
        PROVE  /\ ReadIn(file, cur)[i] \in Value
               /\ cur + i < first_undef_row => ReadIn(file, cur)[i] = Held(cur + i)
    <3>1. CASE cur + i < first_undef_row
      <4>1. cur + i \in 0 .. first_undef_row - 1
        BY <1>1, <1>3, <2>4, <3>1 DEF BufRow, Row
      <4>2. ReadIn(file, cur)[i] = file[cur + i]
        BY <2>6, <3>1 DEF ReadIn
      <4>3. cur + i \in Row
        BY <1>3, <4>1 DEF Row
      <4> QED BY <2>5, <4>1, <4>2, <4>3
    <3>2. CASE ~(cur + i < first_undef_row)
      <4>1. ReadIn(file, cur)[i] = mem_buffer[i]
        BY <2>6, <3>2 DEF ReadIn
      <4> QED BY <1>3, <3>2, <4>1
    <3> QED BY <3>1, <3>2
  <2>8. ReadIn(file, cur) \in [BufRow -> Value]
    BY <2>7 DEF ReadIn
  <2>9. ASSUME NEW r \in 0 .. first_undef_row - 1, r \in cur .. cur + RowsInMem - 1
        PROVE  ReadIn(file, cur)[r - cur] = Held(r)
    <3>1. r - cur \in BufRow /\ cur + (r - cur) = r /\ r < first_undef_row
      BY <1>1, <1>3, <2>4, <2>9 DEF BufRow, Row
    <3> QED BY <2>7, <3>1
  <2> QED
    BY <2>1, <2>3, <2>4, <2>5, <2>8, <2>9
<1> QED BY <1>4, <1>5

-------------------------------------------------------------------------------
(* Every step keeps the invariant                                          *)

LEMMA InitInv == Init => IInv
<1> USE ArrayAssumption
<1> SUFFICES ASSUME Init PROVE IInv
  OBVIOUS
<1>1. TypeOK
  <2>1. backing_store \in [Row -> Value \cup {Unwritten}]
    BY DEF Init
  <2>2. cur_start_row \in Row /\ first_undef_row \in 0 .. RowsInArray
    BY DEF Init, Row
  <2>3. strip \in [start : Nat, end : Nat, writable : BOOLEAN]
    BY DEF Init, NoStrip
  <2> QED BY <2>1, <2>2, <2>3 DEF Init, TypeOK
<1>2. NoVirtualBug /\ NoRowLost /\ Backed /\ NoStaleStrip
  BY DEF Init, NoVirtualBug, NoRowLost, Backed, NoStaleStrip
<1>3. StripInWindow
  BY DEF Init, StripInWindow, NoStrip
<1> QED BY <1>1, <1>2, <1>3 DEF IInv

\* An access that ends in ERREXIT leaves no strip and no array in use.
LEMMA RejectKeepsInv ==
  ASSUME IInv, NEW code \in Error \ {"VIRTUAL_BUG"}, Reject(code), TypeOK'
  PROVE  IInv'
<1>1. status' # "ready" /\ status' # "VIRTUAL_BUG" /\ strip' = NoStrip
  BY DEF Reject, Error
<1> QED
  BY <1>1 DEF IInv, NoVirtualBug, NoRowLost, Backed, NoStaleStrip, StripInWindow,
              NoStrip

\* A realized array has a temporary file, or a window that never moves: a
\* legal request is always served.
LEMMA ReadyNeverRefused ==
  ASSUME IInv, status = "ready", NEW start \in Row, NEW num \in 1 .. RowsInArray
  PROVE  Refusal(start, num) # "none" <=> BadRequest(start, num)
<1>1. CASE BadRequest(start, num)
  BY <1>1 DEF Refusal
<1>2. CASE ~BadRequest(start, num) /\ b_s_open
  BY <1>2 DEF Refusal
<1>3. CASE ~BadRequest(start, num) /\ ~b_s_open
  <2>1. FitsInMemory /\ cur_start_row = 0 /\ RowsInMem = RowsInArray
    BY <1>3, WindowSize DEF IInv, Backed
  <2>2. InWindow(start, start + num)
    BY <1>3, <2>1, ArrayAssumption DEF BadRequest, InWindow, Row
  <2> QED BY <1>3, <2>2 DEF Refusal
<1> QED BY <1>1, <1>2, <1>3

\* What the request checks guarantee to the rest of access_virt_?array.
LEMMA ServedRequest ==
  ASSUME NEW start, NEW num, Refusal(start, num) = "none"
  PROVE  /\ ~BadRequest(start, num)
         /\ InWindow(start, start + num) \/ b_s_open
BY DEF Refusal

\* The action Access: the window moves, the strip is checked and cleared.
LEMMA AccessKeepsInv ==
  ASSUME IInv, NEW start \in Row, NEW num \in 1 .. RowsInArray,
         NEW writable \in BOOLEAN, Access(start, num, writable)
  PROVE  IInv'
<1> USE ArrayAssumption
<1> DEFINE end == start + num
           w == Accessible(start, end)
<1>1. /\ w.cur \in Row
      /\ w.buffer \in [BufRow -> Value]
      /\ w.file \in [Row -> Value \cup {Unwritten}]
      /\ w.dirty \in BOOLEAN
      /\ FitsInMemory => w.cur = 0
      /\ w.cur <= start /\ end <= w.cur + RowsInMem
      /\ \A r \in 0 .. first_undef_row - 1 :
           /\ r \notin w.cur .. w.cur + RowsInMem - 1 =>
                w.file[r] = Held(r) /\ w.file[r] # Unwritten
           /\ r \in w.cur .. w.cur + RowsInMem - 1 =>
                /\ w.buffer[r - w.cur] = Held(r)
                /\ ~w.dirty => w.file[r] = Held(r)
  BY MoveKeepsRows, ServedRequest DEF Access, IInv
<1>2. /\ start \in Nat /\ num \in Nat \ {0} /\ end \in Nat /\ end <= RowsInArray
      /\ first_undef_row \in 0 .. RowsInArray /\ RowsInMem \in Nat \ {0}
  BY WindowSize, ServedRequest DEF Access, BadRequest, Row, IInv, TypeOK
<1>3. status = "ready" /\ b_s_open' = b_s_open /\ cur_start_row' = w.cur
      /\ backing_store' = w.file
  BY DEF Access
<1> HIDE DEF w
<1>4. CASE Undefined(start, end, writable)
  <2>1. /\ Reject("BAD_VIRTUAL_ACCESS") /\ mem_buffer' = w.buffer
        /\ dirty' = w.dirty /\ first_undef_row' = first_undef_row
    BY <1>4 DEF Access, w
  <2>2. TypeOK'
    BY <1>1, <1>2, <1>3, <2>1 DEF IInv, TypeOK, Reject, NoStrip, Error
  <2> QED BY <2>1, <2>2, RejectKeepsInv DEF Error
<1>5. CASE ~Undefined(start, end, writable)
  <2>1. /\ mem_buffer' = Cleared(w.buffer, w.cur, start, end)
        /\ first_undef_row' = IF writable /\ first_undef_row < end
                                THEN end ELSE first_undef_row
        /\ dirty' = (w.dirty \/ writable)
        /\ strip' = [start |-> start, end |-> end, writable |-> writable]
        /\ status' = status
    BY <1>5 DEF Access, w
  <2>2. mem_buffer' \in [BufRow -> Value]
    BY <1>1, <2>1 DEF Cleared
  <2>3. TypeOK'
    BY <1>1, <1>2, <1>3, <2>1, <2>2 DEF IInv, TypeOK
  <2>4. StripInWindow'
    BY <1>1, <1>2, <1>3, <2>1 DEF StripInWindow
  <2>5. NoRowLost'
    <3> SUFFICES ASSUME NEW r \in 0 .. first_undef_row' - 1
                 PROVE  /\ r \notin Window' => w.file[r] # Unwritten
                        /\ r \in Window' /\ ~dirty' =>
                             w.file[r] = mem_buffer'[r - w.cur]
      BY <1>3 DEF NoRowLost
    <3>1. w.cur \in Nat /\ Window' = w.cur .. w.cur + RowsInMem - 1
      BY <1>1, <1>3 DEF Window, Row, RowsInMem, FitsInMemory, Minheights
    <3>2. CASE r < first_undef_row
      <4>1. r \in 0 .. first_undef_row - 1
        BY <1>2, <2>1, <3>2
      <4>2. ASSUME r \in Window', ~dirty'
            PROVE  mem_buffer'[r - w.cur] = w.buffer[r - w.cur]
        <5>1. r - w.cur \in BufRow /\ w.cur + (r - w.cur) = r
          BY <1>2, <3>1, <4>1, <4>2 DEF BufRow
        <5>2. r \in Nat
          BY <1>2, <4>1
        <5> QED BY <1>1, <1>2, <2>1, <3>2, <5>1, <5>2 DEF Cleared
      <4>3. ~dirty' => ~w.dirty
        BY <2>1
      <4> QED BY <1>1, <3>1, <4>1, <4>2, <4>3
    <3>3. CASE ~(r < first_undef_row)
      <4>1. writable /\ first_undef_row < end /\ r < end /\ dirty'
        BY <1>2, <2>1, <3>3
      <4>2. start <= first_undef_row
        BY <1>2, <1>5, <4>1 DEF Undefined
      <4>3. r \in Window'
        BY <1>1, <1>2, <3>1, <3>3, <4>1, <4>2
      <4> QED BY <4>1, <4>3
    <3> QED BY <3>2, <3>3
  <2>6. NoVirtualBug' /\ Backed' /\ NoStaleStrip'
    BY <1>1, <1>3, <2>1 DEF IInv, NoVirtualBug, Backed, NoStaleStrip
  <2> QED BY <2>3, <2>4, <2>5, <2>6 DEF IInv
<1> QED BY <1>4, <1>5

LEMMA StoreKeepsInv ==
  ASSUME IInv, NEW r \in Row, NEW v \in Value, Store(r, v)
  PROVE  IInv'
<1> USE ArrayAssumption
<1>1. /\ RowsInMem \in Nat \ {0} /\ cur_start_row \in Nat /\ r \in Nat
      /\ strip.start \in Nat /\ strip.end \in Nat
      /\ first_undef_row \in 0 .. RowsInArray
  BY WindowSize DEF IInv, TypeOK, Row
<1>2. r - cur_start_row \in BufRow
  BY <1>1 DEF Store, IInv, StripInWindow, BufRow
<1>3. /\ mem_buffer' = [mem_buffer EXCEPT ![r - cur_start_row] = v]
      /\ UNCHANGED <<backing_store, b_s_open, cur_start_row, first_undef_row,
                     dirty, strip, status>>
      /\ dirty
  BY DEF Store, IInv, StripInWindow
<1>4. TypeOK'
  BY <1>2, <1>3 DEF IInv, TypeOK
<1>5. NoRowLost'
  BY <1>3 DEF IInv, NoRowLost, Window
<1> QED
  BY <1>3, <1>4, <1>5 DEF IInv, NoVirtualBug, StripInWindow, Backed, NoStaleStrip

LEMMA NextInv == IInv /\ [Next]_vars => IInv'
<1> USE ArrayAssumption
<1> SUFFICES ASSUME IInv, [Next]_vars PROVE IInv'
  OBVIOUS
<1>1. CASE Request
  <2>1. status = "none" /\ status' = "requested"
        /\ UNCHANGED <<mem_buffer, backing_store, cur_start_row,
                       first_undef_row, dirty, strip>> /\ b_s_open' = FALSE
    BY <1>1 DEF Request
  <2> QED
    BY <2>1 DEF IInv, TypeOK, NoVirtualBug, StripInWindow, NoRowLost, Backed,
                NoStaleStrip
<1>2. CASE Realize
  <2>1. strip = NoStrip /\ strip' = NoStrip
    BY <1>2 DEF Realize, IInv, NoStaleStrip
  <2>2. StripInWindow'
    BY <2>1 DEF StripInWindow, NoStrip
  <2>3. CASE status' = "ready"
    <3>1. /\ b_s_open' = ~FitsInMemory /\ mem_buffer' \in [BufRow -> Value]
          /\ backing_store' = [r \in Row |-> Unwritten]
          /\ cur_start_row' = 0 /\ first_undef_row' = 0 /\ dirty' = FALSE
      BY <1>2, <2>3 DEF Realize
    <3>2. FitsInMemory \in BOOLEAN
      BY DEF FitsInMemory, Minheights
    <3>3. TypeOK'
      <4>1. backing_store' \in [Row -> Value \cup {Unwritten}]
        BY <3>1
      <4>2. cur_start_row' \in Row /\ first_undef_row' \in 0 .. RowsInArray
        BY <3>1 DEF Row
      <4>3. strip' \in [start : Nat, end : Nat, writable : BOOLEAN]
        BY <2>1 DEF NoStrip
      <4> QED BY <2>3, <3>1, <3>2, <4>1, <4>2, <4>3 DEF TypeOK
    <3>4. NoRowLost'
      BY <3>1 DEF NoRowLost
    <3>5. Backed'
      BY <3>1, <3>2 DEF Backed
    <3>6. NoVirtualBug' /\ NoStaleStrip'
      BY <2>3 DEF NoVirtualBug, NoStaleStrip
    <3> QED BY <2>2, <3>3, <3>4, <3>5, <3>6 DEF IInv
  <2>4. CASE status' = "TFILE"
    <3>1. UNCHANGED <<mem_buffer, backing_store, b_s_open, cur_start_row,
                      first_undef_row, dirty>>
      BY <1>2, <2>4 DEF Realize
    <3> QED
      BY <2>1, <2>2, <2>4, <3>1
         DEF IInv, TypeOK, NoVirtualBug, NoRowLost, Backed, NoStaleStrip, Error
  <2> QED BY <1>2, <2>3, <2>4 DEF Realize
<1>3. ASSUME NEW start \in Row, NEW num \in 1 .. RowsInArray, AnyAccess(start, num)
      PROVE  IInv'
  <2>1. CASE AccessRefused(start, num)
    <3>1. BadRequest(start, num)
      <4>1. CASE status = "requested"
        BY <4>1 DEF BadRequest
      <4>2. CASE status = "ready"
        BY <2>1, <4>2, ReadyNeverRefused DEF AccessRefused
      <4> QED BY <2>1, <4>1, <4>2 DEF AccessRefused
    <3>2. Reject("BAD_VIRTUAL_ACCESS")
          /\ UNCHANGED <<mem_buffer, backing_store, b_s_open, cur_start_row,
                         first_undef_row, dirty>>
      BY <2>1, <3>1 DEF AccessRefused, Refusal
    <3>3. TypeOK'
      BY <3>2 DEF IInv, TypeOK, Reject, NoStrip, Error
    <3> QED BY <3>2, <3>3, RejectKeepsInv DEF Error
  <2>2. CASE AccessFileError(start, num)
    <3> DEFINE w == Accessible(start, start + num)
    <3>1. /\ w.cur \in Row /\ w.dirty \in BOOLEAN
          /\ w.file \in [Row -> Value \cup {Unwritten}]
      BY <2>2, MoveKeepsRows, ServedRequest DEF AccessFileError, IInv
    <3>2. /\ Reject("TFILE")
          /\ mem_buffer' = mem_buffer /\ b_s_open' = b_s_open
          /\ first_undef_row' = first_undef_row
          /\ \/ UNCHANGED <<backing_store, cur_start_row, dirty>>
             \/ /\ backing_store' = w.file
                /\ cur_start_row' = w.cur
                /\ dirty' = w.dirty
      BY <2>2 DEF AccessFileError
    <3> HIDE DEF w
    <3>3. TypeOK'
      BY <3>1, <3>2 DEF IInv, TypeOK, Reject, NoStrip, Error
    <3> QED BY <3>2, <3>3, RejectKeepsInv DEF Error
  <2>3. ASSUME NEW writable \in BOOLEAN, Access(start, num, writable)
        PROVE  IInv'
    BY <2>3, AccessKeepsInv
  <2> QED BY <1>3, <2>1, <2>2, <2>3 DEF AnyAccess
<1>4. ASSUME NEW r \in Row, NEW v \in Value, Store(r, v)
      PROVE  IInv'
  BY <1>4, StoreKeepsInv
<1>5. CASE Free
  <2>1. /\ status' = "none" /\ b_s_open' = FALSE /\ strip' = NoStrip
        /\ UNCHANGED <<mem_buffer, backing_store, cur_start_row,
                       first_undef_row, dirty>>
    BY <1>5 DEF Free
  <2>2. TypeOK'
    BY <2>1 DEF IInv, TypeOK, NoStrip
  <2> QED
    BY <2>1, <2>2 DEF IInv, NoVirtualBug, StripInWindow, NoRowLost, Backed,
                      NoStaleStrip, NoStrip
<1>6. CASE UNCHANGED vars
  BY <1>6 DEF vars, IInv, TypeOK, NoVirtualBug, StripInWindow, NoRowLost, Backed,
              NoStaleStrip, Window
<1> QED BY <1>1, <1>2, <1>3, <1>4, <1>5, <1>6 DEF Next

LEMMA InductiveInvariant == Spec => []IInv
<1>1. Init => IInv
  BY InitInv
<1>2. IInv /\ [Next]_vars => IInv'
  BY NextInv
<1> QED BY <1>1, <1>2, PTL DEF Spec

\* Every variable of the array keeps its type: in particular the window starts
\* at a row of the array and the buffer never takes in a row of the file that
\* was not written.
THEOREM TypeCorrect == Spec => []TypeOK
<1>1. IInv => TypeOK
  BY DEF IInv
<1> QED BY <1>1, InductiveInvariant, PTL

\* JERR_VIRTUAL_BUG ("Bogus virtual array access") is never raised, and the pointer
\* an access returns covers rows of the window only.
THEOREM EveryAccessServed == Spec => []AccessesServed
<1>1. IInv => AccessesServed
  BY DEF IInv, AccessesServed
<1> QED BY <1>1, InductiveInvariant, PTL

\* Every defined row is in the window or was written to the file.
THEOREM RowsSurvive == Spec => []NoRowLost
<1>1. IInv => NoRowLost
  BY DEF IInv
<1> QED BY <1>1, InductiveInvariant, PTL

-------------------------------------------------------------------------------
(* The windowed array implements VirtualArraySpec                          *)

\* The contents the mapping shows are values: what is outside the window was
\* written to the file.
LEMMA AbsContentsType ==
  ASSUME IInv, status = "ready"
  PROVE  /\ AbsContents = [r \in 0 .. first_undef_row - 1 |-> Held(r)]
         /\ \A r \in 0 .. first_undef_row - 1 : Held(r) \in Value
<1> USE ArrayAssumption
<1>1. AbsContents = [r \in 0 .. first_undef_row - 1 |-> Held(r)]
  BY DEF AbsContents, Held
<1>2. ASSUME NEW r \in 0 .. first_undef_row - 1
      PROVE  Held(r) \in Value
  <2>1. /\ r \in Row /\ cur_start_row \in Nat /\ RowsInMem \in Nat
        /\ mem_buffer \in [BufRow -> Value]
        /\ backing_store \in [Row -> Value \cup {Unwritten}]
    BY WindowSize DEF IInv, TypeOK, Row
  <2>2. CASE r \in Window
    <3>1. r - cur_start_row \in BufRow
      BY <2>1, <2>2 DEF Window, BufRow, Row
    <3> QED BY <2>1, <2>2, <3>1 DEF Held
  <2>3. CASE r \notin Window
    BY <2>1, <2>3 DEF Held, IInv, NoRowLost
  <2> QED BY <2>2, <2>3
<1> QED BY <1>1, <1>2

\* Where the array is not in use, the mapping shows nothing.
LEMMA AbsEmpty ==
  ASSUME NoStaleStrip, status # "ready"
  PROVE  /\ AbsContents = [r \in {} |-> Zero]
         /\ AbsView = [r \in {} |-> Zero]
         /\ strip.writable = FALSE
BY DEF NoStaleStrip, NoStrip, AbsContents, AbsView

LEMMA BecomeImplemented ==
  ASSUME IInv', status' # "ready"
  PROVE  Abs!Become(status')
<1>1. (NoStaleStrip /\ status # "ready")'
  BY DEF IInv
<1>2. (/\ AbsContents = [r \in {} |-> Zero]
       /\ AbsView = [r \in {} |-> Zero]
       /\ strip.writable = FALSE)'
  BY <1>1, AbsEmpty, PTL
<1> QED BY <1>2 DEF Abs!Become, Abs!EmptyFcn

\* The detailed request checks are the abstract ones.
LEMMA LegalImplemented ==
  ASSUME IInv, status = "ready",
         NEW start \in Row, NEW num \in 1 .. RowsInArray, NEW writable \in BOOLEAN
  PROVE  Abs!Legal(start, num, writable)
           <=> ~BadRequest(start, num) /\ ~Undefined(start, start + num, writable)
<1> USE ArrayAssumption
<1>1. DOMAIN AbsContents = 0 .. first_undef_row - 1
  BY AbsContentsType
<1>2. /\ start \in Nat /\ num \in Nat \ {0} /\ first_undef_row \in 0 .. RowsInArray
  BY DEF Row, IInv, TypeOK
<1>3. start = 0 \/ start - 1 \in 0 .. first_undef_row - 1
        <=> start <= first_undef_row
  BY <1>2
<1>4. start .. start + num - 1 \subseteq 0 .. first_undef_row - 1
        <=> start + num <= first_undef_row
  <2>1. start + num - 1 \in start .. start + num - 1
    BY <1>2
  <2> QED BY <1>2, <2>1
<1>5. Abs!Legal(start, num, writable) <=>
        /\ status = "ready"
        /\ start + num <= RowsInArray
        /\ num <= MaxAccess
        /\ writable => start <= first_undef_row
        /\ ~writable => PreZero \/ start + num <= first_undef_row
  BY <1>1, <1>3, <1>4 DEF Abs!Legal, Abs!Defined, Abs!Strip
<1> QED BY <1>2, <1>5 DEF BadRequest, Undefined

\* A legal access is the abstract one: defined rows keep their values through
\* the move of the window, new rows of a pre-zeroed array are zero, and the
\* strip shows what the array holds.
LEMMA AccessImplemented ==
  ASSUME IInv, IInv', NEW start \in Row, NEW num \in 1 .. RowsInArray,
         NEW writable \in BOOLEAN, Access(start, num, writable),
         ~Undefined(start, start + num, writable)
  PROVE  Abs!Access(start, num, writable)
<1> USE ArrayAssumption
<1> DEFINE end == start + num
           w == Accessible(start, end)
           buffer == Cleared(w.buffer, w.cur, start, end)
<1>1. /\ w.cur \in Row
      /\ w.buffer \in [BufRow -> Value]
      /\ w.cur <= start /\ end <= w.cur + RowsInMem
      /\ \A r \in 0 .. first_undef_row - 1 :
           /\ r \notin w.cur .. w.cur + RowsInMem - 1 => w.file[r] = Held(r)
           /\ r \in w.cur .. w.cur + RowsInMem - 1 => w.buffer[r - w.cur] = Held(r)
  BY MoveKeepsRows, ServedRequest DEF Access, IInv
<1>2. /\ start \in Nat /\ num \in Nat \ {0} /\ end \in Nat /\ w.cur \in Nat
      /\ first_undef_row \in 0 .. RowsInArray /\ RowsInMem \in Nat \ {0}
  BY <1>1, WindowSize DEF Row, IInv, TypeOK
<1>3. /\ status = "ready" /\ status' = "ready" /\ ~BadRequest(start, num)
      /\ cur_start_row' = w.cur /\ backing_store' = w.file
      /\ mem_buffer' = buffer
      /\ first_undef_row' = IF writable /\ first_undef_row < end
                              THEN end ELSE first_undef_row
      /\ strip' = [start |-> start, end |-> end, writable |-> writable]
  BY ServedRequest DEF Access
<1>4. Abs!Legal(start, num, writable)
  BY <1>3, LegalImplemented
<1>5. /\ AbsContents = [r \in 0 .. first_undef_row - 1 |-> Held(r)]
      /\ AbsContents' = [r \in 0 .. first_undef_row' - 1 |-> Held(r)']
      /\ \A r \in 0 .. first_undef_row' - 1 : Held(r)' \in Value
  <2>0. (IInv /\ status = "ready")'
    BY <1>3
  <2>1. (/\ AbsContents = [r \in 0 .. first_undef_row - 1 |-> Held(r)]
         /\ \A r \in 0 .. first_undef_row - 1 : Held(r) \in Value)'
    BY <2>0, AbsContentsType, PTL
  <2> QED BY <1>3, <2>1, AbsContentsType
<1>6. AbsView' = [r \in start .. end - 1 |-> buffer[r - w.cur]]
  BY <1>3 DEF AbsView
<1> HIDE DEF w
<1>7. ASSUME NEW r \in Nat, w.cur <= r, r < w.cur + RowsInMem
      PROVE  /\ Held(r)' = buffer[r - w.cur]
             /\ r - w.cur \in BufRow
             /\ buffer[r - w.cur] =
                  IF PreZero /\ first_undef_row <= r /\ start <= r /\ r < end
                  THEN Zero ELSE w.buffer[r - w.cur]
  <2>1. r - w.cur \in BufRow /\ w.cur + (r - w.cur) = r
    BY <1>2, <1>7 DEF BufRow
  <2>2. Window' = w.cur .. w.cur + RowsInMem - 1
    BY <1>3 DEF Window, RowsInMem, FitsInMemory, Minheights
  <2>3. r \in Window'
    BY <1>2, <1>7, <2>2
  <2> QED BY <1>2, <1>3, <1>7, <2>1, <2>3 DEF Held, Cleared
<1> HIDE DEF buffer
<1>8. ASSUME NEW r \in 0 .. first_undef_row - 1
      PROVE  Held(r)' = Held(r)
  <2>1. CASE r \in w.cur .. w.cur + RowsInMem - 1
    BY <1>1, <1>2, <1>7, <2>1
  <2>2. CASE r \notin w.cur .. w.cur + RowsInMem - 1
    <3>1. r \notin Window'
      BY <1>3, <2>2 DEF Window, RowsInMem, FitsInMemory, Minheights
    <3> QED BY <1>1, <1>3, <2>2, <3>1 DEF Held
  <2> QED BY <2>1, <2>2
<1>9. 0 .. first_undef_row' - 1
        = (0 .. first_undef_row - 1)
            \cup (IF writable THEN start .. start + num - 1 ELSE {})
  BY <1>2, <1>3 DEF Undefined
<1>10. /\ AbsContents' \in
            [Abs!Defined \cup (IF writable THEN Abs!Strip(start, num) ELSE {}) -> Value]
       /\ DOMAIN AbsContents' = 0 .. first_undef_row' - 1
       /\ Abs!Defined = 0 .. first_undef_row - 1
  BY <1>5, <1>9 DEF Abs!Defined, Abs!Strip
<1>11. \A r \in Abs!Defined : AbsContents'[r] = AbsContents[r]
  BY <1>5, <1>8, <1>9, <1>10
<1>12. ASSUME NEW r \in (DOMAIN AbsContents') \ Abs!Defined, PreZero
       PROVE  AbsContents'[r] = Zero
  <2>1. r \in start .. end - 1 /\ first_undef_row <= r /\ r \in Nat
    BY <1>2, <1>9, <1>10
  <2>2. Held(r)' = Zero
    BY <1>1, <1>2, <1>7, <1>12, <2>1
  <2> QED BY <1>5, <1>10, <2>2
<1>13. ASSUME NEW r \in start .. end - 1
       PROVE  buffer[r - w.cur]
                = IF r \in DOMAIN AbsContents' THEN AbsContents'[r] ELSE Zero
  <2>1. r \in Nat /\ w.cur <= r /\ r < w.cur + RowsInMem
    BY <1>1, <1>2
  <2>2. CASE r \in DOMAIN AbsContents'
    BY <1>5, <1>7, <1>10, <2>1, <2>2
  <2>3. CASE r \notin DOMAIN AbsContents'
    <3>1. first_undef_row <= r /\ ~writable
      BY <1>2, <1>9, <1>10, <2>1, <2>3
    <3>2. PreZero
      BY <1>2, <3>1 DEF Undefined
    <3> QED BY <1>2, <1>7, <2>1, <2>3, <3>1, <3>2
  <2> QED BY <2>2, <2>3
<1>14. AbsView' = [r \in Abs!Strip(start, num) |->
                     IF r \in DOMAIN AbsContents' THEN AbsContents'[r] ELSE Zero]
  <2> DEFINE shown(r) == IF r \in DOMAIN AbsContents' THEN AbsContents'[r] ELSE Zero
  <2>1. \A r \in start .. end - 1 : buffer[r - w.cur] = shown(r)
    BY <1>13
  <2> HIDE DEF shown
  <2>2. [r \in start .. end - 1 |-> buffer[r - w.cur]] = [r \in start .. end - 1 |-> shown(r)]
    BY <2>1
  <2>3. AbsView' = [r \in start .. end - 1 |-> shown(r)]
    BY <1>6, <2>2
  <2>4. Abs!Strip(start, num) = start .. end - 1
    BY <1>2 DEF Abs!Strip
  <2>5. AbsView' = [r \in Abs!Strip(start, num) |-> shown(r)]
    BY <2>3, <2>4, Zenon
  <2> QED BY <2>5, Zenon DEF shown
<1>15. strip'.writable = writable
  BY <1>3
<1> QED
  BY <1>3, <1>4, <1>10, <1>11, <1>12, <1>14, <1>15 DEF Abs!Access

LEMMA StoreImplemented ==
  ASSUME IInv, IInv', NEW r \in Row, NEW v \in Value, Store(r, v)
  PROVE  Abs!Store(r, v)
<1> USE ArrayAssumption
<1>1. /\ status = "ready" /\ strip.writable /\ strip.start <= r /\ r < strip.end
      /\ mem_buffer' = [mem_buffer EXCEPT ![r - cur_start_row] = v]
      /\ UNCHANGED <<backing_store, cur_start_row, first_undef_row, strip, status>>
  BY DEF Store
<1>2. /\ r \in Nat /\ cur_start_row \in Nat /\ RowsInMem \in Nat
      /\ strip.start \in Nat /\ strip.end \in Nat
      /\ cur_start_row <= strip.start /\ strip.end <= cur_start_row + RowsInMem
      /\ strip.end <= first_undef_row /\ first_undef_row \in Nat
      /\ mem_buffer \in [BufRow -> Value]
  BY <1>1, WindowSize DEF IInv, TypeOK, StripInWindow, Row
<1>3. r \in 0 .. first_undef_row - 1 /\ r \in strip.start .. strip.end - 1
  BY <1>1, <1>2
<1>4. Window' = Window
  BY <1>1 DEF Window, RowsInMem, FitsInMemory, Minheights
<1>5. r \in Window /\ r - cur_start_row \in BufRow
  BY <1>1, <1>2 DEF Window, BufRow
<1>6. ASSUME NEW q \in Nat, q \in Window
      PROVE  mem_buffer'[q - cur_start_row]
               = IF q = r THEN v ELSE mem_buffer[q - cur_start_row]
  <2>1. q - cur_start_row \in BufRow
    BY <1>2, <1>6 DEF Window, BufRow
  <2>2. q - cur_start_row = r - cur_start_row => q = r
    BY <1>2
  <2> QED BY <1>1, <1>2, <1>5, <2>1, <2>2
<1>7. AbsContents' = [AbsContents EXCEPT ![r] = v]
  <2>1. AbsContents = [q \in 0 .. first_undef_row - 1 |-> Held(q)]
    BY <1>1 DEF AbsContents, Held
  <2>2. AbsContents' = [q \in 0 .. first_undef_row - 1 |-> Held(q)']
    BY <1>1 DEF AbsContents, Held
  <2>3. ASSUME NEW q \in 0 .. first_undef_row - 1
        PROVE  Held(q)' = IF q = r THEN v ELSE Held(q)
    <3>1. CASE q \in Window
      BY <1>1, <1>2, <1>4, <1>6, <3>1 DEF Held
    <3>2. CASE q \notin Window
      BY <1>1, <1>4, <1>5, <3>2 DEF Held
    <3> QED BY <3>1, <3>2
  <2> QED BY <2>1, <2>2, <2>3
<1>8. AbsView' = [AbsView EXCEPT ![r] = v]
  <2>1. AbsView = [q \in strip.start .. strip.end - 1 |-> mem_buffer[q - cur_start_row]]
    BY <1>1 DEF AbsView
  <2>2. AbsView' = [q \in strip.start .. strip.end - 1 |-> mem_buffer'[q - cur_start_row]]
    BY <1>1 DEF AbsView
  <2>3. \A q \in strip.start .. strip.end - 1 : q \in Nat /\ q \in Window
    BY <1>2 DEF Window
  <2> QED BY <1>6, <2>1, <2>2, <2>3
<1>9. r \in DOMAIN AbsView
  BY <1>1, <1>3 DEF AbsView
<1> QED
  BY <1>1, <1>7, <1>8, <1>9 DEF Abs!Store

LEMMA StepImplemented ==
  IInv /\ IInv' /\ [Next]_vars => [Abs!Next]_(Abs!absVars)
<1> USE ArrayAssumption
<1> SUFFICES ASSUME IInv, IInv', [Next]_vars
             PROVE  Abs!Next \/ UNCHANGED Abs!absVars
  OBVIOUS
<1>1. CASE Request
  <2>1. status = "none" /\ status' = "requested"
    BY <1>1 DEF Request
  <2>2. Abs!Become("requested")
    BY <2>1, BecomeImplemented
  <2> QED BY <2>1, <2>2 DEF Abs!Next, Abs!Request
<1>2. CASE Realize
  <2>1. status = "requested"
    BY <1>2 DEF Realize
  <2>2. CASE status' = "TFILE"
    <3>1. ~FitsInMemory /\ Abs!Become("TFILE")
      BY <1>2, <2>2, BecomeImplemented DEF Realize
    <3> QED BY <2>1, <3>1 DEF Abs!Next, Abs!Realize
  <2>3. CASE status' = "ready"
    <3>1. strip' = NoStrip /\ first_undef_row' = 0
      BY <1>2, <2>1, <2>3 DEF Realize, IInv, NoStaleStrip
    <3>2. AbsContents' = [r \in {} |-> Zero]
      <4>1. 0 .. first_undef_row' - 1 = {}
        BY <3>1
      <4> QED BY <2>3, <4>1 DEF AbsContents
    <3>3. AbsView' = [r \in {} |-> Zero] /\ strip'.writable = FALSE
      <4>1. strip'.start .. strip'.end - 1 = {}
        BY <3>1 DEF NoStrip
      <4> QED BY <2>3, <3>1, <4>1 DEF AbsView, NoStrip
    <3>4. Abs!Become("ready")
      BY <2>3, <3>2, <3>3 DEF Abs!Become, Abs!EmptyFcn
    <3> QED BY <2>1, <3>4 DEF Abs!Next, Abs!Realize
  <2> QED BY <1>2, <2>2, <2>3 DEF Realize
<1>3. ASSUME NEW start \in Row, NEW num \in 1 .. RowsInArray, AnyAccess(start, num)
      PROVE  Abs!Next
  <2> SUFFICES \E writable \in BOOLEAN : Abs!Access(start, num, writable)
    BY DEF Abs!Next, Abs!Row, Row
  <2>1. CASE AccessRefused(start, num)
    <3>1. status \in {"requested", "ready"} /\ BadRequest(start, num)
          /\ status' = "BAD_VIRTUAL_ACCESS"
      <4>1. BadRequest(start, num)
        BY <2>1, ReadyNeverRefused DEF AccessRefused, BadRequest
      <4> QED BY <2>1, <4>1 DEF AccessRefused, Refusal, Reject
    <3>2. ~Abs!Legal(start, num, FALSE)
      BY <3>1, LegalImplemented DEF Abs!Legal
    <3> QED BY <3>1, <3>2, BecomeImplemented DEF Abs!Access
  <2>2. CASE AccessFileError(start, num)
    <3>1. status = "ready" /\ status' = "TFILE" /\ ~FitsInMemory
      BY <2>2, ServedRequest DEF AccessFileError, Reject, IInv, Backed
    <3> QED BY <3>1, BecomeImplemented DEF Abs!Access
  <2>3. ASSUME NEW writable \in BOOLEAN, Access(start, num, writable)
        PROVE  Abs!Access(start, num, writable)
    <3>1. CASE Undefined(start, start + num, writable)
      <4>1. status = "ready" /\ status' = "BAD_VIRTUAL_ACCESS"
        BY <2>3, <3>1 DEF Access, Reject
      <4>2. ~Abs!Legal(start, num, writable)
        BY <3>1, <4>1, LegalImplemented
      <4> QED BY <4>1, <4>2, BecomeImplemented DEF Abs!Access
    <3>2. CASE ~Undefined(start, start + num, writable)
      BY <2>3, <3>2, AccessImplemented
    <3> QED BY <3>1, <3>2
  <2> QED BY <1>3, <2>1, <2>2, <2>3 DEF AnyAccess
<1>4. ASSUME NEW r \in Row, NEW v \in Value, Store(r, v)
      PROVE  Abs!Next
  BY <1>4, StoreImplemented DEF Abs!Next, Abs!Row, Row
<1>5. CASE Free
  <2>1. status # "none" /\ status' = "none"
    BY <1>5 DEF Free
  <2>2. Abs!Become("none")
    BY <2>1, BecomeImplemented
  <2> QED BY <2>1, <2>2 DEF Abs!Next, Abs!Free
<1>6. CASE UNCHANGED vars
  BY <1>6 DEF vars, Abs!absVars, AbsContents, AbsView, Window
<1> QED BY <1>1, <1>2, <1>3, <1>4, <1>5, <1>6 DEF Next

\* The windowed virtual array implements the abstract one: whatever the order
\* of accesses, a client reads in its strip what was last stored in each row.
THEOREM Implementation == Spec => AbsSpec
<1>1. Init => Abs!Init
  <2> SUFFICES ASSUME Init PROVE Abs!Init
    OBVIOUS
  <2>1. NoStaleStrip /\ status # "ready" /\ status = "none"
    BY DEF Init, NoStaleStrip
  <2> QED BY <2>1, AbsEmpty DEF Abs!Init, Abs!EmptyFcn
<1>2. IInv /\ IInv' /\ [Next]_vars => [Abs!Next]_(Abs!absVars)
  BY StepImplemented
<1> QED BY <1>1, <1>2, InductiveInvariant, PTL DEF Spec, AbsSpec, Abs!Spec
===============================================================================
