----------------------------- MODULE MemoryPools -----------------------------
(***************************************************************************)
(* The memory manager (jmemmgr.c) over a back end (jmemnobs.c, jmemansi.c, *)
(* jmemname.c).  Objects are carved out of pools, small ones several to a  *)
(* block of the system, large ones in a block of their own; rows of        *)
(* samples or of coefficient blocks are bunched together into large        *)
(* objects.  Virtual arrays get their buffers all at once, when what is    *)
(* left of the memory limit is divided among them.  A class of pools is    *)
(* freed as a whole, also after an error in the middle of anything.        *)
(*                                                                         *)
(* What the system gives is up to it: a call may take room bytes more      *)
(* memory and temp_files more files, and fails where it would need more.   *)
(* Addresses are pairs of a block and an offset into it.  What is done     *)
(* with the buffer of a virtual array is in VirtualArray.                  *)
(***************************************************************************)
EXTENDS Integers, Sequences, SequencesExt

CONSTANT Clients  \* what an application, and the library for it, asks for

JPOOL_PERMANENT == 0
JPOOL_IMAGE == 1
Pool == {JPOOL_PERMANENT, JPOOL_IMAGE}

\* Sizes of a build for 64 bits: ALIGN_TYPE, both pool headers, a row pointer,
\* my_memory_mgr, and the control block of a virtual array.
ALIGN == 8
HDR == 24
ROW_POINTER == 8
MANAGER == 168
CONTROL == 152

first_pool_slop == <<1600, 16000>>
extra_pool_slop == <<0, 5000>>
MIN_SLOP == 50

Kind == {"sarray", "barray"}
UnitSize(kind) == IF kind = "sarray" THEN 1 ELSE 128

\* MAX_ALLOC_CHUNK is a matter of configuration, and checked when a memory manager
\* is made; sizes are those of the requests.
ASSUME ClientsAssumption ==
  \A c \in Clients :
    /\ c.chunk \in Nat /\ c.chunk > MANAGER
    /\ c.back_end \in {"nobs", "ansi"}
    /\ c.limit \in Int
    /\ c.sizes \cup c.large_sizes \subseteq Nat \ {0}
    /\ \A s \in c.strips \cup c.arrays : s.kind \in Kind /\ {s.width, s.rows} \subseteq Nat \ {0}
    /\ \A a \in c.arrays : a.maxaccess \in Nat \ {0}
    /\ c.rooms \cup c.temp_files \subseteq Nat
    /\ c.max_calls \in Nat

VARIABLES
  client,  \* what is asked for, of Clients
  mem,     \* the memory manager, and what the system and the client hold
  calls    \* how often it was called

mvars == <<client, mem, calls>>

NoMemory ==
  [open |-> FALSE,                          \* cinfo->mem # NULL
   error |-> "none",                        \* the ERREXIT of the last call
   small_list |-> [p \in Pool |-> <<>>],    \* headers [block, used, left]
   large_list |-> [p \in Pool |-> <<>>],
   virt_list |-> [k \in Kind |-> <<>>],     \* control blocks, newest first
   manager |-> 0,                           \* the block of the memory manager itself
   total_space_allocated |-> 0,
   last_rowsperchunk |-> 0,
   heap |-> <<>>,                           \* blocks held from malloc, their sizes
   files |-> 0,                             \* temporary files that are open
   room |-> 0, temp_files |-> 0,            \* what the system still gives
   objects |-> <<>>,                        \* what the client may use
   arrays |-> <<>>,                         \* arrays of rows among them
   result |-> <<>>]                         \* of the last allocation

-----------------------------------------------------------------------------
(* The system. *)

ERREXIT(m, code) == [m EXCEPT !.error = code]

\* which: 0 for the manager itself; 1 and 3 for a small and a large request beyond
\* MAX_ALLOC_CHUNK; 2 and 4 for those the system refuses.
out_of_memory(m, which) == ERREXIT(m, <<"OUT_OF_MEMORY 0", "OUT_OF_MEMORY 1", "OUT_OF_MEMORY 2",
                                        "OUT_OF_MEMORY 3", "OUT_OF_MEMORY 4">>[which + 1])

LeastUnused(m) ==
  CHOOSE b \in 1 .. Cardinality(DOMAIN m.heap) + 1 : b \notin DOMAIN m.heap

\* malloc gives a block of the size, if m has the room for it.
jpeg_get(m, size) ==
  LET b == LeastUnused(m)
  IN [m EXCEPT !.heap = [i \in DOMAIN @ \cup {b} |-> IF i = b THEN size ELSE @[i]],
               !.room = @ - size,
               !.result = <<b>>]

jpeg_mem_available(m, max_bytes_needed) ==
  IF client.back_end = "nobs" THEN max_bytes_needed
  ELSE client.limit - m.total_space_allocated

jpeg_open_backing_store(m) ==
  IF client.back_end = "nobs" THEN ERREXIT(m, "NO_BACKING_STORE")
  ELSE IF m.temp_files = 0 THEN ERREXIT(m, "TFILE_CREATE")
  ELSE [m EXCEPT !.files = @ + 1, !.temp_files = @ - 1]

-----------------------------------------------------------------------------
(* Objects.  After an ERREXIT nothing more of the call is done. *)

RoundUp(size) == ((size + ALIGN - 1) \div ALIGN) * ALIGN

\* The object at the end of what header i of the pool has used.
Carve(m, pool_id, i, bytes, size) ==
  LET hdr == m.small_list[pool_id][i]
      object == [pool |-> pool_id, block |-> hdr.block, start |-> HDR + hdr.used, size |-> size]
  IN [m EXCEPT !.small_list[pool_id][i].used = @ + bytes,
               !.small_list[pool_id][i].left = @ - bytes,
               !.objects = Append(@, object),
               !.result = <<object>>]

\* The leftover space asked for: first what the class of pools suggests, as far as
\* MAX_ALLOC_CHUNK allows, then half of it, and so on while it is worth it.
SlopsTried(m, pool_id, min_request) ==
  LET suggested == IF m.small_list[pool_id] = <<>> THEN first_pool_slop[pool_id + 1]
                   ELSE extra_pool_slop[pool_id + 1]
      slop == Min({suggested, client.chunk - min_request})
  IN {slop} \cup {s \in {slop \div 2^k : k \in 1 .. 9} : s >= MIN_SLOP}

\* A new pool at the end of the list.
NewSmallPool(m, pool_id, bytes) ==
  LET min_request == bytes + HDR
      got == {s \in SlopsTried(m, pool_id, min_request) : min_request + s <= m.room}
      n == jpeg_get(m, min_request + Max(got))
  IN IF got = {} THEN out_of_memory(m, 2)
     ELSE [n EXCEPT !.total_space_allocated = @ + min_request + Max(got),
                    !.small_list[pool_id] =
                      Append(@, [block |-> n.result[1], used |-> 0, left |-> bytes + Max(got)])]

alloc_small(m, pool_id, size) ==
  LET bytes == RoundUp(size)
      with_space == {i \in DOMAIN m.small_list[pool_id] : m.small_list[pool_id][i].left >= bytes}
      n == NewSmallPool(m, pool_id, bytes)
  IN IF m.error # "none" THEN m
     ELSE IF size > client.chunk - HDR THEN out_of_memory(m, 1)
     ELSE IF pool_id \notin Pool THEN ERREXIT(m, "BAD_POOL_ID")
     ELSE IF with_space # {} THEN Carve(m, pool_id, Min(with_space), bytes, size)
     ELSE IF n.error # "none" THEN n
     ELSE Carve(n, pool_id, Len(n.small_list[pool_id]), bytes, size)

alloc_large(m, pool_id, size) ==
  LET bytes == RoundUp(size)
      n == jpeg_get(m, bytes + HDR)
      object == [pool |-> pool_id, block |-> n.result[1], start |-> HDR, size |-> size]
  IN IF m.error # "none" THEN m
     ELSE IF size > client.chunk - HDR THEN out_of_memory(m, 3)
     ELSE IF pool_id \notin Pool THEN ERREXIT(m, "BAD_POOL_ID")
     ELSE IF bytes + HDR > m.room THEN out_of_memory(m, 4)
     ELSE [n EXCEPT !.total_space_allocated = @ + bytes + HDR,
                    !.large_list[pool_id] =
                      <<[block |-> n.result[1], used |-> bytes, left |-> 0]>> \o @,
                    !.objects = Append(@, object),
                    !.result = <<object>>]

-----------------------------------------------------------------------------
(* Arrays of rows. *)

\* The heights of the chunks the rows are allocated in.
Chunks(numrows, rowsperchunk) ==
  [i \in 1 .. (numrows + rowsperchunk - 1) \div rowsperchunk |->
     Min({rowsperchunk, numrows - (i - 1) * rowsperchunk})]

\* One more chunk; the rows follow each other in it.
AddChunk(m, pool_id, width, rows) ==
  LET n == alloc_large(m, pool_id, rows * width)
      RowAt(i) == [block |-> n.result[1].block, start |-> n.result[1].start + (i - 1) * width]
  IN IF n.error # "none" THEN n
     ELSE [n EXCEPT !.result = m.result \o [i \in 1 .. rows |-> RowAt(i)]]

\* alloc_sarray and alloc_barray: first the row pointers, then the rows.
alloc_array(m, pool_id, kind, unitsperrow, numrows) ==
  LET width == unitsperrow * UnitSize(kind)
      ltemp == (client.chunk - HDR) \div width
      rowsperchunk == Min({ltemp, numrows})
      pointers == alloc_small([m EXCEPT !.last_rowsperchunk = rowsperchunk],
                              pool_id, numrows * ROW_POINTER)
      n == FoldLeft(LAMBDA a, rows : AddChunk(a, pool_id, width, rows),
                    [pointers EXCEPT !.result = <<>>], Chunks(numrows, rowsperchunk))
  IN IF m.error # "none" THEN m
     ELSE IF ltemp = 0 THEN ERREXIT(m, "WIDTH_OVERFLOW")
     ELSE IF n.error # "none" THEN n
     ELSE [n EXCEPT !.arrays = Append(@, [pool |-> pool_id, width |-> width,
                                          rowsperchunk |-> rowsperchunk, rows |-> n.result])]

-----------------------------------------------------------------------------
(* Virtual arrays. *)

request_virt_array(m, pool_id, a) ==
  LET n == alloc_small(m, pool_id, CONTROL)
      control == [mem_buffer |-> <<>>, rows_in_array |-> a.rows, unitsperrow |-> a.width,
                  maxaccess |-> a.maxaccess, rows_in_mem |-> 0, rowsperchunk |-> 0,
                  b_s_open |-> FALSE]
  IN IF pool_id # JPOOL_IMAGE THEN ERREXIT(m, "BAD_POOL_ID")
     ELSE IF n.error # "none" THEN n
     ELSE [n EXCEPT !.virt_list[a.kind] = <<control>> \o @]

\* Virtual arrays are named by their list and their place in it.
VirtArrays(m) == UNION {{<<k, i>> : i \in DOMAIN m.virt_list[k]} : k \in Kind}
Control(m, v) == m.virt_list[v[1]][v[2]]
Unrealized(m) == {v \in VirtArrays(m) : Control(m, v).mem_buffer = <<>>}
RowBytes(m, v) == Control(m, v).unitsperrow * UnitSize(v[1])

space_per_minheight(m) ==
  MapThenSumSet(LAMBDA v : Control(m, v).maxaccess * RowBytes(m, v), Unrealized(m))
maximum_space(m) ==
  MapThenSumSet(LAMBDA v : Control(m, v).rows_in_array * RowBytes(m, v), Unrealized(m))

\* Seeded fault: rounded up.
MinheightsRoundedUp(m) ==
  LET avail_mem == jpeg_mem_available(m, maximum_space(m))
      space == space_per_minheight(m)
  IN IF avail_mem >= maximum_space(m) THEN 1000000000
     ELSE Max({1, (avail_mem + space - 1) \div space})

\* How many times its maxaccess each array can have in memory: at least once.
max_minheights(m) ==
  LET avail_mem == jpeg_mem_available(m, maximum_space(m))
  IN IF avail_mem >= maximum_space(m) THEN 1000000000
     ELSE Max({1, avail_mem \div space_per_minheight(m)})

minheights(a) == (a.rows_in_array - 1) \div a.maxaccess + 1

\* Seeded fault: the file is entered in the control block when the array is ready.
RealizeThenEnter(m, v, limit) ==
  LET a == Control(m, v)
      fits == minheights(a) <= limit
      rows_in_mem == IF fits THEN a.rows_in_array ELSE limit * a.maxaccess
      opened == IF fits THEN m ELSE jpeg_open_backing_store(m)
      n == alloc_array(opened, JPOOL_IMAGE, v[1], a.unitsperrow, rows_in_mem)
  IN IF m.error # "none" THEN m
     ELSE IF n.error # "none" THEN n
     ELSE [n EXCEPT !.virt_list[v[1]][v[2]] =
             [@ EXCEPT !.b_s_open = ~fits, !.mem_buffer = n.result,
                       !.rows_in_mem = rows_in_mem, !.rowsperchunk = n.last_rowsperchunk]]

\* The body of the loops of realize_virt_arrays: the buffer of one array, all of
\* it or limit times maxaccess rows with a temporary file.
RealizeOne(m, v, limit) ==
  LET a == Control(m, v)
      fits == minheights(a) <= limit
      rows_in_mem == IF fits THEN a.rows_in_array ELSE limit * a.maxaccess
      opened == IF fits THEN m ELSE jpeg_open_backing_store(m)
      entered == [opened EXCEPT !.virt_list[v[1]][v[2]].b_s_open = ~fits]
      n == alloc_array(entered, JPOOL_IMAGE, v[1], a.unitsperrow, rows_in_mem)
  IN IF m.error # "none" THEN m
     ELSE IF opened.error # "none" THEN opened
     ELSE IF n.error # "none" THEN n
     ELSE [n EXCEPT !.virt_list[v[1]][v[2]] =
             [@ EXCEPT !.mem_buffer = n.result, !.rows_in_mem = rows_in_mem,
                       !.rowsperchunk = n.last_rowsperchunk]]

\* The arrays in the order of their lists, those of samples first.
InOrder(m, k) == [i \in DOMAIN m.virt_list[k] |-> <<k, i>>]

realize_virt_arrays(m) ==
  FoldLeft(LAMBDA n, v : RealizeOne(n, v, max_minheights(m)), m,
           SelectSeq(InOrder(m, "sarray") \o InOrder(m, "barray"),
                     LAMBDA v : v \in Unrealized(m)))

-----------------------------------------------------------------------------
(* Pools. *)

Headers(m, pool_id) == m.large_list[pool_id] \o m.small_list[pool_id]

SpaceOf(hdr) == hdr.used + hdr.left + HDR

SpaceFreed(m, pool_id) ==
  MapThenSumSet(LAMBDA i : SpaceOf(Headers(m, pool_id)[i]), DOMAIN Headers(m, pool_id))

\* The temporary files of arrays that have one are closed before the control
\* blocks, which are objects of the pool, are gone.
CloseFiles(m) ==
  [m EXCEPT !.files = @ - Cardinality({v \in VirtArrays(m) : Control(m, v).b_s_open}),
            !.virt_list = [k \in Kind |-> <<>>]]

free_pool(m, pool_id) ==
  LET n == IF pool_id = JPOOL_IMAGE THEN CloseFiles(m) ELSE m
      freed == {Headers(m, pool_id)[i].block : i \in DOMAIN Headers(m, pool_id)}
      Outlives(x) == x.pool # pool_id
  IN [n EXCEPT !.large_list[pool_id] = <<>>,
               !.small_list[pool_id] = <<>>,
               !.total_space_allocated = @ - SpaceFreed(m, pool_id),
               !.heap = [b \in DOMAIN @ \ freed |-> @[b]],
               !.objects = SelectSeq(@, Outlives),
               !.arrays = SelectSeq(@, Outlives)]

-----------------------------------------------------------------------------
(* Calls of the memory manager. *)

PoolsInit ==
  /\ client \in Clients
  /\ mem = NoMemory
  /\ calls = 0

\* The call may take so much of the system.
Given == {[mem EXCEPT !.room = r, !.temp_files = f] : r \in client.rooms, f \in client.temp_files}

\* The manager after the call, without what the system might still have given.
Returns(m) ==
  /\ mem' = [m EXCEPT !.room = 0, !.temp_files = 0, !.result = <<>>]
  /\ UNCHANGED client

Callable ==
  /\ mem.open /\ mem.error = "none"
  /\ calls < client.max_calls
  /\ calls' = calls + 1

\* The control block is not an object of a pool.
jinit_memory_mgr ==
  /\ ~mem.open
  /\ \E m \in Given :
       LET n == jpeg_get(m, MANAGER)
       IN Returns(IF client.chunk % ALIGN # 0 THEN ERREXIT(m, "BAD_ALLOC_CHUNK")
                  ELSE IF MANAGER > m.room THEN out_of_memory(m, 0)
                  ELSE [n EXCEPT !.open = TRUE, !.error = "none", !.manager = n.result[1],
                                 !.total_space_allocated = MANAGER])
  /\ UNCHANGED calls

AllocSmall ==
  /\ Callable
  /\ \E m \in Given, pool_id \in client.pools, size \in client.sizes :
       Returns(alloc_small(m, pool_id, size))

AllocLarge ==
  /\ Callable
  /\ \E m \in Given, pool_id \in client.pools, size \in client.large_sizes :
       Returns(alloc_large(m, pool_id, size))

AllocArray ==
  /\ Callable
  /\ \E m \in Given, pool_id \in client.pools, s \in client.strips :
       Returns(alloc_array(m, pool_id, s.kind, s.width, s.rows))

RequestVirtArray ==
  /\ Callable
  /\ \E m \in Given, pool_id \in client.pools, a \in client.arrays :
       Returns(request_virt_array(m, pool_id, a))

RealizeVirtArrays ==
  /\ Callable
  /\ \E m \in Given : Returns(realize_virt_arrays(m))

\* jpeg_abort, which is also the end of an image and the way out of an error.
FreeImage ==
  /\ mem.open
  /\ Returns([free_pool(mem, JPOOL_IMAGE) EXCEPT !.error = "none"])
  /\ UNCHANGED calls

\* self_destruct, for jpeg_destroy.
SelfDestruct ==
  /\ mem.open
  /\ LET m == free_pool(free_pool(mem, JPOOL_IMAGE), JPOOL_PERMANENT)
     IN Returns([NoMemory EXCEPT !.heap = [b \in DOMAIN m.heap \ {m.manager} |-> m.heap[b]],
                                 !.files = m.files])
  /\ UNCHANGED calls

PoolsNext ==
  \/ jinit_memory_mgr \/ AllocSmall \/ AllocLarge \/ AllocArray
  \/ RequestVirtArray \/ RealizeVirtArrays \/ FreeImage \/ SelfDestruct

PoolsSpec == PoolsInit /\ [][PoolsNext]_mvars

-----------------------------------------------------------------------------
(* Properties. *)

\* The manager holds exactly the blocks in its lists and its control block, and
\* knows their sizes: the space it counts is the space it has, also when it ran
\* out of memory in the middle of an array, and nothing is left of it when it is
\* destroyed.  The same for temporary files.
SpaceAccounted ==
  LET lists == UNION {{<<p, i>> : i \in DOMAIN Headers(mem, p)} : p \in Pool}
      Hdr(l) == Headers(mem, l[1])[l[2]]
      blocks == {Hdr(l).block : l \in lists}
  IN /\ blocks \subseteq DOMAIN mem.heap
     /\ Cardinality(blocks) = Cardinality(lists)
     /\ \A l \in lists : mem.heap[Hdr(l).block] = SpaceOf(Hdr(l)) /\ Hdr(l).left >= 0
     /\ DOMAIN mem.heap \ blocks = IF mem.open THEN {mem.manager} ELSE {}
     /\ mem.total_space_allocated = MapThenSumSet(LAMBDA b : mem.heap[b], DOMAIN mem.heap)
     /\ mem.files = Cardinality({v \in VirtArrays(mem) : Control(mem, v).b_s_open})

Overlap(x, xsize, y, ysize) ==
  x.block = y.block /\ x.start < y.start + ysize /\ y.start < x.start + xsize

Holds(x, y, ysize) ==
  x.block = y.block /\ x.start <= y.start /\ y.start + ysize <= x.start + x.size

\* What the client was given and may still use is its own: objects are aligned,
\* in a block of their class behind its header, and none overlaps another; the
\* rows of an array are in its objects.
ObjectsApart ==
  /\ \A i \in DOMAIN mem.objects :
       LET x == mem.objects[i]
       IN /\ x.start >= HDR /\ x.start % ALIGN = 0
          /\ \E l \in DOMAIN Headers(mem, x.pool) :
               LET hdr == Headers(mem, x.pool)[l]
               IN x.block = hdr.block /\ x.start + x.size <= HDR + hdr.used
          /\ \A j \in 1 .. i - 1 : ~Overlap(mem.objects[j], mem.objects[j].size, x, x.size)
  /\ \A i \in DOMAIN mem.arrays :
       LET a == mem.arrays[i]
       IN \A r \in DOMAIN a.rows :
            /\ \E o \in DOMAIN mem.objects : Holds(mem.objects[o], a.rows[r], a.width)
            /\ \A q \in 1 .. r - 1 : ~Overlap(a.rows[q], a.width, a.rows[r], a.width)

\* No request exceeds what malloc is assumed to be able to give in one piece, rows
\* are not bunched together beyond what a large object can be, and what
\* do_sarray_io transfers at once is in one piece: rowsperchunk rows from every
\* multiple of it follow each other.
ChunksInOnePiece ==
  /\ \A b \in DOMAIN mem.heap : mem.heap[b] <= client.chunk
  /\ client.large_sizes \subseteq 1 .. client.chunk - HDR => mem.error # "OUT_OF_MEMORY 3"
  /\ \A v \in VirtArrays(mem) :
       LET a == Control(mem, v)
       IN \A r \in 1 .. Len(a.mem_buffer) - 1 :
            r % a.rowsperchunk # 0 =>
              a.mem_buffer[r + 1] = [a.mem_buffer[r] EXCEPT !.start = @ + RowBytes(mem, v)]

\* What clients hold is theirs and the manager knows of it, to the byte.
PoolsSound == SpaceAccounted /\ ObjectsApart /\ ChunksInOnePiece

\* The arrays a step has given buffers.
Realized ==
  {v \in Unrealized(mem) :
     /\ Len(mem'.virt_list[v[1]]) = Len(mem.virt_list[v[1]])
     /\ Control(mem', v).mem_buffer # <<>>}

\* The rows of an array in memory when every array has room for so many times its
\* maxaccess.
HeightAt(v, heights) == Min({Control(mem, v).rows_in_array, heights * Control(mem, v).maxaccess})
BytesAt(heights) == MapThenSumSet(LAMBDA v : HeightAt(v, heights) * RowBytes(mem, v), Realized)
Whole(v, heights) == HeightAt(v, heights) = Control(mem, v).rows_in_array

AsHighAs(v, heights) ==
  LET a == Control(mem', v)
  IN /\ a.rows_in_mem = HeightAt(v, heights) /\ Len(a.mem_buffer) = a.rows_in_mem
     /\ a.b_s_open = ~Whole(v, heights)

\* Memory is divided evenly among the arrays that wait for it: each is held whole,
\* or as many times its maxaccess as every other, with a file for the rest.  That
\* is within what the limit leaves, unless not even one maxaccess of each is, and
\* one more of each would not be.  The back end without files is never asked for
\* one ("Since jpeg_mem_available always promised the moon, this should never be
\* called", jmemnobs.c:83), and one with files is not when everything fits.
MemoryShared ==
  [][LET avail == client.limit - mem.total_space_allocated
         plenty == client.back_end = "nobs" \/ maximum_space(mem) <= avail
         greatest == Max({1} \cup {Control(mem, v).rows_in_array : v \in Realized})
     IN /\ plenty => mem'.error \notin {"NO_BACKING_STORE", "TFILE_CREATE"}
        /\ Realized # {} /\ mem'.error = "none" => Realized = Unrealized(mem)
        /\ \E heights \in 1 .. greatest :
             /\ \A v \in Realized : AsHighAs(v, heights)
             /\ IF plenty THEN \A v \in Realized : Whole(v, heights)
                ELSE heights = 1 \/ BytesAt(heights) <= avail
             /\ (\E v \in Realized : ~Whole(v, heights)) =>
                  (heights + 1) * space_per_minheight(mem) > avail]_mvars

LargeSpace ==
  MapThenSumSet(LAMBDA p : MapThenSumSet(LAMBDA i : SpaceOf(mem.large_list[p][i]),
                                         DOMAIN mem.large_list[p]), Pool)

\* "Also keep in mind that space allocated with alloc_small() is ignored"
\* (libjpeg.txt:2875), "We don't bother to factor in the space needed for small
\* objects" (structure.txt:805): an array needs no file when it fits next to the
\* large objects.  MemorySmall.cfg shows that the code does count it.
SmallObjectsIgnored ==
  [][maximum_space(mem) + LargeSpace <= client.limit =>
       \A v \in Realized : ~Control(mem', v).b_s_open]_mvars
=============================================================================
