------------------------------- MODULE MCMemory -------------------------------
(***************************************************************************)
(* The memory manager: one virtual array with its window (VirtualArray),   *)
(* or the pools with several arrays (MemoryPools), one at a time.          *)
(***************************************************************************)
EXTENDS VirtualArray, MemoryPools

(* Requests.  The first pool of an image is full after two of the large    *)
(* sizes; a block can be had for the object alone, with some of the slop,  *)
(* or with all of it.                                                      *)

Array(kind, width, rows, maxaccess) ==
  [kind |-> kind, width |-> width, rows |-> rows, maxaccess |-> maxaccess]
Strip(kind, width, rows) == [kind |-> kind, width |-> width, rows |-> rows]

Objects ==
  [chunk |-> 20000, back_end |-> "ansi", limit |-> 30000, pools |-> {0, 1},
   sizes |-> {1, 1000, 9000}, large_sizes |-> {13}, strips |-> {}, arrays |-> {},
   rooms |-> {200, 10400, 100000}, temp_files |-> {0}, max_calls |-> 4]

\* Requests at and beyond MAX_ALLOC_CHUNK, for a class that does not exist, and a
\* MAX_ALLOC_CHUNK that leaves no room for slop.
Limits ==
  {[Objects EXCEPT !.chunk = c, !.pools = {1, 2}, !.sizes = {3, c - 24, c - 23, c - 100},
                   !.large_sizes = {c - 24, c - 23}, !.rooms = {5000, 100000}, !.max_calls = 3] :
     c \in {2000, 2004}}

\* Strips in one chunk and in several, the last one short, wider than a chunk, and
\* memory that runs out in the middle.
Strips ==
  [Objects EXCEPT !.chunk = 2000, !.pools = {0, 1}, !.sizes = {}, !.large_sizes = {},
     !.strips = {Strip("sarray", 75, 3), Strip("sarray", 500, 5), Strip("sarray", 1977, 1),
                 Strip("barray", 3, 7)},
     !.rooms = {400, 2500, 3800, 100000}, !.max_calls = 3]

\* Arrays of one to seven times their maxaccess, for files that can be had or not,
\* in memory that does for none of them up to all of them.
Virtual(limits, back_end) ==
  {[Objects EXCEPT !.chunk = 2000, !.pools = {1}, !.sizes = {}, !.large_sizes = {1200},
      !.back_end = back_end, !.limit = l,
      !.arrays = {Array("sarray", 700, 7, 1), Array("sarray", 300, 5, 2), Array("barray", 7, 5, 2)},
      !.rooms = {2100, 4000, 100000}, !.temp_files = {0, 1, 2}, !.max_calls = 5] : l \in limits}

\* The system gives nothing: there is no manager.
Nobody == [Objects EXCEPT !.rooms = {}]

AllClients ==
  {Nobody, Objects, Strips} \cup Limits \cup Virtual({0, 9000, 12000, 30000}, "ansi") \cup Virtual({0}, "nobs")

\* Either pools or an array.
MemoryInit ==
  /\ Init
  /\ PoolsInit
  /\ client # Nobody => mem_buffer = [r \in BufRow |-> Zero]

MemoryNext ==
  \/ client = Nobody /\ Next /\ UNCHANGED mvars
  \/ client # Nobody /\ PoolsNext /\ UNCHANGED vars

MemorySpec == MemoryInit /\ [][MemoryNext]_<<vars, mvars>>
===============================================================================
