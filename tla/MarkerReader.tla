----------------------------- MODULE MarkerReader -----------------------------
(***************************************************************************)
(* The marker reader (jdmarker.c) on a data source that may suspend after  *)
(* any byte, with the restart handling of the Huffman decoder (jdhuff.c).  *)
(*                                                                         *)
(* The file is a sequence of bytes, followed for ever by the fake EOI that *)
(* jdatasrc.c or the application puts at its end.  A source that never     *)
(* suspends is the behaviour in which everything arrives at once.  A       *)
(* standard marker is read again from its start after a suspension, a      *)
(* saved one goes on where it was.  The entropy-coded data is abstracted   *)
(* to one byte for an MCU.                                                 *)
(***************************************************************************)
EXTENDS Datastream, FiniteSets

CONSTANTS
  Files,        \* see FileAssumption
  Requests,     \* calls of jpeg_save_markers: sequences of [code, limit]
  MaxFake,      \* bound on the fake EOI bytes at the end of a file
  Prefetch      \* bytes jpeg_fill_bit_buffer loads at a time, MIN_GET_BITS / 8

\* A file is made of segments of Datastream, which end after so many bytes each,
\* and cut off after size bytes; valid if its segments are in order, complete and
\* undamaged, recoverable if its restart markers are damaged as RestartsRecovered
\* allows.
\* No more than images datastreams are read from it, one after another.
FileAssumption ==
  \A f \in Files :
    /\ f.bytes = SubSeq(Written(f.segs), 1, f.size)
    /\ f.home = SubSeq(Homes(f.segs), 1, f.size)
    /\ \A i \in DOMAIN f.bytes : f.bytes[i] \in 0 .. 255
    /\ \A k \in DOMAIN f.segs : f.ends[k] = Len(Written(SubSeq(f.segs, 1, k)))
    /\ f.images \in Nat \ {0} /\ f.survivors \subseteq Nat
    /\ {f.valid, f.recoverable} \subseteq BOOLEAN

ASSUME FileAssumption
ASSUME NUM_ARITH_TBLS \in 1 .. 16
ASSUME MaxFake \in Nat /\ {DCTSIZE2, Prefetch} \subseteq Nat \ {0}

VARIABLES
  file,
  image,                \* number of the datastream being read
  image_start,          \* history: where it began in the file
  pos,                  \* bytes before next_input_byte, the restart point
  avail,                \* bytes that have arrived
  skip,                 \* bytes the source manager has still to discard
  consume_input,        \* "markers", "data" or "EOI"
  error,                \* an ERREXIT, or "none"
  params,               \* what the markers set in cinfo, see InitialParams
  params_at_start,      \* history: params when the datastream was begun
  unread_marker,        \* 0 if none
  discarded_bytes,
  reported,             \* history: discarded bytes warned of
  process,              \* method and length limit for each APPn and COM code
  cur_marker,           \* a sequence of at most one, the marker being saved
  marker_list,
  bit_buffer,           \* positions of the bytes in get_buffer, 0 for zeros
  insufficient_data, restarts_to_go,
  mcus                  \* for each MCU decoded, the byte it came from or 0

imageVars == <<file, image, image_start, params_at_start>>
sourceVars == <<pos, avail, skip>>
savedVars == <<cur_marker, marker_list>>
scanVars == <<bit_buffer, insufficient_data, restarts_to_go, mcus>>
discardVars == <<discarded_bytes, reported>>
vars == <<imageVars, sourceVars, consume_input, error, params, unread_marker, discardVars,
          process, savedVars, scanVars>>

M_TEM == 1
M_SOF0 == 192
M_SOF1 == 193
M_SOF2 == 194
M_DHT == 196
M_SOF9 == 201
M_SOF10 == 202
M_DAC == 204
M_RST0 == 208
M_RST7 == 215
M_SOI == 216
M_EOI == 217
M_SOS == 218
M_DQT == 219
M_DNL == 220
M_DRI == 221
M_APP0 == 224
M_APP14 == 238
M_APP15 == 239
M_COM == 254

APPn == M_APP0 .. M_APP15
RST == M_RST0 .. M_RST7
APP0_DATA_LEN == 14
APP14_DATA_LEN == 12

Least(a, b) == IF a < b THEN a ELSE b
Most(a, b) == IF a < b THEN b ELSE a

-------------------------------------------------------------------------------
(* The data source                                                         *)

\* Seeded fault: the fake marker is not EOI.
FakeTEM(i) == IF i % 2 = 1 THEN 255 ELSE M_TEM

\* fill_input_buffer at the end of the file inserts FF D9, as often as needed.
Fake(i) == IF i % 2 = 1 THEN 255 ELSE M_EOI

\* The i-th byte of the file, counting from 1.
Byte(i) ==
  IF i <= Len(file.bytes) THEN file.bytes[i] ELSE Fake(i - Len(file.bytes))

Byte2(i) == 256 * Byte(i) + Byte(i + 1)

Everything == Len(file.bytes) + MaxFake

\* The application loads more data, or the source manager has it at hand.  What
\* is still to be skipped is discarded first.
Arrive ==
  \E n \in {1, Everything - avail} :
    /\ n > 0
    /\ n = 1 => avail < Len(file.bytes)
    /\ avail' = avail + n
    /\ skip' = skip - Least(skip, n)
    /\ pos' = pos + Least(skip, n)
    /\ UNCHANGED <<imageVars, consume_input, error, params, unread_marker,
                   discardVars, process, savedVars, scanVars>>

\* skip_input_data from the restart point p: it cannot suspend, so the source
\* remembers what it could not skip.
SkipInputData(p, num_bytes) ==
  LET now == Least(num_bytes, avail - p)
  IN /\ pos' = p + now
     /\ skip' = num_bytes - now
     /\ avail' = avail

-------------------------------------------------------------------------------
(* next_marker                                                             *)

\* Where the run of FFs at q ends: the first byte that is not FF.
AfterFFs[q \in Nat] == IF Byte(q) = 255 THEN AfterFFs[q + 1] ELSE q

\* next_marker from the restart point p: the new restart point, the marker found
\* (0 if it had to suspend) and the bytes discarded.  The restart point moves
\* over every byte that is discarded.
FindMarker[p \in Nat] ==
  LET q == AfterFFs[p + 1]
  IN IF p >= avail \/ q > avail THEN [pos |-> p, marker |-> 0, discarded |-> 0]
     ELSE IF q = p + 1
     THEN LET r == FindMarker[q] IN [r EXCEPT !.discarded = @ + 1]
     ELSE IF Byte(q) = 0
     THEN LET r == FindMarker[q] IN [r EXCEPT !.discarded = @ + 2]
     ELSE [pos |-> q, marker |-> Byte(q), discarded |-> 0]

-------------------------------------------------------------------------------
(* What the marker processors store.  Each is a list of the assignments it *)
(* makes, in order, with the number of parameter bytes it has read by      *)
(* then; an assignment to "error" is an ERREXIT, the last it makes.  When  *)
(* it suspends, those made so far stay, and all are made again on the next *)
(* call.                                                                   *)

AssignAt(need, field, path, value) ==
  [need |-> need, field |-> field, path |-> path, value |-> value]
Assign(need, field, value) == AssignAt(need, field, <<>>, value)

Unless(condition, need, name, rest) ==
  IF condition THEN <<Assign(need, "error", name)>> ELSE rest

Store(par, a) ==
  CASE Len(a.path) = 0 -> [par EXCEPT ![a.field] = a.value]
    [] Len(a.path) = 1 -> [par EXCEPT ![a.field][a.path[1]] = a.value]
    [] Len(a.path) = 2 -> [par EXCEPT ![a.field][a.path[1]][a.path[2]] = a.value]

Processor(total, assignments) == [total |-> total, assignments |-> assignments]

\* In all of these p is the restart point, just after the marker.
get_soi ==
  Processor(0,
    Unless(params.saw_SOI, 0, "SOI_DUPLICATE",
      <<Assign(0, "arith_dc", [i \in 1 .. NUM_ARITH_TBLS |-> <<0, 1>>]),
        Assign(0, "arith_ac_K", [i \in 1 .. NUM_ARITH_TBLS |-> 5]),
        Assign(0, "restart_interval", 0),
        Assign(0, "saw_JFIF_marker", FALSE), Assign(0, "JFIF", <<1, 1, 0, 1, 1>>),
        Assign(0, "saw_Adobe_marker", FALSE), Assign(0, "Adobe_transform", 0),
        Assign(0, "saw_SOI", TRUE)>>))

get_sof(p, is_baseline, is_prog, is_arith) ==
  LET n == Byte(p + 8)
      Component(i) == p + 9 + 3 * (i - 1)
  IN Processor(8 + 3 * n,
       <<Assign(0, "coding", <<is_baseline, is_prog, is_arith>>),
         Assign(3, "data_precision", Byte(p + 3)),
         Assign(5, "image_height", Byte2(p + 4)),
         Assign(7, "image_width", Byte2(p + 6)),
         Assign(8, "num_components", n)>>
       \o Unless(params.saw_SOF, 8, "SOF_DUPLICATE",
            Unless(Byte2(p + 4) = 0 \/ Byte2(p + 6) = 0 \/ n = 0, 8, "EMPTY_IMAGE",
              Unless(Byte2(p + 1) - 8 # 3 * n, 8, "BAD_LENGTH",
                [i \in 1 .. n |->
                   AssignAt(11 + 3 * (i - 1), "comp_info", <<i>>,
                            <<Byte(Component(i)), Byte(Component(i) + 1),
                              Byte(Component(i) + 2)>>)]
                \o <<Assign(8 + 3 * n, "saw_SOF", TRUE)>>))))

\* Bytes read when the scan is counted.
SosCounted(n) == 6 + 2 * n

get_sos(p) ==
  LET n == Byte(p + 3)
      id(i) == Byte(p + 4 + 2 * (i - 1))
      Found(i) == {ci \in 1 .. params.num_components : params.comp_info[ci][1] = id(i)}
      Tables(i) == Byte(p + 5 + 2 * (i - 1))
      \* The components from the i-th on, and what follows them.
      From[i \in Nat] ==
        IF i <= n
        THEN Unless(Found(i) = {}, 3 + 2 * i, "BAD_COMPONENT_ID",
               <<AssignAt(3 + 2 * i, "cur_comp_info", <<i>>, <<Min(Found(i)), Tables(i)>>)>>
               \o From[i + 1])
        ELSE <<Assign(4 + 2 * n, "Ss", Byte(p + 4 + 2 * n)),
               Assign(5 + 2 * n, "Se", Byte(p + 5 + 2 * n)),
               Assign(6 + 2 * n, "AhAl", Byte(p + 6 + 2 * n)),
               Assign(6 + 2 * n, "next_restart_num", 0),
               Assign(SosCounted(n), "input_scan_number",
                      params.input_scan_number + (IF n = 0 THEN 0 ELSE 1))>>
  IN Processor(6 + 2 * n,
       Unless(~params.saw_SOF, 0, "SOS_NO_SOF",
         Unless(Byte2(p + 1) # 2 * n + 6 \/ n > 4 \/ (n = 0 /\ ~params.coding[2]),
                3, "BAD_LENGTH",
                <<Assign(3, "comps_in_scan", n)>> \o From[1])))

get_dri(p) ==
  Processor(4, Unless(Byte2(p + 1) # 4, 2, "BAD_LENGTH",
                 <<Assign(4, "restart_interval", Byte2(p + 3))>>))

\* Pairs of index and value; those below NUM_ARITH_TBLS are DC, the others AC.
get_dac(p) ==
  LET length == Byte2(p + 1) - 2
      pairs == IF length <= 0 THEN 0 ELSE (length + 1) \div 2
      index(i) == Byte(p + 3 + 2 * i)
      val(i) == Byte(p + 4 + 2 * i)
      From[i \in Nat] ==
        LET need == 4 + 2 * i
        IN IF i >= pairs THEN Unless(length # 2 * pairs, 2 + 2 * pairs, "BAD_LENGTH", <<>>)
           ELSE Unless(index(i) >= 2 * NUM_ARITH_TBLS, need, "DAC_INDEX",
                  IF index(i) >= NUM_ARITH_TBLS
                  THEN <<AssignAt(need, "arith_ac_K", <<index(i) - NUM_ARITH_TBLS + 1>>,
                                  val(i))>>
                       \o From[i + 1]
                  ELSE <<AssignAt(need, "arith_dc", <<index(i) + 1>>,
                                  <<val(i) % 16, val(i) \div 16>>)>>
                       \o Unless(val(i) % 16 > val(i) \div 16, need, "DAC_VALUE", From[i + 1]))
  IN Processor(2 + 2 * pairs, From[0])

\* From[r]: the tables from parameter byte r on.  A table with too few entries
\* is filled with ones first.
get_dqt(p) ==
  LET length == Byte2(p + 1)
      From[r \in Nat] ==
        LET n == Byte(p + r + 1) % 16
            size == IF Byte(p + r + 1) \div 16 = 0 THEN 1 ELSE 2
            count == Least(DCTSIZE2, (length - r - 1) \div size)
            Value(i) == IF size = 1 THEN Byte(p + r + 1 + i) ELSE Byte2(p + r + 2 * i)
        IN IF r >= length THEN Unless(r # length, r, "BAD_LENGTH", <<>>)
           ELSE Unless(n >= 4, r + 1, "DQT_INDEX",
                  (IF count < DCTSIZE2
                   THEN <<AssignAt(r + 1, "quant", <<n + 1>>, [i \in 1 .. DCTSIZE2 |-> 1])>>
                   ELSE <<>>)
                  \o [i \in 1 .. count |->
                        AssignAt(r + 1 + size * i, "quant", <<n + 1, i>>, Value(i))]
                  \o From[r + 1 + size * count])
  IN Processor(Most(2, length), From[2])

\* A table is stored when all of its values have been read.
get_dht(p) ==
  LET length == Byte2(p + 1)
      bits(r) == [i \in 1 .. 16 |-> Byte(p + r + 1 + i)]
      Count(r) == FoldLeft(LAMBDA a, b : a + b, 0, bits(r))
      Values(r) == [i \in 1 .. Count(r) |-> Byte(p + r + 17 + i)]
      From[r \in Nat] ==
        LET index == Byte(p + r + 1)
            count == Count(r)
            end == r + 17 + count
            slot == (IF (index \div 16) % 2 = 1 THEN index - 16 ELSE index) + 1
        IN IF length - r <= 16
           THEN Unless(length # r, r, "BAD_LENGTH", <<>>)
           ELSE Unless(count > 256 \/ count > length - r - 17, r + 17, "BAD_HUFF_TABLE",
                  Unless(slot > 4, end, "DHT_INDEX",
                    <<AssignAt(end, IF (index \div 16) % 2 = 1 THEN "ac_huff" ELSE "dc_huff",
                               <<slot>>, <<bits(r), Values(r)>>)>>
                    \o From[end]))
  IN Processor(Most(2, length), From[2])

JFIF == <<74, 70, 73, 70, 0>>
Adobe == <<65, 100, 111, 98, 101>>
Starts(data, tag) == Len(data) >= Len(tag) /\ SubSeq(data, 1, Len(tag)) = tag

\* examine_app0 and examine_app14 on the data read, need bytes in all.
Examine(code, data, need) ==
  CASE code = M_APP0 /\ Len(data) >= APP0_DATA_LEN /\ Starts(data, JFIF) ->
         <<Assign(need, "saw_JFIF_marker", TRUE),
           Assign(need, "JFIF", <<data[6], data[7], data[8], 256 * data[9] + data[10],
                                  256 * data[11] + data[12]>>)>>
    [] code = M_APP14 /\ Len(data) >= APP14_DATA_LEN /\ Starts(data, Adobe) ->
         <<Assign(need, "saw_Adobe_marker", TRUE),
           Assign(need, "Adobe_transform", data[12])>>
    [] OTHER -> <<>>

get_interesting_appn(p, code) ==
  LET numtoread == Least(APP0_DATA_LEN, Most(Byte2(p + 1) - 2, 0))
  IN Processor(2 + numtoread,
               Examine(code, [i \in 1 .. numtoread |-> Byte(p + 2 + i)], 2 + numtoread))

Skipping(p) == Processor(2, <<>>)     \* skip_variable

\* The processor of each marker that has one, save_marker excepted.
ProcessorOf(code, p) ==
  CASE code = M_SOI -> get_soi
    [] code = M_SOF0 -> get_sof(p, TRUE, FALSE, FALSE)
    [] code = M_SOF1 -> get_sof(p, FALSE, FALSE, FALSE)
    [] code = M_SOF2 -> get_sof(p, FALSE, TRUE, FALSE)
    [] code = M_SOF9 -> get_sof(p, FALSE, FALSE, TRUE)
    [] code = M_SOF10 -> get_sof(p, FALSE, TRUE, TRUE)
    [] code = M_SOS -> get_sos(p)
    [] code = M_DAC -> get_dac(p)
    [] code = M_DHT -> get_dht(p)
    [] code = M_DQT -> get_dqt(p)
    [] code = M_DRI -> get_dri(p)
    [] code = M_DNL -> Skipping(p)
    [] code \in APPn \cup {M_COM} ->
         IF process[code].method = "get_interesting_appn" THEN get_interesting_appn(p, code)
         ELSE Skipping(p)
    [] code \in RST \cup {M_TEM, M_EOI} -> Processor(0, <<>>)
    [] OTHER -> Processor(0, <<Assign(0, "error", "UNKNOWN_MARKER")>>)

\* Bytes of the marker the processor leaves to skip_input_data.
Rest(code, p) ==
  IF code \in APPn \cup {M_COM, M_DNL}
  THEN Most(Byte2(p + 1) - ProcessorOf(code, p).total, 0) ELSE 0

-------------------------------------------------------------------------------
(* read_markers                                                            *)

Reading == error = "none" /\ consume_input = "markers"

FirstMarker ==
  /\ Reading /\ unread_marker = 0 /\ ~params.saw_SOI
  /\ avail - pos >= 2
  /\ IF Byte(pos + 1) = 255 /\ Byte(pos + 2) = M_SOI
     THEN unread_marker' = M_SOI /\ pos' = pos + 2 /\ UNCHANGED error
     ELSE error' = "NO_SOI" /\ UNCHANGED <<unread_marker, pos>>
  /\ UNCHANGED <<imageVars, avail, skip, consume_input, params, discardVars,
                 process, savedVars, scanVars>>

\* Where the restart point is after a search.
KeptPoint(r) == r.pos

\* next_marker from the current restart point; counted were discarded before.
NextMarker(counted) ==
  LET r == FindMarker[pos]
      total == counted + r.discarded
  IN /\ pos' = KeptPoint(r)
     /\ IF r.marker = 0
        THEN discarded_bytes' = total /\ UNCHANGED <<unread_marker, reported>>
        ELSE /\ unread_marker' = r.marker
             /\ discarded_bytes' = 0 /\ reported' = reported + total

FetchMarker ==
  /\ Reading /\ unread_marker = 0 /\ params.saw_SOI
  /\ NextMarker(discarded_bytes)
  /\ UNCHANGED <<imageVars, avail, skip, consume_input, error, params, process,
                 savedVars, scanVars>>


\* start_pass_huff_decoder, when a scan that is not a pseudo one has begun.
StartScan(par) ==
  IF unread_marker = M_SOS /\ par.comps_in_scan > 0
  THEN /\ consume_input' = "data"
       /\ bit_buffer' = <<>> /\ insufficient_data' = FALSE
       /\ restarts_to_go' = par.restart_interval /\ mcus' = <<>>
  ELSE /\ consume_input' = IF unread_marker = M_EOI THEN "EOI" ELSE "markers"
       /\ UNCHANGED scanVars

\* One marker other than those being saved.
ProcessMarker ==
  LET m == ProcessorOf(unread_marker, pos)
      made == SelectSeq(m.assignments, LAMBDA a : a.need <= avail - pos)
      failed == SelectSeq(made, LAMBDA a : a.field = "error")
      par == FoldLeft(Store, params, SelectSeq(made, LAMBDA a : a.field # "error"))
  IN /\ Reading /\ unread_marker # 0
     /\ unread_marker \in APPn \cup {M_COM} => process[unread_marker].method # "save_marker"
     /\ params' = par
     /\ IF failed # <<>>
        THEN /\ error' = failed[1].value
             /\ UNCHANGED <<sourceVars, unread_marker, consume_input, scanVars>>
        ELSE /\ UNCHANGED error
             /\ IF avail - pos < m.total
                THEN UNCHANGED <<sourceVars, unread_marker, consume_input, scanVars>>
                ELSE /\ SkipInputData(pos + m.total, Rest(unread_marker, pos))
                     /\ unread_marker' = 0
                     /\ StartScan(par)
     /\ UNCHANGED <<imageVars, discardVars, process, savedVars>>

\* The data read before a suspension, up to bytes_read.
ReadSoFar(data) == data

\* save_marker, the length word read; n is the length without it.
BeginSaving(n) ==
  [marker |-> unread_marker, original_length |-> n, data |-> <<>>, image |-> image,
   data_length |-> Least(n, process[unread_marker].limit)]

\* The marker is in hand: copy what has arrived, and link it when complete.
CopyData(cur, p) ==
  LET have == ReadSoFar(cur.data)
      n == Least(cur.data_length - Len(have), avail - p)
      data == have \o [i \in 1 .. n |-> Byte(p + i)]
      done == [cur EXCEPT !.data = data]
  IN IF Len(data) < cur.data_length
     THEN /\ cur_marker' = <<done>> /\ pos' = p + n
          /\ UNCHANGED <<avail, skip, unread_marker, marker_list, params>>
     ELSE /\ cur_marker' = <<>>
          /\ marker_list' = Append(marker_list, done)
          /\ params' = FoldLeft(Store, params, Examine(cur.marker, data, 0))
          /\ SkipInputData(p + n, cur.original_length - cur.data_length)
          /\ unread_marker' = 0

SaveMarker ==
  LET length == Byte2(pos + 1) - 2
  IN /\ Reading /\ unread_marker \in APPn \cup {M_COM}
     /\ process[unread_marker].method = "save_marker"
     /\ IF cur_marker # <<>> THEN CopyData(cur_marker[1], pos)
        ELSE /\ avail - pos >= 2
             /\ IF length >= 0 THEN CopyData(BeginSaving(length), pos + 2)
                ELSE /\ pos' = pos + 2 /\ unread_marker' = 0
                     /\ UNCHANGED <<avail, skip, savedVars, params>>
     /\ UNCHANGED <<imageVars, consume_input, error, discardVars, process, scanVars>>

-------------------------------------------------------------------------------
(* The scan: restart markers and the decoder's input                       *)

MCUs == params.image_width * params.image_height

Scanning == error = "none" /\ consume_input = "data" /\ Len(mcus) < MCUs

RestartDue == params.restart_interval # 0 /\ restarts_to_go = 0

\* Seeded fault: only the next marker is taken for a future one.
ResyncActionNear(marker, desired) ==
  CASE marker < M_SOF0 -> "advance"
    [] marker >= M_SOF0 /\ marker \notin RST -> "leave"
    [] marker = M_RST0 + ((desired + 1) % 8) -> "leave"
    [] marker \in {M_RST0 + ((desired - 1) % 8), M_RST0 + ((desired - 2) % 8)} -> "advance"
    [] OTHER -> "discard"

\* What jpeg_resync_to_restart does with a marker: "discard" it and go on
\* decoding, "advance" to the next marker, or "leave" it and decode an empty
\* segment.  The desired marker itself is discarded, as read_restart_marker does.
ResyncAction(marker, desired) ==
  CASE marker < M_SOF0 -> "advance"
    [] marker >= M_SOF0 /\ marker \notin RST -> "leave"
    [] marker \in {M_RST0 + ((desired + 1) % 8), M_RST0 + ((desired + 2) % 8)} -> "leave"
    [] marker \in {M_RST0 + ((desired - 1) % 8), M_RST0 + ((desired - 2) % 8)} -> "advance"
    [] OTHER -> "discard"

\* process_restart up to the next marker: the bits left are thrown away, and a
\* marker is looked for if none was read, or if this one is to be passed over.
RestartSearch ==
  /\ Scanning /\ RestartDue
  /\ unread_marker = 0 \/ ResyncAction(unread_marker, params.next_restart_num) = "advance"
  /\ bit_buffer' = <<>>
  /\ NextMarker(discarded_bytes + Len(bit_buffer))
  /\ UNCHANGED <<imageVars, avail, skip, consume_input, error, params, process,
                 savedVars, insufficient_data, restarts_to_go, mcus>>

NextNumber(n) == (n + 1) % 8

\* insufficient_data after a restart: it stays if the next segment is empty too.
StillOutOfData(action) == insufficient_data /\ action = "leave"

\* The rest of process_restart.
RestartFound ==
  LET action == ResyncAction(unread_marker, params.next_restart_num)
  IN /\ Scanning /\ RestartDue
     /\ unread_marker # 0 /\ action \in {"discard", "leave"}
     /\ unread_marker' = IF action = "leave" THEN unread_marker ELSE 0
     /\ params' = [params EXCEPT !.next_restart_num = NextNumber(@)]
     /\ restarts_to_go' = params.restart_interval
     /\ insufficient_data' = StillOutOfData(action)
     /\ discarded_bytes' = discarded_bytes + Len(bit_buffer)
     /\ bit_buffer' = <<>>
     /\ UNCHANGED <<imageVars, sourceVars, consume_input, error, reported, process,
                    savedVars, mcus>>

\* jpeg_fill_bit_buffer from p with buffer loaded: the position reached, the
\* bytes loaded, the marker hit (0 if none), and whether the source suspended.
Fill[p \in Nat, n \in Nat] ==
  LET q == AfterFFs[p + 1]
  IN IF n = 0 THEN [pos |-> p, loaded |-> <<>>, marker |-> 0, suspended |-> FALSE]
     ELSE IF p >= avail \/ q > avail
     THEN [pos |-> p, loaded |-> <<>>, marker |-> 0, suspended |-> TRUE]
     ELSE IF q > p + 1 /\ Byte(q) # 0
     THEN [pos |-> q, loaded |-> <<>>, marker |-> Byte(q), suspended |-> FALSE]
     ELSE LET r == Fill[q, n - 1] IN [r EXCEPT !.loaded = <<q>> \o @]

\* One MCU out of the bit buffer; nothing changes if the source suspends.
Decode(buffer) ==
  /\ bit_buffer' = Tail(buffer)
  /\ mcus' = Append(mcus, Head(buffer))

DecodeMCU ==
  LET r == Fill[pos, Prefetch]
      zeros == [i \in 1 .. Prefetch |-> 0]
  IN /\ Scanning /\ ~RestartDue
     /\ \/ /\ insufficient_data
           /\ mcus' = Append(mcus, 0)
           /\ UNCHANGED <<pos, unread_marker, insufficient_data, bit_buffer>>
        \/ /\ ~insufficient_data /\ bit_buffer # <<>>
           /\ Decode(bit_buffer)
           /\ UNCHANGED <<pos, unread_marker, insufficient_data>>
        \/ /\ ~insufficient_data /\ bit_buffer = <<>> /\ unread_marker # 0
           /\ Decode(zeros) /\ insufficient_data' = TRUE
           /\ UNCHANGED <<pos, unread_marker>>
        \/ /\ ~insufficient_data /\ bit_buffer = <<>> /\ unread_marker = 0
           /\ ~r.suspended
           /\ Decode(IF r.loaded = <<>> THEN zeros ELSE r.loaded)
           /\ insufficient_data' = (r.loaded = <<>>)
           /\ pos' = r.pos /\ unread_marker' = r.marker
     /\ restarts_to_go' = restarts_to_go - 1
     /\ UNCHANGED <<imageVars, avail, skip, consume_input, error, params, discardVars,
                    process, savedVars>>

\* finish_input_pass
EndScan ==
  /\ error = "none" /\ consume_input = "data" /\ Len(mcus) = MCUs
  /\ consume_input' = "markers"
  /\ UNCHANGED <<imageVars, sourceVars, error, params, unread_marker, discardVars,
                 process, savedVars, scanVars>>

-------------------------------------------------------------------------------
(* The decompression object                                                *)

\* jpeg_save_markers keeps enough of APP0 and APP14 for the library's own use.
LongEnough(code, limit) ==
  CASE code = M_APP0 -> Most(limit, APP0_DATA_LEN)
    [] code = M_APP14 -> Most(limit, APP14_DATA_LEN)
    [] OTHER -> limit

DefaultMethod(code) ==
  IF code \in {M_APP0, M_APP14} THEN "get_interesting_appn" ELSE "skip_variable"

jpeg_save_markers(methods, r) ==
  [methods EXCEPT ![r.code] =
     IF r.limit > 0 THEN [method |-> "save_marker", limit |-> LongEnough(r.code, r.limit)]
     ELSE [method |-> DefaultMethod(r.code), limit |-> 0]]

\* jinit_marker_reader and the application's requests.
Methods(requests) ==
  FoldLeft(jpeg_save_markers,
           [code \in APPn \cup {M_COM} |-> [method |-> DefaultMethod(code), limit |-> 0]],
           requests)

NoComponents == [i \in 1 .. 4 |-> <<-1, -1, -1>>]

InitialParams ==
  [saw_SOI |-> FALSE, saw_SOF |-> FALSE, input_scan_number |-> 0, next_restart_num |-> 0,
   arith_dc |-> [i \in 1 .. NUM_ARITH_TBLS |-> <<0, 0>>],
   arith_ac_K |-> [i \in 1 .. NUM_ARITH_TBLS |-> 0],
   restart_interval |-> 0,
   saw_JFIF_marker |-> FALSE, JFIF |-> <<0, 0, 0, 0, 0>>,
   saw_Adobe_marker |-> FALSE, Adobe_transform |-> 0,
   coding |-> <<FALSE, FALSE, FALSE>>, data_precision |-> 0,
   image_height |-> 0, image_width |-> 0, num_components |-> 0,
   comp_info |-> NoComponents, comps_in_scan |-> 0,
   cur_comp_info |-> [i \in 1 .. 4 |-> <<0, 0>>], Ss |-> 0, Se |-> 0, AhAl |-> 0,
   quant |-> [i \in 1 .. 4 |-> [j \in 1 .. DCTSIZE2 |-> -1]],
   dc_huff |-> [i \in 1 .. 4 |-> <<>>], ac_huff |-> [i \in 1 .. 4 |-> <<>>]]

Init ==
  /\ file \in Files /\ image = 1 /\ image_start = 0
  /\ pos = 0 /\ avail = 0 /\ skip = 0
  /\ consume_input = "markers" /\ error = "none"
  /\ params = InitialParams /\ params_at_start = InitialParams
  /\ unread_marker = 0 /\ discarded_bytes = 0 /\ reported = 0
  /\ \E r \in Requests : process = Methods(r)
  /\ cur_marker = <<>> /\ marker_list = <<>>
  /\ bit_buffer = <<>> /\ insufficient_data = FALSE /\ restarts_to_go = 0 /\ mcus = <<>>

\* Seeded fault: a marker being saved is not forgotten.
ForgetCurMarkerNot == cur_marker

\* reset_marker_reader: cur_marker pointed into the image's memory pool.
ForgetCurMarker == <<>>

\* Where the next datastream begins: further on in the file, or at its beginning.
NextStart == IF consume_input = "EOI" /\ pos < Len(file.bytes) THEN pos ELSE 0

\* The image is complete and another one follows, or it is aborted at any point
\* and the file read again from a fresh source.
NextImage ==
  LET reset == [params EXCEPT !.saw_SOI = FALSE, !.saw_SOF = FALSE, !.input_scan_number = 0,
                              !.comp_info = NoComponents]
  IN /\ image < file.images
     /\ image' = image + 1 /\ image_start' = NextStart
     /\ pos' = NextStart /\ skip' = 0
     /\ avail' = IF NextStart = pos THEN avail ELSE 0
     /\ consume_input' = "markers" /\ error' = "none"
     /\ params' = reset /\ params_at_start' = reset
     /\ unread_marker' = 0 /\ discarded_bytes' = 0 /\ reported' = 0
     /\ cur_marker' = ForgetCurMarker /\ marker_list' = <<>>
     /\ mcus' = <<>>
     /\ UNCHANGED <<file, process, bit_buffer, insufficient_data, restarts_to_go>>

ReadStep ==
  FirstMarker \/ FetchMarker \/ ProcessMarker \/ SaveMarker
  \/ RestartSearch \/ RestartFound \/ DecodeMCU \/ EndScan

Next == Arrive \/ ReadStep \/ NextImage

\* The application goes on calling the library, and supplying data.
Fairness == WF_vars(ReadStep) /\ WF_vars(Arrive)

Spec == Init /\ [][Next]_vars /\ Fairness

-------------------------------------------------------------------------------
(* Properties                                                              *)

TypeOK ==
  /\ image \in 1 .. file.images
  /\ pos \in Nat /\ avail \in Nat /\ pos <= avail /\ skip \in Nat
  /\ skip > 0 => pos = avail
  /\ consume_input \in {"markers", "data", "EOI"}
  /\ DOMAIN params = DOMAIN InitialParams
  /\ params.next_restart_num \in 0 .. 7
  /\ unread_marker \in 0 .. 254 /\ discarded_bytes \in Nat /\ reported \in Nat
  /\ DOMAIN process = APPn \cup {M_COM}
  /\ Len(cur_marker) <= 1
  /\ insufficient_data \in BOOLEAN
  /\ Len(bit_buffer) < Prefetch /\ (consume_input = "data" => Len(mcus) <= MCUs)

\* Between two markers, none of which is partly read.
Quiet ==
  /\ unread_marker = 0 /\ cur_marker = <<>> /\ skip = 0 /\ discarded_bytes = 0
  /\ consume_input \in {"markers", "EOI"}
  /\ ~(consume_input = "markers" /\ pos > Len(file.bytes))

\* The segments of this image that end at or before the restart point.
Within(n) == Cardinality({k \in DOMAIN file.ends : file.ends[k] <= n})
SegsRead == SubSeq(file.segs, Within(image_start) + 1, Within(pos))

\* However the bytes of a valid file arrive, and whatever was read twice, the
\* reader raises no error, and between two markers it knows what the segments
\* before the restart point say, the tables of earlier images included
\* (read_markers and the routines it calls, jdmarker.c:198-1143).
ReadRight ==
  file.valid =>
    /\ error = "none"
    /\ Quiet => params = MeaningOf(params_at_start, SegsRead)

\* What is to be in the marker list for a segment.
SavedForm(s) ==
  LET p == process[Code(s)]
  IN [marker |-> Code(s), original_length |-> Len(Data(s)), image |-> image,
      data_length |-> Least(Len(Data(s)), p.limit),
      data |-> SubSeq(Data(s), 1, Least(Len(Data(s)), p.limit))]

ToBeSaved(s) ==
  s.m \in {"JFIF", "Adobe", "other"} /\ Code(s) \in DOMAIN process
  /\ process[Code(s)].method = "save_marker"

\* The saved markers are those of this image, each once, in the file's order,
\* with its first bytes up to the limit (save_marker, jdmarker.c:776-876); and
\* one that is being saved lies in the image's memory: after an abort in the
\* middle of one, nothing is added to freed memory (reset_marker_reader,
\* jdmarker.c:1288-1299).
MarkerListRight ==
  /\ \A i \in DOMAIN cur_marker : cur_marker[i].image = image
  /\ file.valid /\ Quiet =>
       marker_list = [i \in DOMAIN SelectSeq(SegsRead, ToBeSaved) |->
                        SavedForm(SelectSeq(SegsRead, ToBeSaved)[i])]

\* Each byte that a search for a marker discards is warned of once, however often
\* the search is suspended (next_marker, jdmarker.c:911-954).
GarbageIn(segs) ==
  FoldLeft(LAMBDA n, s : n + (IF s.m = "garbage" THEN Len(s.bytes) ELSE 0), 0, segs)
GarbageReported ==
  file.valid /\ consume_input = "EOI" => reported = GarbageIn(SegsRead)

\* The MCU whose code the i-th decoded one was made from, 0 if none.
Home(b) == IF b = 0 \/ b > Len(file.home) THEN 0 ELSE file.home[b]
Origin(i) == Home(mcus[i])

\* Restart markers lost, alone or with the data after them, never make data
\* appear in another interval's place, if no more than two in a row are lost
\* (jpeg_resync_to_restart, jdmarker.c:1238-1280).  Nor is more lost than the
\* intervals without a restart marker of their own: at the end of the scan each
\* MCU whose marker and code are in the file is there (process_restart,
\* jdhuff.c:636-668).
RestartsRecovered ==
  file.recoverable =>
    /\ \A i \in DOMAIN mcus : Origin(i) \in {0, i}
    /\ consume_input = "data" /\ Len(mcus) = MCUs =>
         \A i \in file.survivors : Origin(i) = i

\* Every file comes to an end, with EOI or an error, also one that is cut off
\* (fill_input_buffer, jdatasrc.c:96-121).
Ends == []<>(consume_input = "EOI" \/ error # "none")

\* The reader's state is of the kinds declared; what it read of a valid file, what
\* it saved for the application, and what it discarded and warned of is what is in
\* the file.
ReadAsSent == TypeOK /\ ReadRight /\ MarkerListRight /\ GarbageReported
===============================================================================
