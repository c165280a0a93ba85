# A TLA+ verification of the IJG JPEG library

This directory models libjpeg as it is in this repository (release 9's line: scaled DCT,
arithmetic coding, pseudo SOS markers), checks the models with TLC and proves theorems about nine
of them with TLAPS. Every definition is translated from the C source; `PROJECT.json` maps it to
the lines it stands for, and lists the runs, the seeded faults each property is tested against,
the findings, the hazards and the theorems.

The library is single-threaded. What makes it hard is that it is a *coroutine written by hand*:
the data source may refuse to deliver, and the destination to take, at almost any byte; every
call then returns to the application with its state saved, and the application may go on, call
something else, give up, or start another image. Input and output of an image are interleaved
(buffered-image mode), rows are handed on through buffers of different granularity (MCU, iMCU
row, row group, strip, scanline), several methods are function pointers that are replaced while
the image goes on, and under all of that lie coders and transforms of which every size and mode
has code of its own.

## Inventory

| part | files | state | operations | modelled in |
|---|---|---|---|---|
| virtual arrays | jmemmgr.c | window, dirty flag, first undefined row, temporary file | request, realize, access, free | `VirtualArray` |
| memory pools | jmemmgr.c, jmemnobs.c, jmemansi.c, jmemname.c, jmemdos.c, jmemmac.c | pool lists, slop, space allocated | alloc_small/large/sarray/barray, request and realize of several virtual arrays, free_pool | `MemoryPools` |
| decompression API, pass control | jdapimin.c, jdapistd.c, jdtrans.c, jdmaster.c, jcomapi.c | global_state, pass flags | the jpeg_* calls | `DecompressControl`; sizes in `ComponentSizes` |
| input controller | jdinput.c | consume_input, inheaders, eoi_reached, saved quantization tables | consume_markers, start/finish_input_pass, reset | `DecompressControl`, `DecompressCoef`, `ComponentSizes` |
| coefficient controller | jdcoefct.c | virtual arrays of blocks, MCU counters, latched accuracies | consume_data, decompress_onepass/data/smooth_data | `DecompressControl` (rows), `DecompressCoef` (blocks) |
| main and postprocessing controllers, upsamplers | jdmainct.c, jdpostct.c, jdsample.c, jdmerge.c | funny pointers, row group counters, spare row, strip | process_data, upsample, post_process_data | `DecompressRows` |
| marker reader | jdmarker.c | unread marker, marker being saved, restart number | read_markers, next_marker, each processor, restart and resync | `MarkerReader`, `Datastream` |
| entropy coders | jchuff.c, jdhuff.c, jcarith.c, jdarith.c, jaricom.c | bit buffer, C and A registers, statistics, EOBRUN and correction bits, predictions, restart counter | encode_mcu and decode_mcu variants, gathering and optimal tables, restarts | `HuffmanTables`, `HuffmanCoder`, `ArithmeticCoder`, `CodedBytes`, `EntropyCoding`; restarts also in `MarkerReader` |
| DCT, IDCT and their tables | jfdctint.c, jfdctfst.c, jidctint.c, jidctfst.c, jcdctmgr.c, jddctmgr.c, jdct.h | divisor and multiplier tables, methods in place | the routine for each size, quantization, dequantization | `ForwardDct`, `InverseDct`, `FastDct`, `DctArithmetic`, `TransformBlock`; tables over time in `DecompressCoef`, choice of routines in `ComponentSizes` |
| data source and destination | jdatasrc.c, jdatadst.c | buffer, start_of_file | fill/skip; empty/term | source in `MarkerReader`; a destination only as what may refuse or fail |
| compression API, pass control | jcapimin.c, jcapistd.c, jcinit.c, jcmaster.c, jctrans.c, jcparam.c | global_state, pass type, scan script | the jpeg_* calls | `CompressControl`, `ScanScript`; sizes in `ComponentSizes` |
| compression buffering | jcmainct.c, jcprepct.c, jccoefct.c, jcsample.c | row group and MCU counters, context buffer, edge expansion, arrays of blocks | pre_process_data, process_data, compress_data, downsample | `CompressRows`; widths in `ComponentSizes` |
| marker writer | jcmarker.c | sent_table, last_restart_interval | write_*_header | tables and headers in `CompressControl` |
| transformations | transupp.c, jpegtran.c | workspace arrays, destination parameters | do_rot, do_flip, cropping, trimming | `LosslessTransform` |
| color quantizers | jquant1.c, jquant2.c | colormap, index tables, histogram and its use as a cache, error rows | start_pass, color_quantize, finish_pass, new_color_map | `ColorQuantizers`; when their passes run in `DecompressControl`, `DecompressRows` |
| color conversion | jdcolor.c, jccolor.c | tables | per-pixel arithmetic | not modelled |
| error handling, utilities | jerror.c, jutils.c | message | ERREXIT, WARNMS; rounding | an error outcome in every module |
| applications, image formats | cjpeg.c, djpeg.c, rd*.c, wr*.c, ... | file formats | | not modelled |
| build | configure, ltmain.sh, ... | | | not modelled |

How they interact on the way in: `jpeg_consume_input`, `jpeg_read_header` and the others (API)
call the input controller's *consume_input* method, which is either consume_markers (the marker
reader) or the coefficient controller's consume_data (the entropy decoder, which in turn asks the
marker reader for restart markers). On the way out `jpeg_read_scanlines` calls the main
controller, which asks the coefficient controller for one iMCU row at a time (IDCT included) and
hands row groups to the upsampler and the postprocessor. Compression is the mirror image:
`jpeg_write_scanlines` calls the main controller, which has the preprocessor fill an iMCU row with
color-converted, downsampled rows and hands it to the coefficient controller, which runs the
forward DCT and either encodes the MCUs at once or stores them for the passes of
`jpeg_finish_compress`. Full-image buffers are virtual arrays of the memory manager. Nothing but
suspension connects all of them: a FALSE from the source or the destination travels up through
every layer, and each must be able to be called again.

Hard behaviours, and what must be true in spite of them:

* **suspension** at any byte, MCU or iMCU row, on both sides: nothing is lost, stored twice, counted
  twice, or put elsewhere when the call is repeated;
* **input and output that overtake each other** (buffered-image mode): a row shown is never older
  than the target, smoothing never reads what has not arrived, nobody waits for ever;
* **replaced methods and cached data** (consume_input, dummy_consume_data, dct_table, coef_bits,
  sent_table, histogram): none is stale when it is used;
* **errors and aborts**: the next image starts from a clean slate although few fields are reset;
* **edges**: partial MCUs, iMCU rows, row groups and strips at the right and at the bottom;
* **sizes**: sampling factors, block size and scale meet in the size of every buffer and in the
  choice of every routine;
* **damaged data**: lost restart markers, garbage between markers, truncated files, wrong codes;
* **limits of the coders**: carries over any number of bytes, runs of 32767 blocks, correction bits
  that fill their buffer, codes of more than 16 bits;
* **arithmetic that is written out** for each of 31 block sizes;
* **arrays larger than memory**: no row is lost when a window moves, and memory is divided within the limit;
* **failure of an allocation in the middle of many**: all of them are known to the pool that is then freed.

## Modules

| module | models | lines on top of |
|---|---|---|
| `VirtualArraySpec` | what a virtual array promises: no window, no file | |
| `VirtualArray`, `VirtualArrayProofs` | the window, the dirty flag, the temporary file; implements `VirtualArraySpec` (`AbsSpec`); its theorems | |
| `MemoryPools` | the pools, arrays of rows, and the division of memory among virtual arrays | |
| `DecompressControl`, `DecompressControlProofs` | the state machine of one decompression object; its theorems | |
| `DecompressCoef`, `DecompressCoefProofs` | from MCUs to blocks and from blocks to iMCU rows; its theorems | |
| `DecompressRows`, `DecompressRowsProofs` | from iMCU rows to scanlines; where everybody is, and what the buffers hold | |
| `Datastream`, `MarkerReader` | what a file says; how the code finds that out byte by byte, restarts included | |
| `ScanScript` | scan scripts, as the encoder admits and the decoder accepts them | |
| `CompressControl`, `CompressControlProofs` | the state machine of one compression object; its theorems, and those of `ScanScript` | `ScanScript` |
| `NumberLemmas` | arithmetic and recursion over numbers, which the proofs share | |
| `CompressRows`, `CompressRowsProofs` | from scanlines to MCUs; its theorems | |
| `ColorQuantizers` | the two quantizers, and the choice between them from pass to pass | |
| `CodedBytes` | bytes of an entropy-coded segment: stuffing, markers | |
| `ArithmeticCoder` | the arithmetic encoder and decoder | `CodedBytes` |
| `HuffmanTables`, `HuffmanCoder` | optimal and derived tables; the Huffman encoder and decoder | `CodedBytes` |
| `EntropyCoding` | a scan through an encoder, a file, and a decoder | both coders |
| `DctArithmetic` | fixed-point arithmetic, and the cosines the results are compared with | |
| `ForwardDct`, `InverseDct`, `FastDct` | the routines of jfdctint.c, jidctint.c, and of jfdctfst.c and jidctfst.c | `DctArithmetic` |
| `TransformBlock` | one block through DCT, quantization, dequantization, IDCT | the three above |
| `ComponentSizes` | sizes of components, DCTs and buffers in encoder, decoder and transcoder | |
| `LosslessTransform` | transupp.c between a decoder and an encoder | `ComponentSizes` |
| `SizesProofs` | the theorems of the two modules above | both |

The `MC...` modules hold only instances: images, datastreams, files, jobs. `MCRows` runs
`DecompressRows`, `ColorQuantizers` and `CompressRows` in one state space, one at a time, and `MCMemory`
`VirtualArray` and `MemoryPools`.

How they fit: `DecompressControl` treats consume_data and read_markers as steps that succeed,
suspend or fail, and what it relies on is what the others show: that a repeated step goes on
where it stopped (`DecompressCoef!ScanStored`, `MarkerReader!ReadAsSent`, `EntropyCoding!Lossless`),
and that a step comes to an end (`MarkerReader!Ends`). The state machines of `DecompressCoef` and
`DecompressRows` allow what `DecompressControl` lets the application do, in any order. The strip
accesses of `DecompressRows` and the block accesses of `DecompressCoef` are held against the
preconditions of `VirtualArraySpec!Legal` (both in `WithinBounds`). `CompressControl` knows an iMCU
row only as complete or refused; that a refused one is encoded right when it is offered again is
`CompressRows!MCUsRight`. Both take from `ComponentSizes` that a row fits where it is put.

### VirtualArray

State: the fields of jvirt_sarray_control / jvirt_barray_control, plus the file's rows, the strip
last handed out, and the life of the array (`status`). Both copies of the code (sample and block
arrays) are the same text but for the element type. Actions: `Request`, `Realize` (which may fail
to open its file), `AccessRefused`, `AccessFileError` (a write or a read of the file fails),
`Access`, `Store` (the client, through the pointer it was given), `Free`. The transfer between
window and file goes chunk by chunk as do_sarray_io does, each chunk cut short at the first
undefined row and at the array's end.

In the run `Memory`: a two-row window of a four-row pre-zeroed array. This is the smallest in which
the window moves forward, backward past row 0, is cut at the end, and leaves rows behind on both
sides. Other windows, uneven chunks and arrays that are not pre-zeroed are covered by the theorems.

### MemoryPools

State: one record, `mem`: the lists of pool headers with their bytes used and left, the control blocks of
virtual arrays, total_space_allocated; and around it what malloc has given (`heap`), the open files, and
the objects the client holds. Operators take the record to the record after the call, or to the one an ERREXIT
leaves in the middle of it, since alloc_sarray is made of alloc_small and alloc_large and realize_virt_arrays of
those. Actions: `jinit_memory_mgr`, `AllocSmall`, `AllocLarge`, `AllocArray`, `RequestVirtArray`,
`RealizeVirtArrays`, `FreeImage` (jpeg_abort), `SelfDestruct` (jpeg_destroy). In each call the system has a
certain room left and a number of files, and refuses what goes beyond: that is how memory runs out between the
row pointers and the rows, or after the file of one array. The slop is halved as often as that takes.

`PoolsSound` says that objects are aligned, disjoint and in blocks of their class, that rows are in the client's objects
and in one piece as far as do_sarray_io transfers them at once, and that space and files are accounted for at every moment.
`MemoryShared` says that each array has the same number of its strips in memory, that this is as many as the
limit leaves room for, and that files are made only for arrays that are not whole.

In the run `Memory`, next to the windowed array and never at the same time: small objects that fill pools, with slop in
full, reduced and none; requests at the limit of MAX_ALLOC_CHUNK (2000 bytes, or a value jinit_memory_mgr refuses); strips of
one and of several chunks, the last one short, and wider than a chunk; three arrays of 7 rows one at a time, and of 5
rows two at a time, under limits for less than one strip of each, one, two, and all rows, realized together or in turn,
with 0, 1 or 2 files; and the back end without files. Sizes of headers are those of a 64-bit build. A client makes 3 to
5 calls; that is enough for a second and a third pool, for a second realize, and for a failure after each. The array
`VirtualArray` has a window of is one of those realized here: `MaxMinheights` there is `max_minheights`, `ChunkLimit`
what fits in a chunk.

### DecompressControl

State: global_state and the flags of the object, the input controller's fields, the scan and row
counters, the methods in place, and as history, for each row of the pass, the number of scans
that were behind it (`shown`). The unit of input and of output is the iMCU row. A datastream is
the list of what read_markers finds: scans that begin with DC or AC coefficients, pseudo SOS
markers, EOI. An API call is entered by an *Enter* action, which has the call's state check, and
then runs one step for each call of consume_input or each iMCU row of output, until it returns;
`BadCall` is every call in a wrong state. The application follows libjpeg.txt's rules of use and otherwise does what it
likes: it may abort at any time, call anything in a wrong state, ask for any target scan, give
up passes, change the colormap or smoothing between passes (`ChangeParameters`, which is not code of the
library), bring a colormap of its own (`jpeg_new_colormap`), or leave buffered-image mode's loop at any point.

`jpeg_consume_input` switches on global_state without a case for DSTATE_RDCOEFS, although the
comment above it (jdapimin.c:292) says every possible value is listed: the model follows the code,
and the call is an error in that state.

Run `Decompress` has two iMCU rows and files with up to two scans, so that a target may be below,
at and above the number of scans; two rows are needed for output to be a row behind or ahead.
`StartsAfresh` and `TrailerRead` are about the change of images, `OutputFromCompleteData` and
`ShownAtLeastTarget` about output overtaking input. Run `DecompressLive` checks the liveness
properties on one row and two kinds of file.

*Fairness.* `WF(LibraryStep)`: a call in progress runs. `SF(Progress)`: a source that is asked
again and again delivers sometime; without it a source may suspend for ever and nothing in the
library can help. `SF(EnterFinishDecompress)`: the application repeats a suspended
jpeg_finish_decompress, as libjpeg.txt tells it to.

Left out: jpeg_destroy; the choice of quantizers, which is in `ColorQuantizers`. All errors the input may raise are one, "CORRUPT".

### DecompressCoef

Below the iMCU row: consume_data and decompress_onepass may suspend before any MCU (`\E stop`),
and the place to go on is MCU_vert_offset and MCU_ctr. per_scan_setup's and initial_setup's block
arithmetic is translated, and `StreamOrder` is the standard's (A.2) own numbering to hold it
against. Output is decompress_data or decompress_smooth_data, whose sliding registers of DC values
are the function `Columns`. The IDCT manager's and the input controller's handling of quantization
tables is here too, since what they must get right is a matter of when scans arrive.

Run `Coef`: images with dummy blocks at the right and at the bottom, a 2x2 and 1x1 pair, a gray
image of sampling factor 2 (two MCU rows per iMCU row, one in the last), two noninterleaved scans
that share a table slot, a progressive image, and a scan too many (JERR_EOI_EXPECTED); tables redefined between scans, two
dct_methods, target scans behind and ahead of the input. Three iMCU rows let smoothing have a
first, a middle and a last row.

Left out: the arithmetic of the estimate, the size limits that are errors.

### DecompressRows and CompressRows

`DecompressRows`: process_data_simple_main, process_data_context_main (its three states are three
actions), process_data_crank_post, the separate and both merged upsamplers, post_process_1pass,
prepass and 2pass. A sample row is its number in the component, a scanline the sample rows it was
made from; the pointer lists of make_funny_pointers are functions from list index to buffer row. A
pass may be given up at any time and another kind started. No upsampler of this release sets
need_context_rows (jdsample.c:308, jdmerge.c:379), so the context code of jdmainct.c is modelled for
one that does and looks one sample row up and down. Of the virtual array of one-pass quantization
only its defined rows are tracked, for its contents are emitted as soon as they are written.

`CompressRows`: pre_process_data and pre_process_context with the expansion of their edges, the
smoothing downsamplers' need for context, process_data_simple_main with its suspension hack,
compress_data, compress_first_pass and compress_output with their dummy blocks. A line is its
number, a sample row the set of lines it is computed from, a block its column and sample rows, or
a dummy with the DC value of a neighbour. `PreProcessData` and `PreProcessContext` run until the
main controller's buffer is full or the lines are used up, as one action, for nothing else can
happen meanwhile; `EncodeMCU` and `RefuseMCU` are one MCU each.

Run `Rows`: of the decoder, heights of one to four iMCU rows whose last one holds a single row, some row
groups, or all. M, the row groups of an iMCU row, is 5 for ratio 2 and 2 for ratio 3, the smallest that
jdmaster.c's choice of IDCT scaling leaves to the upsampler. Of the encoder, a ratio of 3, smoothing
with many row groups in an iMCU row and with one, full-size, 2h2v and 2h1v components, scans of one
and of several components with sampling factors of 2, with and without optimization, at heights
around one, two and three iMCU rows and at odd widths.

### ColorQuantizers

A session is an image in the decoder from master_selection on, with what the application asked for:
the quantizers it enables, the number of colors, a map of its own, the way of dithering. Between passes the
application may ask for another map (`AskFor`), bring its own (`jpeg_new_colormap`), change the dithering, and start
the next pass, which shows another picture, as each scan improves it. A pass is `StartOutput`, for the two-pass
quantizer `Prescan` row by row and `FinishPrescan`, then `QuantizeRow` row by row, and may be given up after any
row (`FinishOutput`). Both modules are modelled down to the pixel: the grid of colors and its index tables,
Bayer's matrix, the histogram, the median cut, the search for the nearest color by update boxes, and
Floyd-Steinberg dithering with its one row of errors. A histogram is the function of its cells that are not
zero, be they counts or, in the second pass, cached colors; a code found in it that belongs to an older
map is used as the code would use it. Maps and indexes were compared with those of the compiled modules.

`ColormapRight` says of each pass which map it must use and, from the colors alone, what that map
must be like: a grid of all combinations that could not be finer; or boxes that share the picture's cells among
them and are as many as wanted, each with its mean. `PixelsRight` compares each row with the picture: the
nearest color in the whole map, under the errors that a plain two-dimensional definition of the filter
(`Brought`) sums up from all earlier pixels of this pass, or a dither that keeps the mean. jquant1.c's
index table does not always hold the nearest level (jquant1.c:151 says so): at half-way points it may be one off,
and that is what `StandsFor` allows.

Run `Rows` has sessions of two passes (`MaxPasses`): every change between three quantizers and two foreign maps, over two
pictures; starts with a foreign map; 8, 10 and 12 colors of pictures with up to 25 cells, also with more pixels
in a cell than `HistMax` counts; 2 to 16 levels of one component on 17 rows and columns (the period of
the dither is 16); 3 and 4 components; numbers that are refused.

Left out: samples of more than 8 bits, the order BGR, the table of shared dither arrays.

### MarkerReader

A file is a sequence of bytes, followed by the fake EOIs of jdatasrc.c. `Arrive` makes one more byte
available or all of them; every other action is one routine of jdmarker.c or jdhuff.c that either
gets what it needs or changes only what the code changes before a suspension. A standard
marker's processor is a list of assignments with the bytes read before each: after a suspension
those made stay and all are made again. save_marker instead keeps its place. `Datastream` says
what the segments mean without any regard to reading, and `ReadAsSent` compares the two: tables and
parameters, saved markers, discarded bytes and warnings.

An MCU's entropy-coded data is one byte, and the bit buffer holds whole bytes (`Prefetch`,
MIN_GET_BITS / 8). This keeps what matters for restarts: prefetching beyond the current MCU, up
to a marker, zeros after it, the flag insufficient_data, the count of discarded bytes. The codes
themselves are in `HuffmanCoder`.

Run `Markers`: one file with every kind of marker, both table precisions, a table with too few
entries, fill bytes, garbage and a stuffed zero between segments, a pseudo scan and two scans; a
series of two images where the second relies on the first one's tables, also with an abort at any
point in between; a bogus length; truncation at three places; and progressive scans of up to 11 restart
intervals (past the wrap of the 3-bit number) with restart markers lost alone, lost with their
data, or turned into other codes. Each with and without saving of markers, under limits that cut,
just fit and exceed the data. MaxFake bounds the fake bytes; it is enough that every skip and
scan in these files ends.

*Fairness.* The application goes on calling the library (`WF(ReadStep)`) and supplying data
(`WF(Arrive)`); at the end of the file it is fill_input_buffer that supplies it.

Assumed of a suspending application, as libjpeg.txt:1703-1726 requires: it remembers the
distance to skip, and its buffer holds the longest marker that is not saved. More than two
restart markers lost in a row are beyond what the resynchronisation promises, and excluded from
`recoverable`. Left out: jpeg_set_marker_processor, the natural order of DQT entries. DCTSIZE2
and NUM_ARITH_TBLS are scaled down to 2. Unsupported SOFn markers are UNKNOWN_MARKER errors.

### Entropy coding

The coders are operators: a step of an encoder or a decoder is a function from its record of
fields to the next one, in the code's order. `ArithmeticCoder` has arith_encode and arith_decode with
the 32-bit registers, the stacked 0xFF and pending zero bytes, and all MCU routines;
`HuffmanCoder` has emit_bits, fill_bit_buffer and the lookahead decoding, all MCU routines, EOB runs
and correction bits, with what each suspension keeps and undoes; `HuffmanTables` has
jpeg_gen_optimal_table with the length limit, jpeg_make_c_derived_tbl and jpeg_make_d_derived_tbl.
`EntropyCoding` takes the scans of an image through the gathering pass, the encoder (whose output
buffer has room for a few bytes at each call), a file in which one restart interval may be damaged,
and the decoder, to which bytes arrive one or some at a time. `Lossless` compares blocks at the
precision of the scan; `SegmentConsumed` the bytes; `LimitsKept` tables, buffers and counters;
`Contained` the blocks outside the damaged interval.

Run `Entropy`, its jobs in groups: three blocks from a pool of six, sequential and in four progressive
scans, for each coder (`ArithSequential`, `ArithProgressive`, `HuffSequential`, `HuffProgressive`); two components that
share tables or do not (`ArithInterleaved`, `HuffInterleaved`); decoding at reduced size, one-coefficient blocks
and runs of more than 15 zeros (`HuffSizes`, `HuffWide`); carries (`ArithCarries`: bits chosen so that the
code register comes close to a carry through 0xFF and zero bytes, with all continuations); correction
bits at the threshold where they are flushed (`CorrectionBits`, with the real limit of 1000); runs of 32763 to 32767 blocks
(`LongRuns`; the empty blocks in front of a scan are one step, `blanks`); Fibonacci and equal
counts for the optimal tables (`SkewedTables`, of up to 33 bits before they are limited to 16, `FlatTables`); lost and changed bytes (`Damaged`).

The operators were also run against the compiled library: 1087 encoded scans agree byte for byte,
2462 decodings of damaged files coefficient for coefficient, and 22 optimal tables entry for entry.

Errors end a job in phase "failed": a code of more than MAX_CLEN bits before the lengths are limited (one job of
`SkewedTables` has one), and a destination without room for a coder that cannot suspend (`EncoderFails`). The
search for the least counts sees none above 1000000000 (`MAX_FREQ`); with a count that large TLC finds `LimitsKept`
violated, but it takes an image of over a billion equal symbols and no run has it.

### DCT

The routines of jfdctint.c and jidctint.c are 31 forward and 31 inverse: squares of 1 to 16 and
rectangles of ratio 2. Each runs a kernel over rows and one over columns. The model defines a
kernel once for each length, with the factor of its constants as a parameter, and each routine as
two kernels with their shifts; where a routine's text differs from that scheme the difference is a
parameter (see the finding). `FastDct` has the 8x8 routines of the fast method and its tables.
`TransformBlock` takes a block through both passes, the division by the quantization table and back
through the IDCT and range_limit. The results agree bit for bit with the compiled routines.

Run `Dct`: `ForwardIsTheDct` and `InverseIsTheDct` compare with cosines, within the rounding of the fixed
point; since the passes are linear up to rounding, blocks with one sample off the grey level (at its
two extremes) or one coefficient (at two levels, one of which leaves the range of samples) reach every constant, sign and shift.
`BlockSurvives` is the whole way and back, also of uniform blocks, a checkerboard and a diagonal. The
forward routines 12 and 14 samples wide are not the DCT, and have a run of their own, `DctTwelve`.

Left out: the float method (TLC has no floating point).

### ComponentSizes and LosslessTransform

`ComponentSizes` follows the numbers from sampling factors, block size and scale to the size of every
buffer and the choice of every DCT and sampling routine: initial_setup, jpeg_calc_jpeg_dimensions,
jinit_downsampler, start_pass_fdctmgr; on the reading side initial_setup, jpeg_core_output_dimensions,
jpeg_calc_output_dimensions as often as the application asks, jinit_upsampler, start_pass of jddctmgr.c;
and the transcoder. `LosslessTransform` adds jtransform_request_workspace,
jtransform_adjust_parameters and the nine do_ routines of transupp.c, each as a map from a destination
block to a source block, the strip it is accessed in, and the signs that change. `TransformRight` holds
it against a definition by mirroring and transposing alone (`Origin`), against its own inverse, and
against what -perfect and -trim promise.

Run `Sizes`: a 1x9, a 48x32 and a 37x50 image; sampling 1:1, 2, 3, 4 in each direction, 3:2, and swapped
between components; block sizes 1, 3, 8 and 11; five scales of the encoder and six of the decoder;
every transformation with four crop regions (from either edge, forced, open, partly outside), trimmed, perfect,
and reduced to grayscale, of files of block size 8 and 11. 11212 transformed files agree block for block with jpegtran's.

Left out: limits that are errors; the parser of crop specifications, the copying of markers, the
Exif adjustment and the transposed quantization tables of transupp.c.

### CompressControl

State: global_state, the parameters (`cinfo`, with what jinit_c_master_control makes of them),
my_comp_master, the scan in work, the codes and the restart interval the entropy encoder was
started with, the iMCU rows done, the tables with their sent_table flags. Two histories: `out`, what
the stream of the image says, and `reader`, the tables and the restart interval that a decoder has
after all that was written. A table is known by its contents: a quality, the standard, or the scan it
was optimized for.

An API call is one action, but for jpeg_finish_compress: `FinishCompress` enters it, each pass is
`OptimizePass` or `OutputPass`, `WriteTrailer` ends it. In a pass nothing else can run, so one step
per pass loses nothing. `jpeg_write_scanlines` takes any number of the iMCU rows it has lines for
(the destination refuses the next one) and then pretends, as process_data_simple_main does, that
the line which completed the row was not taken. `jpeg_write_raw_data` takes one row of them, and fewer lines are
the error BUFFER_SIZE, found after the headers went out. `StartupFails` and `HeadersFail` are a destination
that gives up in a header, where the library cannot suspend; any number of tables may be out by then.

The application calls jpeg_set_defaults before other settings (`SetParameters`), may suppress
tables it brings to the reader in another way, may write tables-only streams, and abbreviated ones as
long as the last stream was not broken off: sent_table also outlives a stream that the application
throws away, so after an abort it has to start with complete tables (or set the flags itself).
Transcoding (`jpeg_write_coefficients`) takes its parameters from the same settings.

The passes of the model do not all come at the end: libjpeg.txt:1824-1826 says that all scans of a multi-scan
image are emitted in jpeg_finish_compress, but without optimization the first one goes out while
scanlines are written, and that part of it may suspend.

Run `Compress`: two images in a row of each of: plain; raw with restarts; two scans with a shared Huffman
slot, optimized; two scans with restarts given in rows, so that their interval differs; the script of
jpeg_simple_progression in blocks of full, smaller and larger size; a scaled image; arithmetic coding;
two settings that are refused. Blocks are 3 x 3 (DCTSIZE), which leaves a progression of bands to
cut at 2 x 2. An image of 7 lines has three iMCU rows of one component and two of two; 1 or 5
lines a call fill less and more than one row. Two images are enough for what outlives an image, which is all
in `cinfo`, `sent` and `reader`. `ReaderInStep` relates these over time and, with
`ImageComplete`, holds the stream against what a decoder accepts and expects.

Arithmetic coding with optimize_coding ends in JERR_NOT_COMPILED, although jcarith.c:841 wants the master
control to avoid that; the run has it as an error.

Left out: initial_setup's checks of sizes and factors, JFIF and Adobe markers and jpeg_write_marker,
16-bit tables, the arithmetic conditioning, a destination failing in jpeg_write_tables. A table is sent
whole: emit_dqt really sends only the entries of the current block size (lim_Se), and jpeg_write_tables
uses the lim_Se of the image before, so that a series of abbreviated images in growing blocks is beyond
this model.

## Runs

| run | question |
|---|---|
| Memory | Does a windowed array with a file behave as an array? Is what the memory manager hands out sound, accounted for, and within the limit? |
| Decompress | Do all calls in all orders keep the object in shape: a fresh start for each image, no dummy source left behind, only complete or at least target-level data shown, the trailer read? |
| DecompressLive | Does every call return, and can every image be finished? |
| Coef | Is each block stored, emitted, smoothed and dequantized as its place and its scan require? |
| CoefZeroed | A disagreement, below. |
| Rows | Is each scanline made from its own sample rows, and returned once? Does each MCU get the blocks of the image? Does each pass of quantized output have the map it was asked for, and each pixel its color? |
| Markers | Does suspension leave no trace, and do restarts confine the damage? |
| Entropy | Is what was encoded decoded, bit by bit, by each coder in each mode, and does damage stay where it is? |
| Dct | Do all routines of all sizes compute the DCT, and does a block survive the way through them? |
| DctTwelve | A disagreement, below. |
| Sizes | Does everything fit where it is put, for any sampling and scale, and is every block where a lossless transformation says? |
| Compress | Can what is written be read: are tables, restarts, scans and rows in the stream those the encoder works with, in every mode and from image to image? |

CHECK_DEADLOCK is off where the run has an end: in `Coef` when the passes and tables the bounds allow are
over, in `Markers` when a file has been read, in `Dct` when a block is through, in `Sizes` when the sizes are
known or refused. The others check deadlock.

Five more configurations are kept for reading and running by hand; TLC finds each property of them violated by what
the code does: `DecompressNewTarget.cfg`, `MemorySmall.cfg`, and with two properties each, to be run with `-continue`,
`RowsRefuted.cfg`, `CompressRefuted.cfg` and `SizesRefuted.cfg`.

### Findings

* `CoefZeroed` (jddctmgr.c:270): in buffered-image mode the multiplier tables are built when a pass
  starts, before the library absorbs the scans up to the target. A component whose first scan is among
  those is shown through an all-zero table.
* `DctTwelve` (jfdctint.c:1472, 2770, 1874, 2644): the row passes of the forward routines that are 12 and 14
  samples wide add a term to a sum without multiplying it by 2^CONST_BITS as the rest of the sum is. The
  coefficient they compute is far from the DCT's.

And by hand:

* `NoRowPastBottom` in `RowsRefuted` (jdpostct.c:224): post_process_2pass limits the rows it emits to
  `output_height - starting_row` and forgets the rows of the strip already emitted. With strips of
  three or four rows and an application that takes fewer at a time, it returns rows from below
  the image and output_scanline passes output_height (jpeglib.h:520).
* `FinalPassInSync` in `DecompressNewTarget` (jdapistd.c:239): the loop of libjpeg.txt:2014-2026 repeats a suspended
  jpeg_start_output with the scan number of the moment, which relabels rows of a dummy pass already
  made; its test for being in sync with the final scan can then be true of a pass that is not.
* `LegalScriptAccepted` in `CompressRefuted` (jcmaster.c:502): reduce_script shortens the application's own scan script. A sequential
  multi-scan script in blocks smaller than 8 x 8 is taken for an illegal progressive one when the next image
  starts with the same parameters (libjpeg.txt:456-457).
* `DoneMeansCompressed` in `CompressRefuted` (jcapistd.c:148): jpeg_write_raw_data counts DCTSIZE lines per block row also when the DCT is
  scaled, so that a scaled image is taken for complete too early (or too late: then more rows are
  asked for than the image has; libjpeg.txt:448-449).
* `DivisorsFit` in `SizesRefuted` (jcdctmgr.c:356): two components that share a quantization table but differ in the size of
  their DCT need divisors for different methods when the fast or the float method is chosen; they share the
  table built last.
* `SmoothedHasColumns` in `SizesRefuted` (jcsample.c:359, 449): the smoothing downsamplers count `output_cols - 2` columns in an unsigned
  variable; an image one pixel wide that is scaled up by 8, in which a component is one sample wide, makes them
  run on through memory. The compiled library crashes on it.
* `OrderedKept` in `RowsRefuted` (jquant2.c:1294): an application that starts with ordered dither and one pass, and enables the
  two-pass quantizer for later (libjpeg.txt:2090-2093), gets Floyd-Steinberg dithering at once: jinit_2pass_quantizer
  changes dither_mode itself, for the one-pass quantizer too. Setting it again before jpeg_start_output helps.
* `SmallObjectsIgnored` in `MemorySmall` (jmemmgr.c:307): libjpeg.txt:2875 and structure.txt:805 say that small objects do not count against the
  memory limit, but alloc_small adds every pool, slop included, to total_space_allocated, and realize_virt_arrays subtracts that
  from the limit: an array that fits next to the large objects may still get a file.

Also seen, without a configuration: outside buffered-image mode jpeg_consume_input is not the no-op
libjpeg.txt:2206-2208 says it is (jdapimin.c:321 calls the input controller in every state after
the header).

## Proofs

TLC checks instances of a few rows, scans and settings. The theorems hold for every value of the constants, under
the named assumptions of the modules (sizes are positive, settings are well-formed), which TLC evaluates on each run, and
where one needs more it says so in its statement. Each module keeps an inductive invariant as named parts and one
lemma for each action; the theorems follow from it.

| module | theorems | needs |
|---|---|---|
| `VirtualArrayProofs` | `TypeCorrect`, `EveryAccessServed`, `RowsSurvive`, `Implementation` (refinement of `VirtualArraySpec`) | |
| `DecompressControlProofs` | `CleanSlate`, `CompleteData`, `ReadToTheEnd`; `TargetReached`, `LastPassFinal` | the last two: RepeatsCall |
| `DecompressCoefProofs` | `WithinBoundsTheorem`, `TableRightTheorem`, `ScanStoredTheorem`, `OutputRightTheorem` | |
| `DecompressCoefProofs` | `SmoothingRightTheorem` | `ProgressionsRefine` |
| `DecompressRowsProofs` | `Bounds`, `RowsKeepComingTheorem`; `WithinBoundsTheorem` | the last: StripsEmittedWhole |
| `DecompressRowsProofs` | `LinesRightTheorem` | |
| `CompressControlProofs` | `LegalScriptDecodes` | |
| `CompressRowsProofs` | `RowsCorrect`, `MCUsSentRight` | |
| `SizesProofs` | `SizesCorrect`, `FactorsWork`, `TransformCorrect`, `RoomForAll`, `TransformedAsDescribed` | |
| `CompressControlProofs` | `ReaderInStepTheorem`; `StaysConsistentTheorem`, `DoneMeansCompressedTheorem`, `ImageCompleteTheorem` | the last three: RawUnscaled |

`NumberLemmas` has the facts about `\div`, `%` and products that the solver does not find by itself, the least and the
greatest element of a set of numbers, and, from the first of these, induction over an interval for a set
and the existence of a function defined by recursion over one.

### Virtual arrays

For every array height, access limit, memory limit, chunk size and set of values. None of the invariants is
inductive alone. `IInv` adds to them `Backed` (a ready array that does not fit in memory has an open file, which is
why a move never ends in JERR_VIRTUAL_BUG) and `NoStaleStrip` (no strip outlives the ready state, which is why a store
always hits the window). `NoRowLost` needs both to survive a move: rows leaving the window are in
the file, because either the window was dirty and was written, or it was clean and the file
already had them; the lemma `TransferredRows` reduces the chunk-by-chunk transfer to "the window's
rows below first_undef_row", and `MoveKeepsRows` does the rest. The refinement maps a defined row to
the buffer if the window has it and to the file otherwise; `AccessImplemented` shows that a move changes no
row under that mapping.

### The state machine of decompression

For images of any height, datastreams of any number of scans and pseudo SOS markers, and any parameters.
`IInv` ties what the API may do to where the input is: `HeaderPhase` (before the header, the input side is as
reset_input_controller leaves it, which is `StartsAfresh`), `BetweenScans` (while decoding, consume_input and the input
counters agree with the scans behind), `PassPhase` and `RowsShown` (each row of the pass was made when the input was
far enough: the end outside buffered-image mode, the target scan within), `TargetPhase` (what jpeg_start_output has
promised while it is suspended). `CompleteData` and `CleanSlate` need nothing else.
`TargetReached` and `LastPassFinal` assume that the application repeats a suspended jpeg_start_output with the same
scan number (RepeatsCall): the library keeps the rows of a dummy pass made for the first number, and
`DecompressNewTarget` shows what happens otherwise.

### Blocks and iMCU rows

For images of any size, sampling factors and block size, any legal sequence of scans, with and without a coefficient
buffer, and a suspension before any MCU. The inductive invariant has four parts, proved one upon the other.

* `Place`: what the counters count. Within a scan they stand at an MCU of it, a pass without buffer is where the
  input is, and `decoded` is the number of blocks of the MCUs `Reached`. From it `WithinBoundsTheorem`: `StripFits` and
  `SmoothStripFits` reduce the accesses to the arithmetic of jinit_d_coef_controller.
* `Tables`: quant_table is the table of the component's first scan (`Saved`), and a multiplier table is zero or made from it.
  A table defined later, or a later scan, changes neither.
* `Stored`: each block of the arrays is in its place, and of the last scan that got to it. A scan gets to a block when
  `Reached` passes the block's `MCUNumber`; that the blocks a call of consume_data delivers are those between two values
  of `Reached`, each once, is `CallOfBlock` and `ConsumeWrites`. `BlockOfIs` is the agreement of per_scan_setup's MCU geometry with the
  numbering of the standard. When a scan is over, `Reached` is past every real block (`RealInScan`).
* `EmittedSoFar`: without a buffer, the real blocks of the iMCU row in the MCUs reached so far have been emitted.
  `RowCompleted` then needs that the first scan of such an image has all components; the decoder infers this from
  their number, and `AllInScan` shows it by the pigeonhole principle.

The numbering of blocks in an MCU is recursive along the components of a scan. `RecursionExists` gives the function, and
`IntervalInduction` what it computes: they state induction for a set, which the provers can instantiate.

`SmoothingRightTheorem` adds `Latched`: the accuracies in use are those of the scan being read when the pass began. Its
first half is about places: the sliding registers of decompress_smooth_data hold the columns beside the block
(`ColumnsAre`), the rows before and after it in the strip are the neighbours (`RowsAround`), and the edges repeat. The second is
about time: the interlock, a row further in a DC scan, leaves every row it reads behind the input, and by `Stored`
such a block is of the scan displayed or a later one (`BlockBehind`). A later scan is no less accurate if
AC scans only refine earlier ones (`ProgressionsRefine`; `ACRefined`, `ACOfBlock`). The decoder merely warns of a file
where they do not (JWRN_BOGUS_PROGRESSION), and then a block may indeed be known less well than the latched accuracy
says: later, worse data are in the array when it is displayed.

### From iMCU rows to scanlines

For any height, any number of row groups in an iMCU row (1 to 16), integral sampling factors, merged and separate
upsampling, and any sequence of passes, calls, sizes of calls and suspensions. `BInv` says where everybody is: the
scanlines done, the row group and iMCU row in work, the context state and the rows left in the strip determine each other
(`SimplePosition`, `ContextPosition`, `StripPosition`). From it alone follow that no call comes back empty-handed
(`RowsKeepComingTheorem`) and that every index is within its allocation (`WithinBoundsTheorem`). The latter assumes
`StripsEmittedWhole`: with two-pass quantization, row groups have at most two rows or the application takes whole
strips. That is the defect `RowsRefuted` shows; for one or two rows the limit of post_process_2pass is right by luck,
and the proof shows why: a strip of two has only one row left after a part.

`CInv` says what the buffers hold: each pointer list points where it should, at the top, in the middle, and with
the last row repeated at the bottom (`ListsRight`); behind these pointers are the rows of the present iMCU row and the
last two row groups of the one before (`SamplesRight`); color_buf and the spare row hold the lines to come
(`KeptRight`); and what was returned or saved so far is right (`LinesSoFar`). Three lemmas, one for each context state
(`ReadsSimple`, `ReadsProcess`, `ReadsPostponed`), say that the upsampler reads the true rows above and below the one
it works on.

### From scanlines to MCUs

For images of any size, any number of components with sampling factors from 1 to 4 and DCTs of the least size or twice
that, any scans, with and without smoothing and optimization, calls with any number of lines, and an MCU refused at any
time. `MCUsRight` speaks of the last MCU only; that it is right depends on everything before it. `RowsInv` says what
that is, one part for each buffer:

* `Counted`: the lines taken, the row group in work and the iMCU row in work determine each other. `PreProcessData` and
  `PreProcessContext` each run a loop to its end in one step; `Group` and `Taken` name where they are.
* `PlainBuffer` and `ContextBuffer`: what color_buf holds between two calls. With context rows it is a circle of three row
  groups; there are three places where the group in work may lie, and around each the buffer has the lines above and below,
  with the first line repeated above the image (`Clamp` says so of the first line, and of the last one below).
* `StripFilled`: the sample rows made so far in this iMCU row are those of the image, computed from the lines they
  should be; those of a last, partial iMCU row are filled up with copies of the last one.
* `ArraysFilled`: with arrays of the whole image, the iMCU rows before coef.iMCU_row_num have each block in its place, and
  dummy blocks at the right and at the bottom, with the DC value of the neighbour that compress_first_pass takes.
* `SentSoFar`: MCU_vert_offset, mcu_ctr and iMCU_row_num stand at an MCU of the scan (`CoefAt`), and the number of MCUs
  sent is the number of that one (`Position`). A refused MCU leaves all of it as it was, which is why the repeated call goes on right.

Two descriptions of one MCU then have to agree: `MCU`, which computes blocks from the strip or fetches them from the arrays
as the code does, with the several cases of dummy blocks, and `ImageMCU`, which numbers them from the scan alone.
The code makes a dummy block in two ways, on the fly in compress_data and in advance in compress_first_pass; the proof
shows both to be the one of the property. Nothing is assumed beyond `JobsAssumption`, which is about types.

### Scan scripts and the state machine of compression

`LegalScriptDecodes`: a progressive script of any length that validate_script admits is accepted scan by scan by
start_pass_huff_decoder (or arith), with the same bit positions, and still is after reduce_script for any lim_Se. What
is hard is reduce_script: scans move up, so that the history of a coefficient must be shown to be the same under
`idxin`, which is monotone. The definition of `idxin` by CHOOSE over a cardinality is reasoned about by the least element of a
set of numbers (`LeastNat`), which stands in for induction.

`IInv` of `CompressControlProofs` has nine parts. `ReaderKnows`: what has sent_table set, the reader has as it is now, and
the interval last written is the reader's. `MainPass`, `Transcoding` and `Finishing`: in each phase of the image the
number of the pass, its kind, the scan selected and the scans in the stream determine each other. `Accepted` and
`Written`: headers are only written for legal scripts, and the stream has the script's scans so far. `Coded`: the tables
and the interval the scan in work is coded with have been sent. With `LegalScriptDecodes` it implies `ReaderInStep`. No
assumption is needed: it holds also for a scaled raw image, whose stream is too short but not misread.

The other three need the count of lines. `Counted` adds that the iMCU rows compressed are those of the lines taken
(`Fed`) and that each scan written has all of them (`RowsWritten`). It holds when raw data come unscaled (`RawUnscaled`), since
jpeg_write_raw_data counts DCTSIZE lines for a row of blocks whatever the scale; `CompressRefuted` refutes
`DoneMeansCompressed` otherwise.

### Sizes and lossless transformations

For images of any size, any number of components with sampling factors from 1 to 4, every block size and every scale of
encoder and decoder, and for every request of a transformation: any crop region from either edge, trimmed or perfect, or
to grayscale. What makes these theorems hard is arithmetic: sizes are rounded up in units of iMCUs, of DCT blocks and of
row groups, each of a different factor, and a buffer fits if the roundings agree. `RoundUpIs` and `RoundUpLeast` reduce
jdiv_round_up to two inequalities; the lemmas about products in `NumberLemmas` do the rest.

`SizesInv` says what each stage knows of the ones before: the file has the size of the scaled image (`FileFollowsImage`),
its components those that follow from it (`FileSized`), the decoder's output that of the scaled file (`OutputFollows`,
`OutputSized`), a routine for sampling has the ratio of its component and is never a fraction (`DownsamplersChosen`,
`UpsamplersChosen`). The fold by which jcmaster.c and jdmaster.c double a DCT keeps the factors integral: that is
`IntegralFactorsWork` (`FactorsWork`), after a case distinction over the doublings 1, 2 and 4 (`Regular`). The room for
the encoder, the decoder, the transcoder and the transformation follows (`EncoderHasRoom`, `DecoderHasRoom`,
`TranscoderHasRoom`, `TransformHasRoom`); for the last, every strip a routine of transupp.c accesses lies in the source
(`StripInside`), at a cropped edge and at partial iMCUs included.

`TransformInv` carries the region from the request to the last block: it lies in the image, and in the image's whole iMCUs where
`-perfect` or `-trim` ask for it (`RegionRight`); the destination has the region's sizes (`DestinationSized`); each block
was made by the routine (`ImageMoved`). `Taken` and `Flip` describe a routine by where a place of the destination comes
from, transposed and mirrored within a limit; `RoutineReads` shows each routine to be its description. Then the three parts of
`TransformRight`: a routine is the sequence of its flips and transpositions (`SequenceRight`; there are at most three,
so that `BackThroughThree` unrolls the fold), the inverse routine on a mirrored region takes each block back
(`ReversibleRight`, from `TakenBack`), and no block is left unmirrored where none may be (`NothingKept`).

`TransformAssumption` and `SizesAssumption` are about the types of requests and images only.

### What stays with TLC

Liveness and ENABLED. RECURSIVE operators, which cost the SMT backend: `CodedBytes`, `HuffmanTables`, `HuffmanCoder`,
`ArithmeticCoder`, and with them `EntropyCoding`. What a recursive function over data other than numbers computes for every input, since the
provers cannot instantiate the induction rules (the parsers of `MarkerReader` and `Datastream`, the rounds of
`MemoryPools`); along an interval of numbers the least element of a set replaces them. The transforms, which are compared with rounded cosines over chosen blocks. `ColorQuantizers`,
whose rows and maps are folds over pixels and sets of cells: the same induction over data, hidden in `FoldLeft`.

## Not modelled

* Floating point (jfdctflt.c, jidctflt.c, the float tables): TLC has no real numbers.
* Color conversion (jccolor.c, jdcolor.c) and the pixel arithmetic of the sampling routines: tables and sums without
  state. What they read is in `DecompressRows` and `CompressRows`.
* The back ends of DOS and of the Macintosh (jmemdos.c, jmemmac.c), and how jmemname.c names its files. Outside `MemoryPools`
  what is modelled takes an allocation as done or failed.
* Error messages, applications and image file formats, configuration.

## Plan

Every component whose invariants are about positions, counters and buffers has its theorems. Of `ColorQuantizers`
it would still be worth proving that a pixel is never looked up while `needs_zeroed` is set, which needs no fold. The
other proofs that are left need induction over data, by lemmas for each fold, like that of `MemoryPools` that objects are
apart for every sequence of small requests.
Further modules: color conversion, the bytes of jcmarker.c against `Datastream`.
