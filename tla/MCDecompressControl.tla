------------------------- MODULE MCDecompressControl -------------------------
(***************************************************************************)
(* Datastreams for DecompressControl: a single-scan file, also with a      *)
(* second scan it must not have; a progressive file of two scans, plain or *)
(* with pseudo SOS markers before each of them; tables only; and a header  *)
(* without any scan.                                                       *)
(***************************************************************************)
EXTENDS DecompressControl

Single == [items |-> <<"DC", "EOI">>, multi |-> FALSE, saw_SOF |-> TRUE]
SecondScan == [items |-> <<"DC", "DC", "EOI">>, multi |-> FALSE, saw_SOF |-> TRUE]
Progressive ==
  [items |-> <<"pseudo", "DC", "pseudo", "AC", "EOI">>,
   multi |-> TRUE, saw_SOF |-> TRUE]
TwoScans == [items |-> <<"DC", "AC", "EOI">>, multi |-> TRUE, saw_SOF |-> TRUE]
TablesOnly == [items |-> <<"EOI">>, multi |-> FALSE, saw_SOF |-> FALSE]
NoScan == [items |-> <<"pseudo", "EOI">>, multi |-> TRUE, saw_SOF |-> TRUE]

AllStreams == {Single, SecondScan, Progressive, TablesOnly, NoScan}
ShortStreams == {Single, TwoScans}
===============================================================================
