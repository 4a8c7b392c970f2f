----------------------- MODULE HostProgramsConnectal -----------------------
(***************************************************************************)
(* The hosts of the projects for Virtex and Xilinx boards (flash_connectal *)
(* and its variants, flash_xbsv, the string search's flashaccess.cpp) and  *)
(* of the multi-node projects.  For each program: what its callbacks do,   *)
(* what its request functions record, how main sets up and what it does.   *)
(***************************************************************************)
EXTENDS HostScripts

(* erase every block, read them, write them, read them again *)
EraseAndRead(pages, fields) ==
  EraseAll(Sweep(pages, fields)) \o Drain("erase") \o ReadAll(Sweep(pages, fields)) \o Drain("read")
ReadBack(pages, fields) == ReadAll(Sweep(pages, fields)) \o Drain("read") \o Verdict
OfBus(b) == {p \in FirstPages : p.bus = b}

(* flash_connectal/main.cpp: a read's result replaces the verdict *)
ConnectalCallbacks ==
  [Callbacks EXCEPT !.check = "overwrite", !.zeroOK = TRUE]
    @@ [golden |-> Golden(HashBusChipBlk), done |-> Done(Clamped, Clamped, Clamped)]
ConnectalRequests == Requests
ConnectalSetup == [fresh |-> Zeros, translated |-> FALSE]
ConnectalMain ==
  LET WriteBlock(b, k) == WriteAll(Sweep({p \in OfBus(b) : p.blk = k}, <<"chip">>)) \o Drain("write")
      WriteBus(b) == ForEach(Blocks, LAMBDA k : WriteBlock(b, k))
  IN  [fills |-> TRUE,
       script |-> EraseAndRead(FirstPages, BlkChipBus) \o ForEach(Buses, WriteBus)
                    \o ReadBack(FirstPages, BlkChipBus)]

(* flash_connectal_64bit/main.cpp: checkReadData clears the verdict itself *)
Connectal64Callbacks == [ConnectalCallbacks EXCEPT !.check = "direct"]
Connectal64Requests == Requests
Connectal64Setup == [fresh |-> Zeros, translated |-> FALSE]
Connectal64Main ==
  [fills |-> TRUE,
   script |-> EraseAndRead(FirstPages, BlkChipBus)
                \o WriteAll(Sweep(FirstPages, BlkChipBus)) \o Drain("write")
                \o ReadBack(FirstPages, BlkChipBus)]

(* flash_xbsv/main.cpp: the writes are waited for bus by bus *)
XbsvCallbacks == Connectal64Callbacks
XbsvRequests == Requests
XbsvSetup == [fresh |-> Zeros, translated |-> FALSE]
XbsvMain ==
  LET WriteBus(b) == WriteAll(Sweep(OfBus(b), <<"blk", "chip">>)) \o Drain("write")
  IN  [fills |-> TRUE,
       script |-> EraseAndRead(FirstPages, BlkChipBus) \o ForEach(Buses, WriteBus)
                    \o ReadBack(FirstPages, BlkChipBus)]

(* flash_strstr_raw/bak/flashaccess.cpp *)
StrstrCallbacks == Connectal64Callbacks
StrstrRequests == Requests
StrstrSetup == [fresh |-> Zeros, translated |-> FALSE]
StrstrMain ==
  LET WriteBus(b) == WriteAll(Sweep(OfBus(b), <<"blk", "chip">>)) \o Drain("write")
  IN  [fills |-> TRUE,
       script |-> EraseAndRead(FirstPages, BlkChipBus) \o ForEach(Buses, WriteBus)
                    \o ReadBack(FirstPages, BlkChipBus)]

(* flash_connectal_tagbufs/main.cpp: reads all pages ten times, and then   *)
(* 100000 random ones.                                                     *)
TagbufsCallbacks == Connectal64Callbacks
TagbufsRequests == [Requests EXCEPT !.records = {"read", "erase"}]
TagbufsSetup == [fresh |-> Zeros, translated |-> FALSE]
TagbufsMain ==
  [fills |-> TRUE,
   script |-> EraseAndRead(FirstPages, BlkChipBus)
                \o WriteAll(Sweep(FirstPages, BlkChipBus)) \o Drain("write")
                \o ForEach(Rounds, LAMBDA i : ReadAll(Sweep(FirstPages, BlkChipBus))) \o Drain("read")
                \o ForEach(Rounds, LAMBDA i : ReadRandom(FirstPages)) \o Drain("read") \o Verdict]

(***************************************************************************)
(* The multi-node hosts: flash.cpp holds the callbacks and requests, the   *)
(* tests are in main.cpp.  A bad block is recorded, and skipped afterwards.*)
(***************************************************************************)
CONSTANT MyId

NodeTest(pages, fields, rounds) ==
  Begin \o EraseAndRead(pages, fields) \o WriteAll(Sweep(pages, fields)) \o Drain("write")
    \o ForEach(rounds, LAMBDA i : ReadAll(Sweep(pages, fields))) \o Drain("read") \o Verdict

LocalTest == NodeTest({p \in EveryNode : p.node = MyId}, BlkChipBus, 1)
OneToManyTest == NodeTest(EveryNode, BlkChipBusNode, 1)
ManyToManyTest == NodeTest({p \in EveryNode : p.blk % Nodes = MyId}, BlkChipBusNode, Rounds)

MultinodeGolden == Golden(HashNode)
MultinodeCheck == [check |-> "direct", zeroOK |-> TRUE, skipsBad |-> TRUE, golden |-> MultinodeGolden]
MultinodeDone == [eraseStatus |-> "status", done |-> Done(Clamped, Clamped, Clamped)]
MultinodeRequests == [Requests EXCEPT !.records = {"read", "erase"}, !.keepsBad = TRUE]
MultinodeSetup == [fresh |-> Zeros, translated |-> FALSE]
ZynqMultinodeMain == [fills |-> TRUE, script |-> OneToManyTest]

(* flash_multinode: older copies of both files *)
FlashMultinodeCheck == MultinodeCheck
FlashMultinodeDone == MultinodeDone
FlashMultinodeRequests == MultinodeRequests
FlashMultinodeSetup == [fresh |-> Zeros, translated |-> FALSE]
FlashLocalTest == LocalTest
FlashManyToManyTest == ManyToManyTest
FlashMultinodeMain == [fills |-> TRUE, script |-> FlashLocalTest \o FlashManyToManyTest]

ConnectalPrograms ==
  [connectal      |-> ConnectalCallbacks @@ ConnectalRequests @@ ConnectalSetup @@ ConnectalMain,
   connectal64    |-> Connectal64Callbacks @@ Connectal64Requests @@ Connectal64Setup @@ Connectal64Main,
   xbsv           |-> XbsvCallbacks @@ XbsvRequests @@ XbsvSetup @@ XbsvMain,
   strstr         |-> StrstrCallbacks @@ StrstrRequests @@ StrstrSetup @@ StrstrMain,
   tagbufs        |-> TagbufsCallbacks @@ TagbufsRequests @@ TagbufsSetup @@ TagbufsMain,
   zynqMultinode  |-> MultinodeCheck @@ MultinodeDone @@ MultinodeRequests @@ MultinodeSetup
                        @@ ZynqMultinodeMain,
   flashMultinode |-> FlashMultinodeCheck @@ FlashMultinodeDone @@ FlashMultinodeRequests
                        @@ FlashMultinodeSetup @@ FlashMultinodeMain]
=============================================================================
