------------------------- MODULE HostProgramsZynq --------------------------
(***************************************************************************)
(* The hosts of the projects for Zynq and ZCU boards that address the card *)
(* directly: zynq_flash, zcu_flash_old, zcu_flash, zynq_8192_flash and     *)
(* zynq_8192_flash_smalldma.                                               *)
(***************************************************************************)
EXTENDS HostScripts

BusBlkChipPage == <<"bus", "blk", "chip", "page">>
WriteOut(pages, fields) == WriteAll(Sweep(pages, fields)) \o Drain("write")
ReadIn(pages, fields) == ReadAll(Sweep(pages, fields)) \o Drain("read")
EraseCard == EraseAll(Sweep(FirstPages, BlkChipBus)) \o Drain("erase")
DeadSetup == [fresh |-> Dead, translated |-> FALSE]

(* zynq_flash/main.cpp: the result of a check is applied under the lock *)
ZynqCallbacks ==
  [Callbacks EXCEPT !.check = "locked"]
    @@ [golden |-> Golden(HashBusChipBlk), done |-> Done(Clamped, Clamped, Clamped)]
ZynqRequests == Requests
ZynqSetup == DeadSetup
ZynqMain ==
  [fills |-> TRUE,
   script |-> EraseCard \o ReadIn(FirstPages, BusBlkChip) \o WriteOut(FirstPages, BlkChipBus)
                \o ReadIn(FirstPages, BusBlkChip) \o Clear
                \o ReadIn(FirstPages, BlkChipBus) \o Drain("read") \o Verdict]

(* zcu_flash_old/main_ori.cpp: the same with all pages of a block *)
ZcuOriCallbacks == ZynqCallbacks
ZcuOriRequests == Requests
ZcuOriSetup == DeadSetup
ZcuOriMain ==
  [fills |-> TRUE,
   script |-> EraseCard \o ReadIn(AllPages, BusBlkChipPage)
                \o WriteOut(AllPages, <<"blk", "chip", "bus", "page">>)
                \o ReadIn(AllPages, BusBlkChipPage) \o Clear
                \o ReadIn(AllPages, PageBlkChipBus) \o Drain("read") \o Verdict]

(* zynq_flash/main_read.cpp: bandwidth of reads; nothing is checked *)
ZynqReadCallbacks == Callbacks @@ [golden |-> Golden(HashBusChipBlk), done |-> Done(Plain, Plain, Plain)]
ZynqReadRequests == Untracked
ZynqReadSetup == DeadSetup
ZynqReadMain ==
  [fills |-> FALSE,
   script |-> ReadIn({p \in FirstPages : p.blk < 2}, BlkChipBus)
                \o ReadIn(AllPages, PageBlkChipBus) \o Drain("read") \o Verdict]

(* zynq_flash/main_write.cpp: bandwidth of writes of whatever is in the    *)
(* buffers                                                                 *)
ZynqWriteCallbacks == ZynqReadCallbacks
ZynqWriteRequests == Untracked
ZynqWriteSetup == DeadSetup
ZynqWriteMain ==
  [fills |-> FALSE,
   script |-> EraseCard \o WriteOut(AllPages, PageBlkChipBus) \o Drain("read") \o Verdict]

(* zcu_flash_old/main_write.cpp *)
ZcuOldWriteCallbacks == ZynqWriteCallbacks
ZcuOldWriteRequests == Untracked
ZcuOldWriteSetup == DeadSetup
ZcuOldWriteMain ==
  [fills |-> FALSE,
   script |-> EraseCard \o WriteOut(AllPages, PageBlkChipBus) \o Drain("read") \o Verdict]

(* zcu_flash_old/main_read.cpp: an answer for an idle tag is not counted *)
ZcuOldReadCallbacks == Callbacks @@ [golden |-> Golden(HashBusChipBlk), done |-> Done(Silent, Plain, Plain)]
ZcuOldReadRequests == [Untracked EXCEPT !.records = {"read"}]
ZcuOldReadSetup == DeadSetup
ZcuOldReadMain ==
  [fills |-> FALSE, script |-> ReadIn(AllPages, BlkPageChipBus) \o Drain("read")]

(* zynq_flash/main_eraseall.cpp: finds the bad blocks and saves a table of *)
(* them for the translation layer                                          *)
EraseallCallbacks ==
  [Callbacks EXCEPT !.eraseStatus = "table"]
    @@ [golden |-> Golden(HashBusChipBlk), done |-> Done(Silent, Clamped, Clamped)]
EraseallRequests == [Requests EXCEPT !.records = {"read", "erase"}]
EraseallSetup == DeadSetup
EraseallMain == [fills |-> FALSE, script |-> EraseCard \o Drain("read") \o Verdict]

(* zcu_flash_old/main.cpp and main_eraseall.cpp: an erase answered for an  *)
(* idle tag is counted up again                                            *)
ZcuEraseallCallbacks == [EraseallCallbacks EXCEPT !.done = Done(Silent, Clamped, Recounted)]
ZcuEraseallRequests == EraseallRequests
ZcuEraseallSetup == DeadSetup
ZcuEraseallMain == [fills |-> FALSE, script |-> EraseCard \o Drain("erase") \o Verdict]
ZcuOldMainCallbacks == ZcuEraseallCallbacks
ZcuOldMainRequests == ZcuEraseallRequests
ZcuOldMainSetup == ZcuEraseallSetup
ZcuOldMainMain == ZcuEraseallMain

(* zcu_flash/main.cpp: handlers that count down for busy tags only *)
ZcuCallbacks == Callbacks @@ [golden |-> Golden(HashBusChipBlk), done |-> Done(Tolerant, Tolerant, Clamped)]
ZcuRequests == Requests
ZcuSetup == DeadSetup
ZcuMain == [fills |-> FALSE, script |-> EraseCard \o Verdict]

(* zcu_flash/main_orig.cpp: the same callbacks *)
ZcuOrigCallbacks == ZcuCallbacks
ZcuOrigRequests == Requests
ZcuOrigSetup == DeadSetup
ZcuOrigMain ==
  [fills |-> FALSE,
   script |-> EraseCard \o ReadIn(AllPages, PageBlkChipBus) \o WriteOut(AllPages, PageBlkChipBus)
                \o ReadIn(AllPages, PageBlkChipBus) \o Verdict]

(* zynq_8192_flash/main.cpp: reads in the order of logical addresses *)
Zynq8192Callbacks ==
  [Callbacks EXCEPT !.eraseStatus = "table"]
    @@ [golden |-> Golden(HashBusChipBlk), done |-> Done(Silent, Clamped, Clamped)]
Zynq8192Requests == [Requests EXCEPT !.records = {"read", "erase"}]
Zynq8192Setup == DeadSetup
Zynq8192Main == [fills |-> FALSE, script |-> ReadIn(AllPages, BlkPageChipBus)]

(* zynq_8192_flash_smalldma/main.cpp: the idle read tags wait in a queue *)
SmalldmaCallbacks ==
  [Zynq8192Callbacks EXCEPT !.golden = Golden(LAMBDA p : Data((p.bus * 16 + p.chip) * 65536 + p.blk))]
SmalldmaRequests == [Zynq8192Requests EXCEPT !.queued = TRUE]
SmalldmaSetup == [fresh |-> <<"counted">>, translated |-> FALSE]
SmalldmaMain == [fills |-> FALSE, script |-> ReadIn(AllPages, BlkPageChipBus)]

ZynqPrograms ==
  [zynq        |-> ZynqCallbacks @@ ZynqRequests @@ ZynqSetup @@ ZynqMain,
   zcuOri      |-> ZcuOriCallbacks @@ ZcuOriRequests @@ ZcuOriSetup @@ ZcuOriMain,
   zynqRead    |-> ZynqReadCallbacks @@ ZynqReadRequests @@ ZynqReadSetup @@ ZynqReadMain,
   zynqWrite   |-> ZynqWriteCallbacks @@ ZynqWriteRequests @@ ZynqWriteSetup @@ ZynqWriteMain,
   zcuOldWrite |-> ZcuOldWriteCallbacks @@ ZcuOldWriteRequests @@ ZcuOldWriteSetup @@ ZcuOldWriteMain,
   zcuOldRead  |-> ZcuOldReadCallbacks @@ ZcuOldReadRequests @@ ZcuOldReadSetup @@ ZcuOldReadMain,
   eraseall    |-> EraseallCallbacks @@ EraseallRequests @@ EraseallSetup @@ EraseallMain,
   zcuEraseall |-> ZcuEraseallCallbacks @@ ZcuEraseallRequests @@ ZcuEraseallSetup @@ ZcuEraseallMain,
   zcuOldMain  |-> ZcuOldMainCallbacks @@ ZcuOldMainRequests @@ ZcuOldMainSetup @@ ZcuOldMainMain,
   zcu         |-> ZcuCallbacks @@ ZcuRequests @@ ZcuSetup @@ ZcuMain,
   zcuOrig     |-> ZcuOrigCallbacks @@ ZcuOrigRequests @@ ZcuOrigSetup @@ ZcuOrigMain,
   zynq8192    |-> Zynq8192Callbacks @@ Zynq8192Requests @@ Zynq8192Setup @@ Zynq8192Main,
   smalldma    |-> SmalldmaCallbacks @@ SmalldmaRequests @@ SmalldmaSetup @@ SmalldmaMain]
=============================================================================
