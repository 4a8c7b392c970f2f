-------------------------- MODULE HostProgramsAmf --------------------------
(***************************************************************************)
(* The hosts of the projects whose card translates addresses: amf_bram,    *)
(* amf_8192_bram, amf_8192_bram_acp and zcu_amf_8192.  A page is a logical *)
(* page here, its blk a segment, and flashStatus has an entry for each.    *)
(* The transfers of the map, which these mains start and do not wait for,  *)
(* are in module AFTLMapTransfer.                                          *)
(***************************************************************************)
EXTENDS HostScripts

(* an LPA, of as many buses and chips as the instance has *)
LogBlks == Buses * Chips
Lpa(p) == (p.blk * Pages + p.page) * LogBlks + p.chip * Buses + p.bus
ByLpa == Sweep(AllPages, <<"blk", "page", "chip", "bus">>)

(* hashAddrToData sets the bits of the logical block where it means to     *)
(* select them: it fills alike the pages that differ in it only            *)
HashLpa(p) == Data((Lpa(p) \div LogBlks) * LogBlks + (LogBlks - 1))

LpaRequests == [Requests EXCEPT !.tracks = {"write"}]
LpaSetup == [fresh |-> Dead, translated |-> TRUE]

(* amf_bram/main_example.cpp: the one that checks data *)
AmfBramCheck == [Callbacks EXCEPT !.check = "locked"] @@ [golden |-> Golden(HashLpa)]
AmfBramDone == [done |-> Done(Clamped, Clamped, Clamped)]
AmfBramRequests == LpaRequests
AmfBramSetup == LpaSetup
AmfBramMain ==
  LET pages == Sweep(FirstPages, <<"chip", "bus", "blk">>)
  IN  [fills |-> TRUE,
       script |-> WriteAll(pages) \o Drain("write") \o ReadAll(pages) \o Drain("read")
                    \o EraseAll(pages) \o Drain("erase") \o Drain("read")]

(* amf_bram/main.cpp: counts, and never frees a tag; it reads fewer pages  *)
(* than there are tags                                                     *)
AmfBramToolDone == Callbacks @@ [golden |-> Golden(HashBusChipBlk), done |-> Done(CountOnly, CountOnly, CountOnly)]
AmfBramToolRequests == Untracked
AmfBramToolSetup == LpaSetup
AmfBramToolMain ==
  [fills |-> FALSE,
   script |-> Clear \o ReadAll(SubSeq(ByLpa, 1, NumTags)) \o Drain("read") \o Drain("read")]

(* amf_8192_bram/main_example.cpp *)
Amf8192Done == Callbacks @@ [golden |-> Golden(HashLpa), done |-> Done(Flagged, Plain, Clamped)]
Amf8192Requests == LpaRequests
Amf8192Setup == LpaSetup
Amf8192Main ==
  [fills |-> FALSE,
   script |-> WriteAll(ByLpa) \o Drain("write") \o ReadAll(ByLpa) \o Drain("read") \o Drain("read")]

(* amf_8192_bram_acp/main_example.cpp *)
AmfAcpDone == [Amf8192Done EXCEPT !.done = Done(Flagged, Clamped, Clamped)]
AmfAcpRequests == LpaRequests
AmfAcpSetup == LpaSetup
AmfAcpMain == [fills |-> FALSE, script |-> ReadAll(ByLpa) \o Drain("read") \o Drain("read")]

(* zcu_amf_8192/main_example.cpp *)
ZcuAmfDone == [Amf8192Done EXCEPT !.done = Done(Tolerant, Tolerant, Clamped)]
ZcuAmfRequests == LpaRequests
ZcuAmfSetup == LpaSetup
ZcuAmfMain == [fills |-> FALSE, script |-> ReadAll(ByLpa) \o Drain("read")]

AmfPrograms ==
  [amfBram     |-> AmfBramCheck @@ AmfBramDone @@ AmfBramRequests @@ AmfBramSetup @@ AmfBramMain,
   amfBramTool |-> AmfBramToolDone @@ AmfBramToolRequests @@ AmfBramToolSetup @@ AmfBramToolMain,
   amf8192     |-> Amf8192Done @@ Amf8192Requests @@ Amf8192Setup @@ Amf8192Main,
   amfAcp      |-> AmfAcpDone @@ AmfAcpRequests @@ AmfAcpSetup @@ AmfAcpMain,
   zcuAmf      |-> ZcuAmfDone @@ ZcuAmfRequests @@ ZcuAmfSetup @@ ZcuAmfMain]
=============================================================================
