---------------------------- MODULE MCFlashHost ----------------------------
(***************************************************************************)
(* FlashHost with the host programs of src/projects on a small card.       *)
(***************************************************************************)
EXTENDS FlashHost, HostProgramsConnectal, HostProgramsZynq, HostProgramsAmf

HostPrograms == ConnectalPrograms @@ ZynqPrograms @@ AmfPrograms

(* Those whose handlers are those of others among them are left out.       *)
OneOfAKind == DOMAIN HostPrograms \ {"tagbufs", "zynqMultinode", "flashMultinode", "strstr", "zcuOri"}

(* What an idle tag leaves behind in its buffers, and the address of its   *)
(* last request, is written before it is read again: states that differ in *)
(* it only are taken for one.  An answer given twice may read the address  *)
(* of an erase.                                                            *)
ReadAgain == This.eraseStatus # "log" /\ Cardinality(bad) + repeats < MaxFaults
OfBusyTags(k, f, Rest(_)) == [t \in Tag |-> IF t \in busy[k] THEN f[t] ELSE Rest(f[t])]
View ==
  <<program, at, stage, held, busy, inFlight, tagQueue, status, badTable, testPassed, report,
    sent, answers, checked, flash, bad, repeats,
    OfBusyTags("read", readBuf, LAMBDA c : Dead), OfBusyTags("write", writeBuf, LAMBDA c : Dead),
    OfBusyTags("read", address.read, LAMBDA p : p = NoPage),
    OfBusyTags("erase", address.erase, LAMBDA p : IF ReadAgain THEN p ELSE p = NoPage)>>
=============================================================================
