--------------------------- MODULE CardContents ----------------------------
(***************************************************************************)
(* The tags of requests, and what pages and buffers of the host programs   *)
(* may hold.                                                               *)
(***************************************************************************)
EXTENDS Integers

CONSTANT NumTags  \* NUM_TAGS (64 or 128)
ASSUME NumTagsAssumption == NumTags \in Nat \ {0}

Tag == 0..(NumTags - 1)

Ones == <<"ones">>    \* what an erased page reads
Zeros == <<"zeros">>  \* what a bad block reads
Dead == <<"dead">>    \* 0xDEADBEEF, 0xBEEFDEAD
Old == <<"old">>      \* what a page held before
Data(h) == <<"data", h>>
=============================================================================
