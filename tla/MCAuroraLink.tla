----------------------------- MODULE MCAuroraLink -----------------------------
(* An instance of mkAuroraExtFlowControl for TLC: the halves of an item      *)
(* differ, so that halves joined wrongly make an item nobody sent.          *)
EXTENDS AuroraLink, TLC

CONSTANTS a, b

OneItem == {<<a, b>>}
=============================================================================
