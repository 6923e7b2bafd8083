----------------------------- MODULE MCSourceFlow -----------------------------
(* SourceFlow with two down flows.                                           *)
EXTENDS SourceFlow

CONSTANTS d1, d2

TwoFlows == {d1, d2}
=============================================================================
