----------------------------- MODULE MCRtspSource -----------------------------
(* RtspSource with one or two clients.                                       *)
EXTENDS RtspSource

CONSTANTS c1, c2

OneClient == {c1}
TwoClients == {c1, c2}
=============================================================================
