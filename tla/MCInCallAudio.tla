--------------------------- MODULE MCInCallAudio ---------------------------
(* One phone between two others. *)
EXTENDS InCallAudio

CONSTANTS w1, w2, r1, r2, r3

MCAddr == 1 .. 3
MCWorker == {w1, w2}
MCPeer == {r1, r2, r3}

=============================================================================
