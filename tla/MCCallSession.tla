--------------------------- MODULE MCCallSession ---------------------------
(***************************************************************************)
(* One phone against every environment of a few inputs: two remote         *)
(* addresses and one conference.                                           *)
(***************************************************************************)
EXTENDS CallSession, TLC

CONSTANTS p1, a1, a2, c1

MCPhone == {p1}
MCAddr == {a1, a2}
MCOneAddr == {a1}
MCConf == {c1}
MCRingerModes == {"normal", "silent"}
MCNormalRinger == {"normal", "vibrate"}

AddrSymmetry == Permutations(MCAddr)

=============================================================================
