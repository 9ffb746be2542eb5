---------------------------- MODULE MCVoicePath ----------------------------
(***************************************************************************)
(* A call that lasts longer than the jitter buffer allows for. Only the    *)
(* stream matters: the codec is one that counts its blocks.                *)
(***************************************************************************)
EXTENDS VoicePath

MCPhone == {"talker", "listener"}
MCFirstSNs == {1}
MCStarts == [talker |-> 1, listener |-> 1]
MCPayload == {"block", "nothing"}
MCSpeech == [k \in 1 .. 6 |-> {"block"}]
MCEncode(s, lin) == [code |-> lin, state |-> s + 1]
MCDecode(s, code) == [amp |-> code, state |-> s + 1]

=============================================================================
