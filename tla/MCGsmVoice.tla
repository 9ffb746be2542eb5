----------------------------- MODULE MCGsmVoice -----------------------------
(***************************************************************************)
(* One call of five blocks. The results of the codec are computed once and *)
(* looked up: a table has the calls that a talker can make and those of a  *)
(* listener that misses any of the packets.                                *)
(***************************************************************************)
EXTENDS GsmVoice, TLC

Quiet == Signal(FrameLen, LAMBDA i : 0)
Noise == Signal(FrameLen, LAMBDA i : ((i * 7919 + i * i * 31) % 6000) - 3000)
Tone  == Signal(FrameLen, LAMBDA i : 9000 - 150 * ((i * 5) % 121))
Clipped == Signal(FrameLen, LAMBDA i : IF (i \div 20) % 2 = 0 THEN 32767 ELSE -32768)
Pulses  == Signal(FrameLen, LAMBDA i : IF i % 57 = 0 THEN 20000 ELSE (i * 13) % 200)

Whistle == Signal(FrameLen, LAMBDA i : IF i % 2 = 0 THEN 20000 ELSE -20000)

MCSpeech == <<{Tone}, {Clipped, Pulses}, {Whistle}, {Quiet}, {Noise}>>

Context == gsm0610_init("voip")

(* listeners: the encoder's context, and the decoder's of a listener that  *)
(* has had some of the packets. Encodings are the calls of the k-th        *)
(* block, Decodings those of its packet. (@@ makes TLC tabulate.)          *)
Encodings(listeners, k) ==
  [x \in {l.enc : l \in listeners} \X MCSpeech[k] |-> gsm0610_encode(x[1], x[2])] @@ <<>>
Calls(listeners, coded) == {z \in listeners \X DOMAIN coded : z[2][1] = z[1].enc}
Decodings(listeners, coded) ==
  [x \in {<<z[1].dec, coded[z[2]].code>> : z \in Calls(listeners, coded)}
     |-> gsm0610_decode(x[1], x[2])] @@ <<>>
Listeners(listeners, coded, decoded) ==
  UNION {{[enc |-> coded[z[2]].state, dec |-> z[1].dec],
          [enc |-> coded[z[2]].state, dec |-> decoded[<<z[1].dec, coded[z[2]].code>>].state]}
         : z \in Calls(listeners, coded)}

Heard(t, coded, decoded) ==
  [listeners |-> Listeners(t.listeners, coded, decoded),
   encodings |-> t.encodings @@ coded,
   decodings |-> t.decodings @@ decoded]
Said(t, coded) == Heard(t, coded, Decodings(t.listeners, coded))

After[k \in 0 .. MaxFrames] ==
  IF k = 0
  THEN [listeners |-> {[enc |-> Context, dec |-> Context]}, encodings |-> <<>>, decodings |-> <<>>]
  ELSE LET t == After[k - 1] IN Said(t, Encodings(t.listeners, k))

Tables == After[MaxFrames]

(* Packets that have overtaken each other after the sequence number began  *)
(* again are decoded as they come.                                         *)
MCEncode(s, lin) == Tables.encodings[<<s, lin>>]
MCDecode(s, code) ==
  IF <<s, code>> \in DOMAIN Tables.decodings THEN Tables.decodings[<<s, code>>]
  ELSE gsm0610_decode(s, code)

(* Which payload survives behind which, computed once.                     *)
Payloads == {coded.code : coded \in Range(Tables.encodings)}
Survives == [z \in Payloads \X Payloads |-> SurvivesPacking(z[1], z[2])] @@ <<>>

(* The three packings of gsm0610_encode.c carry the same frames: what is   *)
(* sent of a block survives each of them.                                  *)
PackingLossless ==
  [][\A p \in net' \ net : \A q \in net' :
       q.k \in {p.k - 1, p.k} => Survives[<<q.payload, p.payload>>]]_vars

MCPhone == {"talker", "listener"}
MCFirstSNs == {1, 3}
MCPayload == [1 .. VoipBytes -> Byte]
MCNoCode == [n \in 1 .. VoipBytes |-> 0]
MCStarts == [talker |-> 1, listener |-> 2]

=============================================================================
