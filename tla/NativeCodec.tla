---------------------------- MODULE NativeCodec ----------------------------
(***************************************************************************)
(* The native library of every phone (native-lib.cpp): how often it has    *)
(* been opened and the two contexts of the codec, which all threads of the *)
(* process share. The codec is a parameter: Gsm0610 is what it is.         *)
(***************************************************************************)
EXTENDS Integers

CONSTANTS
  Phone,
  NoContext,               \* the null pointer
  NewContext,              \* gsm0610_init(NULL, GSM0610_PACKING_VOIP)
  NoCode,                  \* the array of zeros that nothing was written to
  gsm_encode(_, _),        \* context, samples: [code, state]
  gsm_decode(_, _)         \* context, code: [amp, state]

VARIABLES codec_open, gsm0610_enc_state, gsm0610_dec_state

native == <<codec_open, gsm0610_enc_state, gsm0610_dec_state>>

NativeInit ==
  /\ codec_open = [ph \in Phone |-> 0]
  /\ gsm0610_enc_state = [ph \in Phone |-> NoContext]
  /\ gsm0610_dec_state = [ph \in Phone |-> NoContext]

(* Memory for the contexts is there: without it startAudio throws on a     *)
(* thread that catches nothing, and the process starts anew.               *)
JniGsmOpen(ph) ==
  /\ codec_open' = [codec_open EXCEPT ![ph] = @ + 1]
  /\ IF codec_open[ph] # 0
     THEN UNCHANGED <<gsm0610_enc_state, gsm0610_dec_state>>
     ELSE /\ gsm0610_enc_state' = [gsm0610_enc_state EXCEPT ![ph] = NewContext]
          /\ gsm0610_dec_state' = [gsm0610_dec_state EXCEPT ![ph] = NewContext]

(* Mutant: the library is not closed.                                      *)
JniGsmClose_StaysOpen(ph) ==
  UNCHANGED <<codec_open, gsm0610_enc_state, gsm0610_dec_state>>

(* gsm0610_release does nothing: the contexts are neither reset nor freed. *)
JniGsmClose(ph) ==
  /\ codec_open' = [codec_open EXCEPT ![ph] = @ - 1]
  /\ UNCHANGED <<gsm0610_enc_state, gsm0610_dec_state>>

(* The code of a block, in the array that the caller sends whatever the    *)
(* call returned.                                                          *)
Encoded(ph, lin) ==
  IF codec_open[ph] = 0 THEN NoCode ELSE gsm_encode(gsm0610_enc_state[ph], lin).code

JniGsmEncodeB(ph, lin) ==
  /\ gsm0610_enc_state' =
       IF codec_open[ph] = 0 THEN gsm0610_enc_state
       ELSE [gsm0610_enc_state EXCEPT ![ph] = gsm_encode(@, lin).state]
  /\ UNCHANGED <<codec_open, gsm0610_dec_state>>

JniGsmDecodeB(ph, encoded) ==
  /\ gsm0610_dec_state' =
       IF codec_open[ph] = 0 THEN gsm0610_dec_state
       ELSE [gsm0610_dec_state EXCEPT ![ph] = gsm_decode(@, encoded).state]
  /\ UNCHANGED <<codec_open, gsm0610_enc_state>>

=============================================================================
