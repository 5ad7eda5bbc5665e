---------------------------- MODULE PipeMessages ----------------------------
(***************************************************************************)
(* The messages that the backend writes to its stdout, what they are to    *)
(* the extension (JsonCodec of protocol/codec.ts, dispatch of              *)
(* protocol/framed_reader.ts), and the promise that FramedReader keeps.  A *)
(* payload is a sequence of cells, one for each of its fields.             *)
(***************************************************************************)
EXTENDS Naturals, Sequences

CONSTANTS
  Texts,       \* payloads of responses and events
  Frames       \* payloads of preview frames

VARIABLES owed, delivered    \* history: see FifoDelivery

Json == 3      \* begins a text payload that the codec accepts
SOI == 5       \* JPEG start and end of image
EOI == 6
TEXT == 2      \* MSG_REQUEST, MSG_RESPONSE, MSG_EVENT
FRAME == 4     \* MSG_FRAME
MinFrame == 3  \* frame id, SOI, EOI

(* A text is what the backend's encoder made, which the codec accepts.     *)
ASSUME MessagesAssumption ==
  /\ Texts \subseteq Seq(Nat) /\ Frames \subseteq Seq(Nat)
  /\ \A p \in Texts : p # <<>> /\ Head(p) = Json

(* JPEG without the padding behind its last end marker.                     *)
Picture(jpeg) ==
  LET ends == {i \in 2 .. Len(jpeg) : jpeg[i] = EOI}
  IN  IF ends = {} THEN jpeg ELSE SubSeq(jpeg, 1, CHOOSE i \in ends : \A j \in ends : j <= i)

(* dispatch: the message handed to the callbacks, as a sequence of one, or <<>>. *)
Dispatched(type, payload) ==
  IF type = TEXT /\ payload # <<>> /\ Head(payload) = Json
  THEN << [type |-> TEXT, data |-> Tail(payload)] >>
  ELSE IF type = FRAME /\ Len(payload) >= MinFrame /\ payload[2] = SOI
  THEN << [type |-> FRAME, data |-> <<payload[1]>> \o Picture(Tail(payload))] >>
  ELSE <<>>

Written == {[type |-> TEXT, payload |-> p] : p \in Texts}
             \cup {[type |-> FRAME, payload |-> p] : p \in Frames}

(* The message that the backend means; a frame without a picture means nothing. *)
Meaning(w) ==
  LET d == Dispatched(w.type, w.payload)
  IN  IF d = <<>> THEN [type |-> w.type, data |-> <<>>] ELSE Head(d)

Fifo == INSTANCE FifoDelivery WITH
          Messages   <- {Meaning(w) : w \in Written},
          Expendable <- {Meaning(w) : w \in {x \in Written : x.type = FRAME}}

-----------------------------------------------------------------------------
(* Whatever the chunks, texts are handed over in order, once and unchanged, *)
(* also behind an oversized, broken or stalled frame.                      *)
DeliversInOrder == Fifo!FifoSpec
=============================================================================
