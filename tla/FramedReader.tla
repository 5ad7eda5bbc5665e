---------------------------- MODULE FramedReader ----------------------------
(***************************************************************************)
(* The extension's end of the backend's stdout: FramedMessageReader of     *)
(* protocol/framed_reader.ts with the codec behind it (PipeMessages).  The *)
(* pipe delivers the written bytes in chunks of any size.  A cell stands   *)
(* for a byte of the magic and the type, for the 4-byte length, and for a  *)
(* field of the payload.  It implements FifoDelivery.                      *)
(***************************************************************************)
EXTENDS PipeMessages, SequencesExt

CONSTANTS
  MaxFrame,    \* MAX_FRAME_SIZE, in cells
  MaxSent      \* bound: messages written

C == 7         \* the magic "CM"
M == 8
HeaderSize == 4

ASSUME ReaderAssumption == MaxFrame \in Nat /\ MaxSent \in Nat

VARIABLES wire, sent,                            \* the backend's side
          buffer, state, currentType, currentPayloadLen, remainingDiscardBytes,
          frameTimer, looping                    \* looping: inside handleData's loop

vars == <<wire, sent, buffer, state, currentType, currentPayloadLen,
          remainingDiscardBytes, frameTimer, looping, owed, delivered>>

-----------------------------------------------------------------------------
(* What reset and the frame timer do. *)
Fresh ==
  /\ buffer' = <<>> /\ state' = "HEADER" /\ currentPayloadLen' = 0
  /\ remainingDiscardBytes' = 0 /\ frameTimer' = FALSE

Init ==
  /\ wire = <<>> /\ sent = 0
  /\ buffer = <<>> /\ state = "HEADER" /\ currentType = 0 /\ currentPayloadLen = 0
  /\ remainingDiscardBytes = 0 /\ frameTimer = FALSE /\ looping = FALSE
  /\ owed = <<>> /\ delivered = <<>>

(* The backend writes header and payload of a message.                     *)
Send(w) ==
  /\ ~looping
  /\ sent < MaxSent
  /\ sent' = sent + 1
  /\ wire' = wire \o <<C, M, w.type, Len(w.payload)>> \o w.payload
  /\ owed' = Append(owed, Meaning(w))
  /\ UNCHANGED <<buffer, state, currentType, currentPayloadLen, remainingDiscardBytes,
                 frameTimer, looping, delivered>>

(* Mutant: bytes to be skipped pile up in the buffer. *)
WaitsInDiscard(n) ==
  /\ ~looping /\ n <= Len(wire)
  /\ wire' = SubSeq(wire, n + 1, Len(wire))
  /\ looping' = TRUE
  /\ buffer' = buffer \o SubSeq(wire, 1, n)
  /\ UNCHANGED <<sent, state, remainingDiscardBytes, currentType, currentPayloadLen,
                 frameTimer, owed, delivered>>

(* handleData, up to its loop; n cells arrive.                             *)
HandleData(n) ==
  LET chunk   == SubSeq(wire, 1, n)
      consume == IF n <= remainingDiscardBytes THEN n ELSE remainingDiscardBytes
      left    == remainingDiscardBytes - consume
  IN
  /\ ~looping
  /\ wire' = SubSeq(wire, n + 1, Len(wire))
  /\ looping' = TRUE
  /\ \/ /\ state = "DISCARD"
        /\ remainingDiscardBytes' = left
        /\ buffer' = buffer \o SubSeq(chunk, consume + 1, n)
        /\ state' = IF left = 0 THEN "HEADER" ELSE state
     \/ /\ state # "DISCARD"
        /\ buffer' = buffer \o chunk
        /\ UNCHANGED <<state, remainingDiscardBytes>>
  /\ UNCHANGED <<sent, currentType, currentPayloadLen, frameTimer, owed, delivered>>

(* tryConsume has nothing to do.                                           *)
LoopEnds ==
  /\ looping
  /\ \/ state = "DISCARD"
     \/ state = "HEADER" /\ Len(buffer) < HeaderSize
     \/ state = "PAYLOAD" /\ Len(buffer) < currentPayloadLen
  /\ looping' = FALSE
  /\ UNCHANGED <<wire, sent, buffer, state, currentType, currentPayloadLen,
                 remainingDiscardBytes, frameTimer, owed, delivered>>

(* Mutant: drops half a magic at the end of the buffer. *)
ForgetsLastByte(b) ==
  LET at == {i \in 1 .. Len(b) - 1 : b[i] = C /\ b[i + 1] = M}
  IN  IF at # {} THEN SubSeq(b, CHOOSE i \in at : \A j \in at : i <= j, Len(b)) ELSE <<>>

(* What is left of bytes that do not begin with the magic.                 *)
Resynchronised(b) ==
  LET at == {i \in 1 .. Len(b) - 1 : b[i] = C /\ b[i + 1] = M}
  IN  IF at # {} THEN SubSeq(b, CHOOSE i \in at : \A j \in at : i <= j, Len(b))
      ELSE IF Last(b) = C THEN <<C>> ELSE <<>>

(* tryReadHeader without the magic at the front of the buffer.             *)
Resync ==
  /\ looping /\ state = "HEADER" /\ Len(buffer) >= HeaderSize
  /\ SubSeq(buffer, 1, 2) # <<C, M>>
  /\ buffer' = Resynchronised(buffer)
  /\ looping' = (Len(buffer') >= HeaderSize)
  /\ UNCHANGED <<wire, sent, state, currentType, currentPayloadLen,
                 remainingDiscardBytes, frameTimer, owed, delivered>>

(* tryReadHeader of a frame above the limit: its payload is skipped.       *)
SkipOversized ==
  LET len  == buffer[4]
      rest == SubSeq(buffer, HeaderSize + 1, Len(buffer))
      skip == IF Len(rest) <= len THEN Len(rest) ELSE len
  IN
  /\ looping /\ state = "HEADER" /\ Len(buffer) >= HeaderSize
  /\ SubSeq(buffer, 1, 2) = <<C, M>> /\ buffer[3] = FRAME /\ len > MaxFrame
  /\ currentType' = FRAME /\ currentPayloadLen' = len
  /\ remainingDiscardBytes' = len - skip
  /\ buffer' = SubSeq(rest, skip + 1, Len(rest))
  /\ state' = IF len = skip THEN "HEADER" ELSE "DISCARD"
  /\ looping' = (Len(buffer') >= HeaderSize)
  /\ owed' = SubSeq(owed, 2, Len(owed))
  /\ UNCHANGED <<wire, sent, frameTimer, delivered>>

(* tryReadHeader of any other message.                                     *)
TryReadHeader ==
  /\ looping /\ state = "HEADER" /\ Len(buffer) >= HeaderSize
  /\ SubSeq(buffer, 1, 2) = <<C, M>> /\ ~(buffer[3] = FRAME /\ buffer[4] > MaxFrame)
  /\ currentType' = buffer[3] /\ currentPayloadLen' = buffer[4]
  /\ buffer' = SubSeq(buffer, HeaderSize + 1, Len(buffer))
  /\ state' = "PAYLOAD"
  /\ frameTimer' = (frameTimer \/ currentType' = FRAME)
  /\ looping' = (buffer' # <<>>)
  /\ UNCHANGED <<wire, sent, remainingDiscardBytes, owed, delivered>>

(* tryReadPayload and dispatch.                                            *)
TryReadPayload ==
  LET d == Dispatched(currentType, SubSeq(buffer, 1, currentPayloadLen)) IN
  /\ looping /\ state = "PAYLOAD" /\ Len(buffer) >= currentPayloadLen
  /\ buffer' = SubSeq(buffer, currentPayloadLen + 1, Len(buffer))
  /\ state' = "HEADER"
  /\ frameTimer' = (frameTimer /\ currentType # FRAME)
  /\ looping' = (buffer' # <<>>)
  /\ delivered' = IF d = <<>> THEN delivered ELSE d
  /\ owed' = SubSeq(owed, 2, Len(owed))
  /\ UNCHANGED <<wire, sent, currentType, currentPayloadLen, remainingDiscardBytes>>

(* The frame timer: five seconds after its header a frame is not complete. *)
FrameTimeout ==
  /\ ~looping /\ frameTimer
  /\ Fresh
  /\ owed' = SubSeq(owed, 2, Len(owed))
  /\ UNCHANGED <<wire, sent, currentType, looping, delivered>>

(* NativeBackend.close: the child is gone and the reader is reset.         *)
Reset ==
  /\ ~looping
  /\ Fresh /\ currentType' = 0
  /\ wire' = <<>> /\ owed' = <<>>
  /\ UNCHANGED <<sent, looping, delivered>>

Consume == LoopEnds \/ Resync \/ SkipOversized \/ TryReadHeader \/ TryReadPayload

Receive == \E n \in 1 .. Len(wire) : HandleData(n)

Next == Consume \/ Receive \/ FrameTimeout \/ Reset \/ \E w \in Written : Send(w)

Spec == Init /\ [][Next]_vars

(* The event loop runs the loop to its end and reads what the pipe holds.  *)
FairSpec == Spec /\ WF_vars(Consume) /\ WF_vars(Receive)

-----------------------------------------------------------------------------
(* Every message is handed over or dropped: the reader never waits for     *)
(* bytes that the backend does not owe.                                    *)
PipeDrains == []<>(owed = <<>>)

=============================================================================
