--------------------------- MODULE FramedReaderMC ---------------------------
(* Payloads for the reader: two texts; frames that are sound, padded with a *)
(* first magic byte, without a picture, and above the limit.               *)
EXTENDS FramedReader

SomeTexts  == {<<Json, 0>>, <<Json, 1>>}
SomeFrames == {<<1, SOI, 0, EOI>>, <<2, SOI, EOI, C>>, <<0, 0, 0>>, <<1, SOI, 0, 0, C, EOI>>}

(* A picture that holds the magic, as the bytes of a JPEG may.              *)
MagicFrames == {<<1, SOI, C, M, EOI>>}
=============================================================================
