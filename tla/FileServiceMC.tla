---------------------------- MODULE FileServiceMC ----------------------------
(* Instances of FileService: contents of up to two chunks. *)
EXTENDS FileService

SomeContents == {<<1>>, <<2>>, <<1, 1>>, <<2, 2>>}
OneChunk     == {<<1>>, <<2>>}
TwoChunks    == {<<1, 1>>, <<2, 2>>}
=============================================================================
