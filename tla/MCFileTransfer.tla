--------------------------- MODULE MCFileTransfer ---------------------------
(* Layers smaller than a chunk, of one chunk, of one byte more, and of      *)
(* several, over no file or over what an earlier download has left.         *)
EXTENDS FileTransfer
=============================================================================
