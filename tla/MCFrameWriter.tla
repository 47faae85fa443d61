--------------------------- MODULE MCFrameWriter ----------------------------
(* Small instances of FrameWriter: the names of goroutines and blocks. *)
EXTENDS FrameWriter

CONSTANTS main, h1, h2, text, thinking
=============================================================================
