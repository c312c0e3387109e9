--------------------------- MODULE MCGeminiStream ---------------------------
(* Every stream of up to three lines, every way to cut it into chunks.     *)
EXTENDS GeminiStream
=============================================================================
