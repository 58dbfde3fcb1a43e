--------------------------- MODULE MCVideoPipeline ---------------------------
(* VideoPipeline for TLC. *)
EXTENDS VideoPipeline

\* An odd size within MinSize..MaxSize = 4..8, and one above it.
OddAndLarge == {5, 9}

\* Sizes the encoder and the output take as they are.
Plain == {4, 6, 8}
=============================================================================
