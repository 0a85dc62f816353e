--------------------------- MODULE MCFramerChunks ---------------------------
(* A small instance of FramerChunks, as in MCFramer.                       *)
EXTENDS FramerChunks

SixBytes == 0..5

=============================================================================
