------------------------------ MODULE MCFramer ------------------------------
(* Small instances of Framer: the six bytes that mean something to it, a   *)
(* header of one byte and short frames.                                    *)
EXTENDS Framer

SixBytes == 0..5

=============================================================================
