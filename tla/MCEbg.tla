------------------------------- MODULE MCEbg --------------------------------
(* The sizes of ebg.c scaled down: both buffers wrap, the strong buffer is   *)
(* not a multiple of a digest, and a request may need several digests.       *)
EXTENDS Ebg
=============================================================================
