---------------------------- MODULE MCFt8Decoder ----------------------------
(* Two blocks, both of which may be in, so that the ring wraps and a lost    *)
(* update lets a third line in; two messages and a cache of two; the decoder *)
(* is deleted and made again once.                                           *)
EXTENDS Ft8Decoder
=============================================================================
