---------------------------- MODULE MCRingBuffer ----------------------------
(* A ring of four slots with two element values, and requests that include  *)
(* nothing, more than the ring holds, and a negative count.                 *)
EXTENDS RingBuffer

MCRequests == {-1, 0, 1, 3}
=============================================================================
