--------------------------- MODULE MCSdrplayServer ---------------------------
(* Four requests, of every kind, in every order.                            *)
EXTENDS SdrplayServer
=============================================================================
