---------------------------- MODULE MCSpyFraming ----------------------------
(* Three messages whose bodies are empty or of an odd size larger than a    *)
(* header, in a ring that holds one message and a header.                   *)
EXTENDS SpyFraming
=============================================================================
