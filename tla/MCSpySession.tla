---------------------------- MODULE MCSpySession ----------------------------
(* The user clicks twice and presses return twice, so that up to four        *)
(* connections are made one over the other (MCSpySession.cfg), or connects   *)
(* once (MCSpySilent.cfg); three messages per connection are a device info,  *)
(* a client sync and one more of any kind.                                   *)
EXTENDS SpySession
=============================================================================
