----------------------------- MODULE MCReceiver -----------------------------
(* Blocks of two samples that straddle a decimator of three, which makes    *)
(* two of them, and a device that may report every other sample; two        *)
(* decoders, of which the fax decoder opens dialogs, that can be nested     *)
(* once (MCReceiver.cfg); or an SDRplay alone (MCReceiverNested.cfg).       *)
EXTENDS Receiver
=============================================================================
