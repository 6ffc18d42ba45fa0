---------------------------- MODULE MessageQueue ----------------------------
(***************************************************************************)
(* What the acars decoder expects of its printer                           *)
(* (decoders/acars-decoder/printer.cpp): a message it is given is in a     *)
(* queue of at most Capacity messages until it has been printed, and the   *)
(* messages are printed in the order in which they were given.             *)
(*                                                                         *)
(* There are no threads, no semaphores and no slots here.  A message is    *)
(* offered for as long as the queue is full.                               *)
(***************************************************************************)
EXTENDS Naturals, Sequences

CONSTANT Capacity

VARIABLES offered,     \* the message that is to be queued, or NoMessage
          queue,       \* those not yet printed, the oldest first
          taken        \* those printed

vars == <<offered, queue, taken>>

NoMessage == <<>>

Init == offered = NoMessage /\ queue = <<>> /\ taken = <<>>

Offers ==
    /\ offered = NoMessage /\ offered' # NoMessage
    /\ UNCHANGED <<queue, taken>>

Puts ==
    /\ offered # NoMessage /\ Len(queue) < Capacity
    /\ queue' = Append(queue, offered)
    /\ offered' = NoMessage
    /\ UNCHANGED taken

Takes ==
    /\ queue # <<>>
    /\ taken' = Append(taken, Head(queue))
    /\ queue' = Tail(queue)
    /\ UNCHANGED offered

Next == Offers \/ Puts \/ Takes

Spec == Init /\ [][Next]_vars
=============================================================================
