---------------------------- MODULE BoundedFifo ----------------------------
(***************************************************************************)
(* What every producer and consumer of this program expects of a           *)
(* RingBuffer (various/ringbuffer.h): a first-in first-out queue of at     *)
(* most Capacity elements between one writer and one reader.               *)
(*                                                                         *)
(* A call is not atomic.  A put is granted a number of elements when it    *)
(* starts (its request, or the room there is then) and appends exactly     *)
(* that number when it returns; a get or a peek is granted a number of     *)
(* elements that are in the queue when it starts, copies that prefix out   *)
(* one element at a time, and a get removes it when it returns.  There     *)
(* are no indices, no slots and no wrapping here.                          *)
(***************************************************************************)
EXTENDS Integers, Sequences

CONSTANTS Capacity,   \* the number of elements the queue holds
          Data,       \* the element values
          Requests    \* the element counts callers ask for

VARIABLES queue,      \* the elements put and not yet taken, oldest first
          toPut,      \* the elements granted to the put under way, or NoCall
          toGet,      \* the elements granted to the get or peek under way
          result      \* what the get or peek under way has copied out

vars == <<queue, toPut, toGet, result>>

NoCall == -1

\* A request is taken as unsigned, so a negative one asks for everything.
Granted(n, available) == IF n < 0 \/ n > available THEN available ELSE n

Init ==
    /\ queue = <<>>
    /\ toPut = NoCall
    /\ toGet = NoCall
    /\ result = <<>>

PutBegin(n) ==
    /\ toPut = NoCall
    /\ toPut' = Granted(n, Capacity - Len(queue))
    /\ UNCHANGED <<queue, toGet, result>>

PutEnd ==
    /\ toPut # NoCall
    /\ \E s \in [1..toPut -> Data] : queue' = queue \o s
    /\ toPut' = NoCall
    /\ UNCHANGED <<toGet, result>>

GetBegin(n) ==
    /\ toGet = NoCall
    /\ toGet' = Granted(n, Len(queue))
    /\ UNCHANGED <<queue, toPut, result>>

GetElement ==
    /\ toGet # NoCall
    /\ Len(result) < toGet
    /\ result' = Append(result, queue[Len(result) + 1])
    /\ UNCHANGED <<queue, toPut, toGet>>

\* The call returns all it was granted; a get removes it, a peek does not.
GetEnd(removed) ==
    /\ toGet # NoCall
    /\ Len(result) = toGet
    /\ queue' = IF removed THEN SubSeq(queue, toGet + 1, Len(queue)) ELSE queue
    /\ toGet' = NoCall
    /\ result' = <<>>
    /\ UNCHANGED toPut

\* The oldest k elements are dropped unseen.
Skip(k) ==
    /\ toGet = NoCall
    /\ queue' = SubSeq(queue, k + 1, Len(queue))
    /\ UNCHANGED <<toPut, toGet, result>>

Flush ==
    /\ toPut = NoCall
    /\ toGet = NoCall
    /\ queue' = <<>>
    /\ UNCHANGED <<toPut, toGet, result>>

Next ==
    \/ \E n \in Requests : PutBegin(n) \/ GetBegin(n)
    \/ PutEnd
    \/ GetElement
    \/ \E removed \in BOOLEAN : GetEnd(removed)
    \/ \E k \in 0..Len(queue) : Skip(k)
    \/ Flush

Spec == Init /\ [][Next]_vars
=============================================================================
