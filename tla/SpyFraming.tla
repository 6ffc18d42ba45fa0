----------------------------- MODULE SpyFraming -----------------------------
(***************************************************************************)
(* devices/spy-server, below the session: how the bytes of the server's    *)
(* messages travel.  The thread of the tcp_client receives whatever the    *)
(* socket has and puts it into the ring inBuffer, which drops what does    *)
(* not fit; the thread of the spyHandler takes a header of fixed size      *)
(* (readHeader) and then a body of the size the header tells (readBody).   *)
(*                                                                         *)
(* A byte is a pair <<message, position>>, so that a byte that ends up in  *)
(* the wrong place can be seen.  The ring is the queue that RingBuffer is  *)
(* shown to implement.  Only messages without end are here: how the        *)
(* threads start and stop is in SpySession.                                *)
(***************************************************************************)
EXTENDS Integers, Sequences

CONSTANTS HeaderSize,    \* sizeof (MessageHeader): 20
          BodySizes,     \* the sizes of bodies
          Capacity,      \* of inBuffer
          MaxMessages    \* bound: messages sent

Least(a, b) == IF a < b THEN a ELSE b
MaxBody == CHOOSE n \in BodySizes : \A m \in BodySizes : m <= n

VARIABLES
    sizes,       \* the body sizes of the messages sent, in order
    wire,        \* bytes sent and not yet received
    inBuffer,    \* bytes received and not yet read
    hpc,         \* the spyHandler: reading a header or a body, processing
    theHeader,   \* the bytes read into the header
    bodySize,    \* its BodySize
    filler,      \* how much of the body readBody has counted
    buffer,      \* the body buffer
    processed,   \* ghost: the number of messages processed
    damaged      \* ghost: bytes have been dropped or made up

vars == <<sizes, wire, inBuffer, hpc, theHeader, bodySize, filler, buffer,
          processed, damaged>>

Noise == <<0, 0>>      \* a byte of something that is no message
Bytes == {Noise} \cup ((1..MaxMessages) \X (1 .. HeaderSize + MaxBody))

TypeOK ==
    /\ sizes \in Seq(BodySizes) /\ Len(sizes) <= MaxMessages
    /\ wire \in Seq(Bytes)
    /\ inBuffer \in Seq(Bytes) /\ Len(inBuffer) <= Capacity
    /\ hpc \in {"header", "body", "process"}
    /\ theHeader \in Seq(Bytes)
    /\ bodySize \in BodySizes
    /\ filler \in 0..bodySize
    /\ buffer \in [1..MaxBody -> Bytes]
    /\ processed \in Nat /\ damaged \in BOOLEAN

\* The bytes of the k-th message from position first on.
MessageBytes(k, first, size) ==
    [i \in 1 .. HeaderSize + size - first + 1 |-> <<k, first + i - 1>>]

Header(k) == MessageBytes(k, 1, 0)
Body(k)   == MessageBytes(k, HeaderSize + 1, sizes[k])

Init ==
    /\ sizes = <<>> /\ wire = <<>> /\ inBuffer = <<>>
    /\ hpc = "header" /\ theHeader = <<>>
    /\ bodySize \in BodySizes /\ filler = 0
    /\ buffer = [i \in 1..MaxBody |-> Noise]
    /\ processed = 0 /\ damaged = FALSE

-----------------------------------------------------------------------------
ServerSends(size) ==
    /\ Len(sizes) < MaxMessages
    /\ sizes' = Append(sizes, size)
    /\ wire' = wire \o MessageBytes(Len(sizes) + 1, 1, size)
    /\ UNCHANGED <<inBuffer, hpc, theHeader, bodySize, filler, buffer,
                   processed, damaged>>

\* putDataIntoBuffer: what does not fit is dropped, and nobody looks at the
\* number it returns.
Put(bytes) ==
    inBuffer' = inBuffer \o
                SubSeq(bytes, 1, Least(Len(bytes), Capacity - Len(inBuffer)))

\* select says there is something, and recvfrom takes n bytes of it.
Receives(n) ==
    /\ n \in 1..Len(wire)
    /\ Put(SubSeq(wire, 1, n))
    /\ wire' = SubSeq(wire, n + 1, Len(wire))
    /\ damaged' = (damaged \/ n > Capacity - Len(inBuffer))
    /\ UNCHANGED <<sizes, hpc, theHeader, bodySize, filler, buffer, processed>>

\* recvfrom returns -1, which putDataIntoBuffer takes for "all there is room
\* for": the ring is filled up with what happens to be in tempBuffer_8.  The
\* bound: this happens at most once, to a stream that is not damaged yet.
ReceiveFails ==
    /\ ~damaged
    /\ inBuffer' = inBuffer \o [i \in 1 .. Capacity - Len(inBuffer) |-> Noise]
    /\ damaged' = TRUE
    /\ UNCHANGED <<sizes, wire, hpc, theHeader, bodySize, filler, buffer,
                   processed>>

-----------------------------------------------------------------------------
\* readHeader.  The BodySize of bytes that are no header is anything.
ReadsHeader ==
    /\ hpc = "header"
    /\ Len(inBuffer) >= HeaderSize
    /\ theHeader' = SubSeq(inBuffer, 1, HeaderSize)
    /\ inBuffer' = SubSeq(inBuffer, HeaderSize + 1, Len(inBuffer))
    /\ bodySize' \in {size \in BodySizes :
          \A k \in DOMAIN sizes : theHeader' = Header(k) => size = sizes[k]}
    /\ filler' = 0
    /\ hpc' = "body"
    /\ UNCHANGED <<sizes, wire, buffer, processed, damaged>>

\* A planted error: the whole size is asked for again.
ReadsBodyAsksAll ==
    /\ hpc = "body"
    /\ Len(inBuffer) > bodySize \div 2
    /\ LET n == Least(bodySize, Len(inBuffer))
       IN  /\ buffer' = [i \in 1..MaxBody |->
                            IF i <= n THEN inBuffer[i] ELSE buffer[i]]
           /\ inBuffer' = SubSeq(inBuffer, n + 1, Len(inBuffer))
           /\ filler' = Least(filler + n, bodySize)
           /\ hpc' = IF filler + n >= bodySize THEN "process" ELSE "body"
    /\ UNCHANGED <<sizes, wire, theHeader, bodySize, processed, damaged>>

\* One turn of the loop in readBody: when there is more than half a body, as
\* much as is missing is read - to the start of the buffer, every time.
ReadsBody ==
    /\ hpc = "body"
    /\ Len(inBuffer) > bodySize \div 2
    /\ LET missing == bodySize - filler
           n == Least(missing, Len(inBuffer))
       IN  /\ buffer' = [i \in 1..MaxBody |->
                            IF i <= n THEN inBuffer[i] ELSE buffer[i]]
           /\ inBuffer' = SubSeq(inBuffer, n + 1, Len(inBuffer))
           /\ filler' = filler + n
           /\ hpc' = IF filler + n >= bodySize THEN "process" ELSE "body"
    /\ UNCHANGED <<sizes, wire, theHeader, bodySize, processed, damaged>>

Processes ==
    /\ hpc = "process"
    /\ hpc' = "header"
    /\ processed' = processed + 1
    /\ UNCHANGED <<sizes, wire, inBuffer, theHeader, bodySize, filler, buffer,
                   damaged>>

Next ==
    \/ \E size \in BodySizes : ServerSends(size)
    \/ \E n \in 1..Len(wire) : Receives(n)
    \/ ReceiveFails
    \/ ReadsHeader \/ ReadsBody \/ Processes

Spec == Init /\ [][Next]_vars

-----------------------------------------------------------------------------
(* Framing is kept: as long as every byte received found room, what is      *)
(* processed next is the next message sent, under its own header and with   *)
(* its own size, however the bytes were cut up on the way.                  *)
InStep ==
    hpc = "process" /\ ~damaged
        => /\ processed < Len(sizes)
           /\ theHeader = Header(processed + 1)
           /\ bodySize = sizes[processed + 1]

(* What is processed is the body that was sent: readBody returned true,     *)
(* that is "filler >= size", it has filled the buffer.                      *)
BodyWhole ==
    hpc = "process" /\ ~damaged
        => [i \in 1..bodySize |-> buffer[i]] = Body(processed + 1)
=============================================================================
