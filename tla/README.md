# A verification project for swradio

swradio is a short wave receiver: a Qt program that takes samples from a
radio device, shows a piece of spectrum, decodes one station of it with an
exchangeable decoder and plays the sound.  Its hard part is not the signal
processing but that samples, commands and sound cross between threads that share
memory with hardly a lock: the thread of the device (or of its library, or of a
socket), the GUI thread with its event queue, and the thread of the sound card.
The modules here model those crossings as they are in the code, TLC checks them
on small instances, and TLAPS proves the properties that matter most for every
value of the constants.

## The system

```
 device thread / API callback           GUI thread                 PortAudio's thread
 ----------------------------   ----------------------------     --------------------
 putDataIntoBuffer  --inputData ring-->  sampleHandler
 emit dataAvailable --event queue---->     | decimator
                                           v
                                         decoder -> process
                                           |  audioData ring, audioAvailable
                                           v
                                         processAudio -> upConverter -> audioSink
                                                            --_O_Buffer ring--> paCallback_o
 server thread of the SDRplay handler <--server_queue, semaphores-- slots of the device
 tcp_client, spyHandler threads       <--sockets, flags, onConnect-- slots of the spyServer client
```

| component | state it keeps | operations | what makes it correct | modelled in |
|---|---|---|---|---|
| ring buffer (`various/ringbuffer.h`) | two indices, a buffer, no lock | put, get, peek, skip, flush | writer and reader share no slot; a FIFO queue | `RingBuffer`, `BoundedFifo` |
| receiver spine (`radio.cpp`, `decimators/decimator.cpp`) | inputData, event queue, decimator, decoder, dump file | sampleHandler, selectDecoder, set_dumpButton, closeEvent, the device's report | no sample skipped or left behind, no deleted decoder used | `Receiver` |
| audio out (`output/`, slots of `radio.cpp`) | audioData, the converter's buffer, `_O_Buffer`, the stream's state | processAudio, handle, putSamples, selectDevice, stop, restart, paCallback_o | whole chunks, whole stereo frames, a stream closed only when quiet | `AudioOut` |
| SDRplay v3 (`devices/sdrplay-handler-v3`) | queue of requests, two kinds of semaphores, three flags | messageHandler, run, StreamACallback, constructor, destructor | requests outlive their use, the queue is used by one thread at a time, everything taken is given back | `SdrplayServer` |
| SpyServer session (`devices/spy-server`) | connected, running, onConnect, timers, the handler and its thread | wantConnect, setConnection, run, the timers' slots, destructors | waits end, nobody calls who is gone, connected means connected | `SpySession` |
| SpyServer framing (same) | ring of bytes, header, body, filler | tcp_client::run, readHeader, readBody | headers where headers are, bodies whole | `SpyFraming`, as a device of `Devices` |
| tuning and bands (`radio.cpp`, `bandplan.cpp`, `programlist.cpp`) | frequency, offset, pass-band, the device's word for its frequency | setFrequency, adjustFrequency, set_inMiddle, setBand, key pad, programs | pass-band inside the device's bandwidth, a frequency that is true | `Tuning` |
| file reader (`devices/filereader`) | file position, running and resetRequest, a ring | run, startReader, stopReader, reset, setFileat, destructor | nothing used after it is gone, samples in order and once | `FileReader`; as a device of `Receiver` |
| rtlsdr (`devices/rtlsdr-handler`) | library, dongle, worker | constructor with its failures, restart, stop, callback | given back what was taken, no callback into a deleted handler | `Rtlsdr` |
| hackrf (`devices/hackrf-handler`) | library, stream, sampleCnt | constructor, restart, stop, callback | the same, and a report for what was written | `Hackrf` |
| rtl_tcp (`devices/rtl_tcp`) | socket, its state, what was asked for | connect, disconnect, commands, readData | the server follows what the user sees | `RtlTcp` |
| choice of a device (`radio.cpp: setDevice`) | theDevice | create, delete | one device at a time | `Devices` |
| FT8 decoder (`decoders/ft8-decoder`) | block ring, two semaphores, blocks_in, message cache | process, run, addtoBuffer, decoder deleted and made again | a block is decoded as it was filled | `Ft8Decoder` |
| fax decoder (`decoders/fax-decoder`) | APTSTART ... WAITER, line and check buffers, save flags | process, fax_set..., reset, save buttons | buffers long enough, pictures end | `FaxDecoder`; its dialog in `Receiver` |
| amtor (`decoders/amtor-decoder`) | bit clock, shift register, delay line of pairs, shift, message state | addbitfragment, decoder, addBytetoMessage, amtorText | every character once although it comes twice | `AmtorDecoder` |
| rtty (`decoders/rtty-decoder`) | state within a character, counter, shift | addrttyBitFragment, pickup_char | characters back to back, with every format | `RttyDecoder` |
| acars (`decoders/acars-decoder`) | shift register, state within a block, the printer's ring and thread | putbit, decodeAcars, processBlock, output_msg, run | blocks found again after bad ones, repaired or rejected; the printer is a queue, and ends | `AcarsDecoder`, `MessageQueue` |
| cw (`decoders/cw-decoder`) | time stamps, adaptive lengths, the letter so far | processSample, newThreshold, speedAdjust | the sender's speed is found and followed | `CwDecoder` |
| psk (`decoders/psk-decoder`) | decode shifter, Viterbi's metrics and history, varicode register | doDecode, bpsk_bit, qpsk_bit, viterbi_decode | text through the delay of the traceback | `PskDecoder` |
| choice of a decoder (`radio.cpp: selectDecoder`) | theDecoder | | the text shown is the text sent | `Decoders` |
| DRM decoder | synchronisation, superframes | process | order of synchronisation steps | not modelled |
| am, ssb, filters, FFTs, AGC, scopes, widgets | arithmetic, display | | | not modelled: no control to speak of |
| SDRplay v2, extio, pmsdr, elad, card reader | | | | not modelled |
| fdk-aac, `*-xxx`, `*-ok`, `*-win`, `Release` | | | | not modelled: third party, or not built |

`PROJECT.json` lists the components with their files, every definition with the
lines it models, and the hazards, each at its line, with the properties that
are for it.

## The modules and the code

**RingBuffer** is `various/ringbuffer.h` with its masks as `%`.  One writer and
one reader run concurrently; each call first reads the other's index
(`PutBegin`, `ReadBegin`), then copies element by element (`PutElement`,
`ReadElement`: the two `memcpy`'s of the two regions, where `Slot` tells which
slot is next), then advances its own index (`PutEnd`, `GetEnd`).  `skipDataInBuffer`
reads the number of elements twice, so it has three steps.  Requests may be
negative, nothing, or more than there is, as the callers' are.  The write of an
index is atomic and the barriers are the program order.  **BoundedFifo** says what
callers may rely on: a queue, where a call is granted what is there when it
starts and takes effect when it ends.  The mapping is `Contents`, the elements
between the indices.

**SdrplayServer** is the handler for SDRplay's version 3 API.  `gpc`, `wpc` and
`cpc` are the GUI thread, the thread of `run` and the API's callback.  Requests
are numbered objects on the GUI thread's stack: `request` is the one alive.
Every failure of the set-up is an alternative (`FailsEarly`, `SelectsDevice`,
`MakesRsp`, ...) and `held` is what must be given back on the way out.  All
requests that only set a parameter of the tuner are one command SET.  The first
values of `receiverRuns` and `threadRuns`, which nothing initialises, are arbitrary.

**SpySession** is the client of a SpyServer and its handler.  The GUI thread runs
one slot at a time, so a timer (`TimerFires`) fires only when it is `idle`, in its
event loop: not while `setConnection` polls, `await`.  Every click connects
`returnPressed` once more, so one return may make several calls (`calls`).  The
handler's thread is `RunBegins`, `ReadsHeader`, `ReadsBody`, `Processes`; readHeader's
early return when `running` is cleared leaves the old header, which is then
processed, as in the code.  `fresh`, `synced`, `oldSync`, `stillConnected` and
`late` are ghosts: the message in the buffer has been read and not yet
processed; this handler has processed a sync; the handler before did so while it
was being deleted; `connected` was set before the last setConnection, which has not
set it again; a thread began while its handler was deleted.

**SpyFraming** is the same handler below the session: bytes are pairs of message
and position, a receive takes any number of them, the ring drops what does not
fit, and readBody takes a body in parts.  Devices runs it as one of its devices.

**AudioOut** starts when the constructor of RadioInterface has made the sink and
goes through processAudio, the two nested loops of the upConverter with their
one variable `i`, putSamples with its `& ~01`, and the callback.  The stream is
`none`, `stopped`, `active`, `finished` (its callback returned paAbort) or `closed`
(closed, and the pointer kept because opening another failed).

**Receiver** is what happens on the GUI thread between device and decoder.
`events` is the queue of dataAvailable's, `calls` the stack of sampleHandler's: an
open dialog runs an event loop of its own, so a call can begin inside of
another.  Samples are numbered and the decimator's arithmetic is left out.
`theDevice` is an SDRplay, whose callback counts samples and emits to the GUI
thread directly, or the file reader, whose thread waits for room, looks at the
ring and emits through the object `fileReader`.  An event that goes through a
device object is deleted with it.

**FileReader** is the fileHulp thread with its two flags: `running`, which the
thread itself stores when it starts, and `resetRequest`.  A stop that comes
between the start of the thread and that store returns at once; the thread
then outlives it, which the ghost `outrun` records.

**Rtlsdr** starts with the constructor, step by step, each of which may fail; a
failure unwinds as the code does.  The worker is `dll_driver` inside of
rtlsdr_read_async.  rtlsdr_cancel_async has an effect only once the reading has
begun; a stop before that (ghost `early`) is not heard by the library.  The
library is external.  The report is emitted when the ring holds more
than outputRate/10 samples (`tenth`), and outputRate is a member that nothing
assigns.

**Hackrf** has the load and the store of `sampleCnt`, which callback and GUI thread
both write, as steps of their own, and an arbitrary first value (`Garbage`).

**RtlTcp** is the client on the GUI thread with its commands on their way.  Each
click on connect adds a connection of returnPressed (`wants`), each connection of
the socket one of readyRead (`readers`).  The server is external, applies what
comes, and closes when it likes.

**Devices** composes FileReader, Rtlsdr, Hackrf, RtlTcp and SpyFraming: setDevice makes one of them and leaves the others
in their first states, so that every property of it is one of the device that
was chosen; its `Next` is a step of that device.

**Tuning** is radio.cpp's arithmetic of frequency, offset and pass-band, with
words of `Word32` and `Word64`: frequencies are quint64 in most places and int32 where
the program keeps or saves them, and they wrap around as in the code.  `refused`
and `chosen` are ghosts: the device did not take the last frequency; the band was
chosen after the last tuning.

**Ft8Decoder** has the two threads of the decoder: `Gui` passes the tones of a line on
in the block `blockToWrite`, `Run` decodes blocks when `usedSlots` lets it.  `blocks_in` is
a static without a lock that both read and write; the ghost `spoiled` tells that an
update was lost.  What a block says once decoded may be any message.

**FaxDecoder** is one thread, sample by sample: what a demodulator says of a sample
is open, and the positions in the line and check buffers are what the model is
about.  Of the content of checkBuffer it keeps what checkStop can tell apart: how many
samples at its head are older than the sender's stop tone (`picture`).  A check that
succeeds shifts them out, one that fails leaves them, and checkStop is certain to hear
the tone only when there are none.  The selector of the IOC, reset, cheat and the
save buttons come between any two samples.

**AmtorDecoder** begins where process has a bit fragment.  The sender (external, like
those of the four below) sends each character of a broadcast twice, with phasing
before and blanks after; its clock may be off by a fragment and one word may come
wrong.  Words of seven bits are sequences, `scrapped` is the 0xFF that stands for a
wrong one, the queue is the ring of characters that wait for their second copy.

**RttyDecoder** takes one bit fragment per step; `rttyCounter` counts them as the code
does.  The formats are every kind of parity and stop, and the parity that the sender
uses, with a definition of its own (`SentParity`: the number of ones is made odd or
even), is independent of the one that is selected.  What the shift is before the
first character, nothing initialises: it is either.

**AcarsDecoder** takes one bit per step.  A byte is the set of its bits that are one, so
that parity is a cardinality and the checksum is `Xor`; the table of 256 entries is
computed from its eight rows of one bit, and the syndroms from the table, for as many
rows as syndrom.h has; a read past them (`ReadsPast`) may have any outcome.  The
constants `Header`, `Recovers`, `TooLong` and `MAXPERR` are 13, 20, 240 and 10 in the code.
OutputMsg is the GUI thread, `Printer` the thread of the printer, with
its ring of `theSlots`.  **MessageQueue** says what the decoder may rely on: a queue of
messages.  The mapping is `Waiting`, the slots from nextOut on that are filled.

**CwDecoder** takes one sample per step, a tone or none: the level detector is
external.  Averages are integer divisions, of integers as in the code's int32 variables.

**PskDecoder** takes the phase of one symbol per step.  Viterbi's metrics, history,
pointer, traceback and chunks are as in viterbi.cpp, with `PATHMEM` and the limit
`IntMax` as parameters; the squelch is open after `PskOpens` symbols.

**Decoders** makes one of the five, which runs alone; the others stay in their first
state.

**MC...** modules give TLC its instances; operators that a comment calls a planted
error are variants of an action with a mistake a programmer could make there.
Each property has one that breaks it, named in `PROJECT.json` under `mutants`.

## The runs

| run | instance | states | what it shows |
|---|---|---|---|
| `ring` | 4 slots, 2 values, requests -1, 0, 1, 3 | 62,336 | no shared slot, grants hold, implements the bounded FIFO |
| `sdrplay` | 4 requests | 469 | requests alive and counted right (so that the queue, which has no lock, is unshared), effects there on return, nothing left behind, nobody hangs |
| `spy` | 2 clicks, 2 returns, 3 messages | 68,567 | for up to four connections one over the other: set-up after a sync, connected means a server, no thread left behind by a deleted client, all but for what a failing reconnection or the handler before leaves; a sync that arrives ends the wait; deleting ends |
| `spy_silent` | 1 click, 1 return | | finding: the wait for a silent server never ends |
| `audio` | chunks of 2 and 4 frames, ring of 4 frames, callbacks of 3, 7 frames, 1 selection | 112,958 | whole chunks, whole stereo frames, closed when quiet, an active stream plays, loops end |
| `receiver` | SDRplay and file reader, am and fax decoder; blocks of 2, decimator 3 to 2, ring of 6, 9 samples, 3 user events, one dialog within another call | 378,327 | no gap, nothing left behind, a whole dump, no deleted decoder, reports answered |
| `devices` | file of 5 frames, blocks of 2, rings of 6, 8, 12 and 8, output rates 0, 3, 100, first counts -9, 0, 3, 9, 3 blocks, 4 commands, 2 clicks; SpyServer: 3 messages of 0 or 3 bytes, header of 2, ring of 6 | 904,919 | what a device uses is there, samples come once and in time, a server follows, headers and sizes stay in step however the stream is cut up, a stop returns |
| `decoders` | texts of 2 to 10 characters; amtor 4 fragments a bit, rtty 10 samples a bit and 7 formats, acars 1 to 3 blocks with up to 3 wrong bytes and a printer's ring of 2, cw at 3 settings, 11 speeds and noise in pauses and within letters, psk with a path of 24 and an int of at most 16000 | 711,263 | all that is sent is shown, once and in order, under the condition of each decoder; no metric overflows, the printer is a queue and ends |
| `ft8` | ring of 2 blocks, limit of 2, cache of 2, 4 lines, 2 decoders | 392,844 | blocks whole and in order, the count exact, both threads go on |
| `fax` | line of 20 samples, pictures of 1 line, check after 1, 2 alarms, 1 cheat | 3,374,332 | positions inside their buffers; when a stop tone does not end the picture, checks and ends of lines coincide and checkBuffer holds older samples |
| `rtty_parity` | 8 bits, sender and decoder both set to even, or to odd, parity | | finding: the parities even and odd are exchanged |
| `tuning` | words of 13 and 15 bits, 4 frequencies, 4 steps, 11 bands of which one is wide, 5 operations | 288,002 | pass-band in the bandwidth but for a wide band that was just chosen, frequency true, a program comes back |

`MCSpyBodies.cfg` and `MCReceiverNested.cfg` belong to no run: they reproduce two of
the observations below.

### Why the bounds are enough

- The ring wraps in every run of `ring`: its indices take all eight values, and
  requests larger than what is there are clamped.  No bound is on the number
  of calls; the state space is finite and complete.
- A request of the SDRplay handler is gone before the next is made, so a third
  and a fourth in one behaviour see whatever the first two could leave behind;
  four are every pair of kinds in every order with one before and one after.
- In `spy` three messages are a device info, a sync and one more, in all orders,
  with any number lost.  Two returns with two clicks are up to four connections.
- In `devices` an odd body of a SpyServer larger than the header makes headers and bodies
  straddle every receive, and an empty one is the special case of readBody; the
  ring is smaller than two messages, so it can overflow.
- In `audio` a chunk at the card's rate fills the ring exactly and a chunk that is
  converted overflows it with anything in it; callbacks of three frames cut
  chunks of two and four.
- In `receiver` blocks of two straddle a decimator of three, the ring holds three
  blocks, and nine samples are three rounds of the decimator with overflow.
- In `devices` a file of five frames ends inside of a block and begins again, each
  ring can fill up, and the output rates are one that always, sometimes and
  never reports.  Four commands reach a server in more than one order with a
  disconnection between them.
- In `decoders` every amtor transmission contains a change of shift and is listened
  to from each bit of the first word on; the broadcast between ZCZC and NNNN is the one
  that goes through the message states.  Each condition of a decoder (see below) fails in
  some of the transmissions: one with ZZCZC, a rtty message of seven characters, a sender of even parity,
  noise of cw within a letter and speeds too far from the setting, acars errors of two bits in a
  byte and in the first byte of the longest block, a trailer of psk that is too short; and each
  would be violated without its condition.  acars' blocks are of the least length, of the
  greatest and between, and those whose end comes wrong run on to the next one.  The printer's ring of
  two messages wraps, and is full when three blocks come before its thread begins.  psk's other trailers are longer than the path, so that
  the traceback passes over the whole text; and long enough for the metrics
  to pass half of an int of 16000 several times.
- In `ft8` the ring of two blocks is full and empty in turn; a second decoder
  finds the static count the first one left.
- In `fax` a line of 20 samples is the shortest in which a line, half a line and
  the check buffer end at different samples, and a tenth and a quarter of one are whole.
- In `tuning` both words can wrap within five operations, each frequency and
  each step is on another side of a limit, and the wide band can be chosen at an
  offset at which it does not fit.

### Fairness

- Every thread that is inside of a call goes on (weak fairness of its steps):
  the operating system schedules runnable threads, and no step waits for a
  lock.  That is all `SdrplayServer`, `AudioOut` and `Ft8Decoder` assume, besides that
  a callback that has begun returns.
- `SpySession` also assumes that an active timer fires when the event loop
  runs.  Neither users nor servers are fair: they may do nothing for ever,
  and nothing checked relies on them.
- `Receiver` assumes that the GUI thread handles its events, not that a dialog
  is ever closed.
- `Devices` assumes that the threads of the file reader and of the stick go on and
  that a stick that reads delivers blocks, which is what lets
  rtlsdr_read_async notice that it is cancelled.
- `FaxDecoder` assumes that samples keep coming, since `PictureEnds` is about a tone
  that lasts.  `Tuning` assumes nothing.
- `Decoders` assumes that the thread of acars' printer is scheduled, and that the GUI thread
  goes on when the slot or the end of the thread it waits for is there.

Deadlock is not checked except in `ring`, where no step may ever be blocked: the
other models stop when their bounds are used up or the program has ended.
What must not stop is a liveness property instead.

## What the code does not do

Two runs expect a violation; `PROJECT.json` quotes the line that says otherwise.

- `spy_silent`: setConnection waits on the GUI thread for a flag its own timer is
  to set; the timer cannot fire, and a silent server blocks the program.
- `rtty_parity`: with "par odd" check_parity expects the parity bit that makes the number
  of ones even, and with "par even" the one that makes it odd.  A sender whose parity is
  the one that is selected is shown as blanks.

The properties are stated with a condition where the code keeps them only then.
Each condition is a definition or a ghost variable; without it TLC finds:

- `SetupAfterSync` without the ghost oldSync: while setConnection deletes the handler of an
  earlier connection, that one processes a sync once more, and sets up the new one.
- `ConnectedHasServer` without the ghost stillConnected: a reconnection that fails leaves
  connected set and theServer null.  `ParentAlive` without it: the client's destructor
  returns early when it is connected and not streaming, and the handler's thread goes on.
- `InBandwidth` without the ghost chosen: setBand does not look at the offset, and a wide
  band chosen near an edge reaches over it until the next tuning.
- `PictureEnds` without what it concedes: a break skips the end of a line when a check
  of the stop tone falls on it.  Every check then does, lines are no longer counted, and since a check that fails
  does not shift checkBuffer, a tone that begins after the first one fills its last
  quarter only and may never be heard: the picture does not end.
- Of a hackrf whose constructor throws after hackrf_init nothing is stated (`NothingHeld`): it
  leaves the library, and after hackrf_open the device, in use.
- Saving a fax continuously cannot be switched on: the slot of its button tests a pointer
  where it means a flag, calls the slot of the other button, and is switched off again.
- `BodyWhole` of `SpyFraming` (`MCSpyBodies.cfg`): a body that comes in two parts is put
  together wrongly, since readBody puts each part at the start of the buffer.
- `OneAtATime` of `Receiver` (`MCReceiverNested.cfg`): process is called inside of
  process while the fax decoder's dialog is open.
- `DecoderAlive` holds for the file reader only: reports of an SDRplay stay in
  the event queue when the device is disconnected and deleted, and may call a
  decoder that handle_quitButton has deleted.  rtlsdr and hackrf report in the
  same way.
- `LabelOfItsLine` of `Ft8Decoder`: a label is looked up by an index of the message
  cache, which has wrapped meanwhile.
- `PrinterReturns` without the ghost printerLate: the thread of the printer stores running
  = true when it begins; a destructor that has cleared it before waits for ever.
- `AcarsTrue` without `AcarsTold`: fixdberr is called for a block
  without parity errors only when not verbose, and radio.cpp makes the decoder verbose: a
  block whose parities are right is printed whatever its checksum says.  Without
  `SyndromHolds`: a block of 241 bytes with a wrong parity in its first one reads past the end of
  syndrom (lines 63-306 of syndrom.h: 242 rows, and the row is 242).
- `RttyTrue` without `RttyKeepsUp`: after the stop bit half a bit is waited for again, so
  that without slack in the stop each character slips by a sample, until a start is missed.
  Without `ParityAgrees`: see rtty_parity above.
- `CwTrue` without the ghost cwDisturbed: cwPreviousState is copied after cwState has
  been set, so the end of a noise spike before the end of a word takes the way of the end of a tone.
  Without `CwFollows`: speedAdjust leaves spaceFilter and cwSpaceLength as they are, and for some gaps after the
  user changed the speed letters run together or words fall apart.  The speed's box
  goes down to 0, by which DOT_MAGIC is then divided.
- `AmtorTrue` without `ZczcSeen`: the ZCZC of ZZCZC is missed since the state goes back to the start.
- `PskTrue` without `PskFlushed`, of a qpsk transmission whose last symbol ends the text: the last 63 bits are
  shown only when more symbols come.
- `AlwaysHeard` of `Rtlsdr`: since outputRate is never assigned, samples may never be
  reported.
- The ghosts `outrun` (FileReader), `early` (Rtlsdr), `late` (SpySession) and `spoiled`
  (Ft8Decoder) mark a race that has been lost, and excuse what follows from it.

## What is proved

Eight modules hold the proofs.  Each assumes no more than the assumption on its
constants (`RingAssumption`, `ServerAssumption`, `AudioAssumption`,
`ReceiverAssumption`, `Ft8Assumption`, `FaxAssumption`, `TuningAssumption`,
`DevicesAssumption`, and one for each text decoder; SpySession has none: its bounds may be anything), which TLC
evaluates in the runs.  Every safety property of the passing runs is a theorem but
one, TextTrue.

`RingBufferProofs` proves, for every ElementCount and DefaultSize for which the
module's `RingAssumption` holds, every set of elements and every set of requests,
`TypeCorrect`, `GrantsAlwaysHold` and `DataRaceFree`: Spec => [] of TypeOK, GrantsHold and
NoSharedSlot.

The inductive invariant is `Inv`: TypeOK, GrantsHold, and IdleGrants, that an idle
side is granted nothing.  NoSharedSlot alone is not inductive: from a state
where the reader has been granted more than there is, the next put collides.
GrantsHold is the reason why the ring is correct: the room a writer saw can only
have grown (only the reader moves readIndex, by no more than it was granted),
and the elements a reader saw can only have become more.  With it the slots of
the two sides are disjoint intervals modulo the size; that step is arithmetic
about `%` and has its own lemmas.  `InitInv` and `StepInv` have one step per
action.

`ImplementsFifo` is the refinement: Spec => FifoSpec, step by step under the
mapping.  A copy of the writer lands outside of the contents (`PutOutside`), the step
that stores the writer's index appends what was granted (`PutAppends`), the one that
stores the reader's index removes what was taken (`TakeRemoves`), and the others leave
the contents alone.

`SdrplayServerProofs` proves every safety property of `SdrplayServer`, for MaxCalls
a natural number of any size: `TypeCorrect`, `QueueNeverShared`, `NoDanglingRequest`,
`FrontExists`, `CallsAreServed`, `DeletedSafely`, `NoLeak`, and `EffectPromised`, a property
of steps.

None of these is inductive.  That the queue is not shared needs that a request is
in one place only: queued and announced, with the server, or answered
(`OneRequest`, a case for each place of the two threads).  That it is still there
when messageHandler returns needs that messageHandler cannot time out, which
follows from `Phases`: a status other than WAITING fixes where both threads can
be, and between the constructor's return and the destructor threadRuns holds.
`EffectKept` carries the effect of a request from the place where it is executed
to the answer, `HeldAt` says what the thread holds at each line of run, and
`CallbacksEnd` that a callback under way keeps the stream.

`SpySessionProofs` proves `ParentLives`, `ServerIsThere` and `SyncComesFirst`, for any
number of clicks, returns and messages, and so for any number of connections made
one over the other.  IInv is HandlerPhase and AwaitPhase: which of handler,
thread and flags there can be at each place of the GUI thread.  In the event loop a
connected client has a handler that streams, unless the last setConnection left
connected set; during the wait nobody clears the flag of the new handler, so what
it processes it has read.

`AudioOutProofs` proves `QuietWhenClosed`, `ActiveIsHeard`, `NothingLost` and
`FramesStayWhole`.  The first two follow from invariants of the stream's state
alone (Quiet, Plays).  NothingLost needs UpInv, which says for each place of
the converter's loops what of the chunk is in its buffer (Converting,
Converted, InnerLoop): the two loops share one variable.  FramesStayWhole needs
StereoInv: the ring holds whole frames in ascending order, all later than those
heard, and a callback is granted the first of them.

`ReceiverProofs` proves `SamplesInOrder`, `NothingBehind`, `DumpUninterrupted` and
`DecoderThere`.  IInv adds to TypeInv that the samples in the decoder, in the
decimator, and in the ring are runs of numbers that meet (RunsMeet, DumpMeets),
that a sample in the ring has an event or a call that will fetch it
(NothingStaysBehind), and what closing leaves (Closed).

`DecoderProofs` proves about FT8 `Undisturbed`, from RingInv: the semaphores and the
blocks in the hands of the threads add up to nrBlocks (SlotsAddUp), the two indices are as
far apart as there are blocks (IndicesApart), and a deleted decoder has nobody
inside (NobodyLeft); `CountExact`, from CountInv; and `AlwaysInOrder`, from OrderInv and CacheInv:
the blocks between the two indices are whole, of ascending lines, and newer than the
line decoded last (BlocksWhole, BlocksIncrease, NewerThanDecoded), also while a block is
half written or just given back; and the cache, of at least one message, knows the
one shown last (LastIsKnown).  About the fax decoder it proves `SamplesInBounds` and
`TypeCorrect` from FaxInv: FaxTypeOK, which has the range of every position and
counter, and InBounds.

About the text decoders it proves three theorems, from an inductive invariant for each
decoder and a step lemma for the list of them (`TextKeeps`: the one that is selected keeps
its invariant, the others rest).

- `TextBuffersHold`: every register, counter, buffer and index keeps its range, for every
  message, error, skew and limit; also the rows of syndrom that acars reads (`RowsHold`), but
  for that of the first byte of a block of TooLong + 1 bytes, which the statement excepts
  and syndrom.h does not have.  The types are nearly inductive.  What they lack is that a
  character of rtty lacks a bit while bits are expected, that a block of acars in TXT
  is no longer than the limit (the check comes after the write), and that what is free and
  what is filled of the printer's ring add up.
- `ViterbiFits`: no metric overflows, for every length of the paths and an int of at least
  9216 (a chunk of eight symbols needs 2304 above the half).  Two facts carry it, neither
  of which the code states.  The metrics of two states differ by 512, 1024, 1536 or 2048
  at most, depending on how many symbols ago they had a state in common
  (`Spread`, `SpreadStays`), so that looking at state 0 is enough; and of the two branches
  into a state one adds what the other takes (`DibitsTurned`, `Opposite`: both dibits are turned over by the
  bit that falls out of the register), so that the lowest metric never falls and
  the second normalisation, for INT_MIN, is never reached.
- `PrinterIsAQueue`: Spec => PrinterIsFifo, a refinement.  PrinterInv says that nextIn is as
  far in front of nextOut as slots are filled, and that a message waits exactly while
  output_msg does.  `PutAppends`: the slot that is written is none of those that
  are waiting; `TakeIsHead`: the one that is printed is the first of them.

`DevicesProofs` proves `NothingIsLeft` and `SamplesAreTrue`, the two invariants of Devices,
for a file of at least one frame, blocks of at least one, headers of at least a byte and chunks
of at least one; rings, limits, rates, bodies and bounds may be anything of their type.
A step of Devices is a step of the device that is selected (`StepOfOne`), so each device has
an inductive invariant of its own.

- What is held (`Held`): where the GUI thread is fixes what the thread may be doing
  and what is open.  Nothing is claimed of a hackrf whose constructor throws.  That a file's thread has ended when the file is closed needs that
  running stays set from the thread's first step to stopReader's, but for the
  race that the ghost outrun marks.
- `FileTrue`.  Continuous alone is not inductive: that the next block follows what is in
  the ring depends on what has been read of it and on where the file stands
  (`Played`), and that it is put whole on the room it waited for (`RoomKept`), which
  only sampleHandler changes meanwhile.  StartsAgain needs that no silence is put
  behind silence: after a block of it the position is inside the file.
- `HackrfTrue` bounds what has not been reported by sampleCnt, as it is in memory or as the
  callback has loaded it, and by `Lost`: the store of 0 in restartReader can take from it what
  was counted since the last report, no more than the limit and one callback, and can do so once.
- `TcpTrue`: readers, and whether there is a filter, follow from connected and
  gone; and the last command on its way of each kind (`Has`), or the server where there is none,
  has the value the client believes in, which sending and applying keep
  (`CommandSent`, `CommandApplied`).
- `SpyTrue` says where the messages lie.  `Laid` gives each message the place behind which it
  begins in what the ring and the wire hold, each place the one before plus header and body, so no
  sum over the messages is needed; the first is as far in front as the
  handler has read.  Receiving moves bytes from wire to ring and leaves the places;
  reading moves all of them (`LaidReceived`, `LaidRead`, `LaidSent`, `LaidProcessed`).

`TuningProofs` proves `FilterInBandwidth`, from IInv: the offset itself keeps a twentieth of
the bandwidth away from both edges, which is as far as a band that is not wide
reaches (OffsetInside), and whatever the band, it is inside once it has been tuned
(TunedInside); and `BelievedIsTrue` and `ProgramsComeBack`, from FInv: unless refused, the
frequency the receiver keeps differs from where it is by a multiple of Word32 and
the display is exact for 31 bits, and a program holds the kHz of where it was saved.

Only model-checked: all liveness (GuiNeverHangs, SyncEndsAwait, DeleteEnds,
GuiReturns, ReportsAnswered, GoesOn, BothGoOn, PictureEnds, PrinterReturns), since neither
fairness nor ENABLED is in the prover's reach; TextTrue, since what a decoder has
shown is compared with a recursive function of the whole transmission, which needs induction
over data (what of it does not is TextBuffersHold); and what is seen only in a configuration without a run.

## Not modelled

- **Arithmetic.** Filters, FFTs, demodulators, AGC, resamplers, the search for tones
  and the error correction of FT8, and most of DRM are floating point without
  control.  Where their result matters it is open in the models.
- **In the text decoders**: filters, demodulators and automatic frequency control, rtty's
  guess of the baud rate (display only), the buttons while a transmission is under way
  except for cw's speed and tracking before it begins, reversed signals of amtor and rtty, and the formats
  acars' printer knows.  fixdberr is never reached.
- **Devices that are not built** by the default project files, and SDRplay v2.
- **Widgets and scopes.**
- **Vendored trees and copies.** Most of the lines of the repository are the fdk-aac
  library, and older copies of its own directories; no project file builds the
  copies, so that the share of all lines the models stand for is small.

## The plan

Done: what carries all samples (ring), what crosses threads with the fewest
safeguards (SDRplay's server, SpyServer), the spine (receiver, audio out), the
other devices, the decoders with threads or buffers (FT8, fax), tuning, the text
decoders (amtor, rtty, acars, cw, psk).

Left, in this order:

1. A composition of Receiver and AudioOut with the ring as BoundedFifo.
2. The order of DRM's synchronisation steps.
