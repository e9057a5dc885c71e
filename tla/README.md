# SVR in TLA+

SVR (Seawolf Video Router) distributes video over TCP. A server, `svrd`, keeps
*sources*: cameras, files and test patterns that run inside it, or *client
sources* whose frames a client program sends. Programs linked with the client
library (`lib/`) open *streams*: each attaches to a source, may resize, recolour,
encode and thin out its frames, and has them delivered by a server thread of its
own. Everything is threads, recursive locks, condition variables, and objects
with reference counts that a garbage collector thread frees.

The modules here model the parts of that where the order of events matters.
TLC checks them on small instances; TLAPS proves the safety properties of eight
of them, and two refinements, for every value of the constants.

## Inventory

| Component | State | Operations | Modelled by |
|---|---|---|---|
| Request/response (`lib/comm.c`, `lib/responseset.c`) | table of request ids, pending flags, responses; the socket | `SVR_Comm_sendMessage`, the receive thread | `Comm`, `RPC`, `Comm_proofs` |
| Encoder (`lib/encoding.c`) | ring of encoded bytes | `provideData`, `readData`, `dataReady` | `EncoderBuffer`, `ByteQueue`, `Codec`, `Codec_proofs` |
| Decoder (`lib/encoding.c`) | lists of free and ready images, a write position | `decode`, `getFrame`, `returnFrame` | `Decoder`, `Codec`, `Codec_proofs`; `ClientStream` (its exchange) |
| Client streams (`lib/stream.c`, `lib/messagehandlers.c`) | dictionary of streams; per stream its state, decoder, current frame | requests, `getFrame`, `returnFrame`, `sync`, `destroy`; `provideData` and `setOrphaned` in the receive thread | `ClientStream`, `ClientStream_proofs` |
| Server streams (`server/stream.c`) | state, source, encoder, worker thread | `Stream.*` requests, the worker, `destroy` | `ServerStream`, `ServerStream_proofs` |
| Sources (`server/source.c`, `server/sources/`) | dictionary of sources; per source the current frame, closed flag, reference count | `Source.*` requests, `getFrame`, `provideData`, `destroy` | `SourceRegistry`, `SourceRegistry_proofs`, `ServerStream` |
| Clients of the server (`server/client.c`) | streams and sources of the client, its state | worker thread, `markForClosing`, replies | `ServerStream`, `SourceRegistry` |
| Reference counts (`lib/refcount.c`) | a count, a garbage queue | `ref`, `unref`, the collector | `ServerStream`, `SourceRegistry` |
| Client sources (`lib/source.c`, `server/source.c`) | at both ends: encoding, frame properties; encoder, decoder | `SVR_Source_*`, `Source.*` requests, `Data` | `ClientSource`, `ClientSource_proofs` |
| Encodings (`lib/encodings/`) | JPEG framing over chunks | `encode`, `decode` | `ClientSource` (framing) |
| Messages (`lib/message.c`, `lib/pack.c`, `lib/net.c`) | what is sent and not yet received | pack, unpack, send, receive, close | `Wire`, `Wire_proofs` |
| Memory (`lib/mempool.c`, `lib/blockalloc.c`) | free blocks, chains of chunks | alloc, reserve, free | `Arena`, `Library_proofs` |
| Routing (`lib/messagerouting.c`, `server/messagerouting.c`) | sorted tables | search | `Routing`, `Library_proofs` |
| Option strings (`lib/optionstring.c`) | a copy of the string | parse | `OptionString`, `Library_proofs` |
| Frame properties (`lib/frameproperties.c`) | none | conversion to and from text | values in `ClientSource` |
| Logging, start-up, utilities, Python binding | none of interest | | not modelled |

How they interact. A client thread calls `SVR_Comm_sendMessage` and waits; the
client's receive thread hands it the reply, or gives messages without a request
id (`Data`, `Stream.orphaned`) to the stream they name. In the server each client
has a thread that reads a request, handles it and replies; each started stream
has a worker that waits in `SVRD_Source_getFrame` of its source, encodes and
sends; each source has a provider (a thread of its own, or the thread of the
client that owns it) that calls `SVRD_Source_provideData`.

What is hard: a worker shares its stream with the client's thread mostly without
locks; sources close under the streams attached to them; clients vanish in the
middle of a frame; objects are freed by whoever drops the last reference;
condition variables are broadcast without the mutex that guards the condition;
ids are reused while answers are in flight. `hazards` in `PROJECT.json` lists
these at their lines, with the properties that would catch each going wrong.

What makes each part correct: a call gets its own answer, once, and returns; the
encoder's bytes come out as they went in and fill images without gaps; messages
arrive whole and in order; both ends of a client source agree on its encoding and
all its frames are decoded; a client gets the newest frame, once,
in an image nobody else writes; a stream that is paused, closed or orphaned comes
to rest and says so truthfully; references are exact, so nothing is freed in use
or kept for ever; a source name stands for one live source, closed by those who
may; a client that goes takes its sources with it.

## Modules

`Comm` (with `RPC`). The ResponseSet's `response_pending`, `response`, `set_size`
and `next_request_id` are `pending`, `response`, `setSize` and `nextId`. Its
operations run under one lock and are one action each: `ReuseId`, `GrowSet`,
`NoIdLeft` (`getRequestId`), `GetResponse`, and `SetResponse` in `Receive`. A
thread that waits on `new_response` is at `"wait"`, and only a broadcast moves it.
The one way to keep the lock between steps, the `return -1` of `getRequestId`
without an unlock, sets `lock`. The server (`Reply`) answers requests in order, as
a client's single server thread does, and echoes the id; `Disconnect` loses what
is in flight. A message is its id and the call it belongs to. `RPC` is what
`SVR_Comm_sendMessage` promises: one open call per thread, served at most once,
returning only its own answer.

`Codec`, composed of `EncoderBuffer` (with `ByteQueue`) and `Decoder`. A stream of
numbered bytes from an encoding, through the encoder's ring, in `Data` messages of
any size up to the payload buffer, into the images of the decoder at the other
end. `EncoderBuffer` is the ring byte by byte, with `realloc`ed memory holding
`Junk`; `Grown` is the growth, with the straightening of a wrapped ring, `Stored`
the two copies. `Decoder` has one action per round of `writePaddedFrameData` (raw,
under the lock) and `writeUnpaddedFrameData` (jpeg, without it); `getCurrentFrame`
takes two steps when no image is free, between which the application may return
one. Images are byte arrays with padded rows.

`ClientSource`. One client source at both ends: `SVR_Source_*` with the requests it
makes and waits for, and `SVRD_Source_setEncoding`, `setFrameProperties` and
`provideData` with the decoder's framing. Frame properties are the size of an
image, a jpeg has any of a few sizes, and a byte is a pair of its frame and its
place in it, so that any mix-up shows. `fault` is a length read from other bytes,
or bytes written past the jpeg decoder's buffer. Libjpeg is left out, and so is an
encoding the library does not have. `EarlyMisfit` lets the application send a
frame of the wrong size before any other.

`Wire`. One direction of a connection, written for the server's: threads that share
the socket, `SVRD_Client_sendMessage` under the client's lock, `send` in pieces,
`SVRD_Client_markForClosing`, and the client's receive thread with its peek, body
and payload. The other direction differs in the lock's name. A header field holds
what `Modulus` values can tell apart; a character is a cell; terminators are 0.
`Lose` cuts what is on its way at any cell. `Pack` and `Unpack` go through the
components one after another, as the code does, with a sum of lengths in 16 bits
(`TotalDataLength`) and an offset that each string moves past its terminator
(`PackOffset`). `RoundTrips` says of a message that unpacking gives back what was
packed; `MCWire` has TLC evaluate it, as an assumption of the run, for messages of up
to three components, of every length that fits, and for those that the run sends, and
`UnpackUndoesPack` proves it for all.

`Library`, composed of `Arena`, `OptionString` and `Routing`, which do not
interact: a behaviour is one of one of them. `Arena` has the chain of chunks of
each arena and the two block allocators under all of them; an arena is freed chunk by
chunk, from its last, and other arenas may take those blocks meanwhile. `OptionString` steps
through `SVR_parseOptionString` with the copy it writes terminators into; a character
is its class, which is all that the parser looks at. The property compares what its
pointers then point at with the form documented at `lib/optionstring.c:25-34`, taken
from the positions of the first colon, of the commas after it and of the first equals
sign between two of those: a string of that form (with its object, and options of
letters) is accepted with that object and those options, and one that is accepted is of
that form. The parser departs from it in two places, which the property names: the
object may be missing, and a value keeps the spaces after it. `Routing` steps through
the search that narrows the sorted table from both ends, over every small table.

`ServerStream`. One stream, its workers (one per effective unpause), its client's
thread, its sources and their closers and providers, the collector. Places of a
worker (`wpc`) are the points of `SVRD_Stream_worker`, `SVRD_Source_getFrame`,
`SVRD_Stream_pause` and `SVRD_Stream_sourceClosing` between which other threads
can act; `"sleep"` is the gap between the test of the condition and the wait, in
which a broadcast without the mutex is lost. `SVRD_Source_destroy` takes four
steps, and `SVRD_Stream_attachSource` three, without a lock: the old source is released
(`unref`), the pointer overwritten (`assign`), the frame properties cloned (`clone`). In
between a worker that was paused may still read the old source, freed by then.
`fault` is what kills the process. Requests that are refused change
nothing and are left out. Setting the encoding, priority and drop rate changes
nothing that is modelled here: whether a frame is skipped is a free choice.

`SourceRegistry`. Client threads open, look up, list, attach to and close sources
by name and disconnect. What runs under `sources_lock` or a source's lock is one
step, what does not is several: the name test of `rOpen` before the registration,
the type that is set after it, the stages of `destroy`, the release of the old source and
the assignment of the new one in `SVRD_Stream_attachSource`. Source objects are blocks
that may be reused. `owner`, `self` and `leaked` are history: who provides the
source, whether its own reference is still there, and the references that
`SVRD_Stream_detachSource` forgets. Sources given at start-up with `-s` are like
server sources opened by a client.

`ClientStream`. One stream between the application's thread and the receive
thread. The server has one worker per start (`wpc`), which may do what `ServerStream`
shows the code to do: send data after a pause, and after a reply to `Stream.close` that
joined only the worker started last (`server/stream.c:244`, `254-256`). It reports an
orphaning in steps (no frame, the state read again, pause, detach, message), so that
the message may follow a reply to a pause or a start, and may be false. What ends `svrd`
is left out. `SVR_Stream_unpause` destroys and replaces the decoder in two steps
without a lock; `provideData` looks the stream up in one step and decodes in another;
`getFrame` tests in one step and sleeps in another (`falling`), with the stream's lock
in between. Images carry the number of the decoder that made
them; frames are numbered in the order they are completed; encoding and frame
properties are one version number, `format`.

`MCComm`, `MCServerStream` and `MCSourceRegistry` only name model values and
symmetry sets, `MCWire` and `MCLibrary` the messages and strings; the other runs
use the modules directly.

## Runs

| Run | Checks | Bounds |
|---|---|---|
| `comm` | `TypeOK`, `ExclusiveIds`, `OwnResponse`, `NoIdLeak`, `ImplementsRPC`, `CallsReturn` | 3 threads, 2 calls each, at most 2 ids: the set grows, ids are reused and run out |
| `codec` | `TypeOK`, `ImplementsFifo`, `FramesWhole` | images of 2 rows of 2 bytes and 1 of padding, 15 bytes, pieces up to 3, 5 buffered: every wrap and growth, messages that end anywhere in a row and span frames, padded and unpadded, 2 frames held |
| `server_stream` | `TypeOK`, `FrameRefsExact`, `FramesInUseKept`, `AttachedSourceAlive` | 2 starts, 2 sources of which one may close, 2 frames, all requests |
| `server_stream_once` | `NoFault`, `PauseEndsWorkers` | one start, one source that stays, 3 frames of 2 messages, the client may vanish |
| `source_registry` | `TypeOK`, `RefsExact`, `DestroyedOnce`, `PointersAlive`, `OnlyOwnerCloses`, `GoneClientLeavesNoSource` | 2 clients, 2 names, 2 objects, 1 leaked reference per source |
| `client_stream` | `TypeOK`, `ImageOnce`, `NewestFrame`, `NoFault`, `ListUnlocked`, `DataInFormat`, `NoWakeUpMissed` | two starts, a change of format, 2 `Data` messages of 0 or 2 frames, 1 frame held |
| `client_source` | `TypeOK`, `NoOverrun`, `FramesInOrder`, `EncodedAsAgreed`, `AllDecoded` | 3 frames of 2 sizes, jpegs of 3 sizes, 3 changes of settings, payloads of 3 bytes: frames of one message and of several, a jpeg that ends with its message |
| `wire` | `TypeOK`, `ReceivedInOrder`, `NoSendAfterClose`, `AllReceived` | 2 threads, 3 messages of 3 kinds, lengths up to the most that fits a field |
| `library` | `MemoryApart`, `ParsesGrammar`, `FindsHandler` | 2 arenas, 4 chunks, sizes around a block; all strings of 5 characters and all within two edits of one with two options; tables of up to 3 strings of 2 characters, requests of up to 3 |

The bounds are the least at which each interesting case occurs: two threads of a
kind for a race, one more for a bystander; two starts for a worker, or a decoder,
that outlives its stream's restart; two names and a reused object for a close
that meets a namesake. Deadlock is not checked: clients may stop making requests,
and the counters that bound a run end it. Symmetry (of frames,
and of clients and objects) is used only in runs without liveness properties.

Some properties hold only under conditions, since the code is known to break them
otherwise. `NoFault` of `ServerStream` is checked for a single start, an open
source and no resize or re-attachment; a second start, for example, frees the
encoder that the first worker still uses. `AttachedSourceAlive` and `PointersAlive` except the pointer of a stream between the
release of its old source and the assignment of the new one; `AttachedSourceAlive` adds
that the stream is then paused. `NoFault` and `ListUnlocked` of `ClientStream` speak of
the time until the second start: after it the decoder is replaced under the receive
thread, and nobody joins the first worker. `DataInFormat` speaks of a stream that was started once and runs,
since data may follow the reply to a pause. `CallsReturn` leaves out a connection
that was lost and ids that ran out. `EncodedAsAgreed` passes where the first frame
sent fits its properties. `PauseEndsWorkers` speaks of a client
that is connected.

Three runs find what the repository says and the code does not do:

| Run | Property | What happens |
|---|---|---|
| `stream_false_orphan` | `OrphanedMeansClosed` | pause and unpause in quick succession: the stream is reported orphaned, its source is open |
| `stream_disconnect` | `DisconnectEnds` | a client vanishes; its thread joins the worker with the lock the worker waits for, and the client's sources are never released |
| `stale_encoder` | `EncodedAsAgreed` | a first frame of the wrong size is refused, but leaves an encoder behind; an encoding set successfully after that does not reach it, and the server decodes the next frame as something it is not |

The modules follow the code in more places where it does not do what one would
expect. These have no run of their own:

- A closing source sets `closed` and broadcasts `new_frame` without the mutex of
  the condition. Between a worker's test and its wait the broadcast is lost, and
  the worker sleeps for good, though `server/source.c:240` says "Wake up any
  SVRD_Source_getFrame calls" (`ServerStream!WakeUp`, the place `"sleep"`).
- Two clients that open a server source of one name at once both pass the test of
  the name; the second one's `SVRD_Source_new` returns `NULL`, which is used before
  it is tested (`server/sources/test.c:69`; `SourceRegistry!NewServer`).
- Option values lose the whitespace before them and keep the whitespace after,
  where `lib/optionstring.c:33` says that "trailing and leading whitespace will be
  removed"; an option string without object is accepted with a null `%name`, where
  line 30 says that the object is required (`OptionString!ReadValue`, `ReadObject`).
- `SVRD_Stream_attachSource` gives up its reference to the old source
  (`server/stream.c:74`) before it overwrites the pointer (`:77`), without a lock. If
  that source is closed it may be freed in between, and a worker that was paused but
  has not ended reads it (`ServerStream!UnrefSource`, `AssignSource`; `SourceRegistry!Attach`,
  `Assign`).
- `SVRD_Stream_destroy` joins the worker that was started last (`server/stream.c:244`,
  `254-256`). One started earlier may send `Data` after the reply to `Stream.close`; the
  client then has no stream of that name, and `SVR_Stream_provideData` returns with
  `stream_list_lock` locked (`lib/stream.c:599-601`; `ClientStream!ServeClose`,
  `Unknown`). A second start also frees the encoder that the first worker reads
  (`server/stream.c:60`).
- `Stream.getInfo` on a stream whose source has closed reads frame properties that are
  null, and ends `svrd` (`server/messagehandlers.c:83`; `ServerStream!RGetInfo`).
- `SVR_Stream_unpause` destroys the decoder and opens the next without the stream's
  lock, while the receive thread may be decoding (`lib/stream.c:414`;
  `ClientStream!Crash`).
- A message whose components take more than 65535 bytes is packed into a buffer of
  its length modulo 65536 (`Wire!TotalDataLength`; `WireAssumption` leaves it out).
- `SVRD_Client_worker` does not look at the result of `SVR_Net_receivePayload`, and
  hands a message on whose payload was cut off.
- With no request id left, `getRequestId` returns -1 and keeps the lock of the
  response set: every later call hangs (`Comm!NoIdLeft`).
- A worker that has encoded a frame sends it after the reply to a pause
  (`ServerStream!SendChunk`).
- `SVRD_Stream_detachSource` drops the pointer to the source and not the
  reference, so a source that a stream was attached to is never freed
  (`leaked` in `SourceRegistry`, `Clear` and `Join` in `ServerStream`).
- A close by name that meets a server source before `SVRD_Source_openInstance`
  has set its type is refused as if a client owned it
  (`SourceRegistry!CloseRefused`).
- The same join with the lock held makes a `Stream.close` of a live stream hang
  when the worker is about to pause it (`ServerStream!Destroy`, `Pause`).
- `SVR_Stream_unpause` sets the state after its reply has come, and so undoes the
  pause of an orphaning in between: `getFrame` then sleeps for good
  (`ClientStream!UnpauseDone`).
- `SVR_Stream_sync` returns on any news, an orphaning included, and with the flag
  of news already seen (`ClientStream!Sync`).
- `SVR_Stream_returnFrame` gives a frame to the decoder of the moment, which may
  not be the one that made it (`ClientStream!ReturnFrame`).

## Fairness

`Comm`: the client's threads and the receive thread run, and a connected server
answers; calls need not be made, and the connection may fail at any time. Weak
fairness is enough, since a thread that can take the lock can go on taking it
until it does. `ServerStream`: strong fairness for workers, because a mutex that
is released again and again is eventually granted, and weak fairness for the
client's thread inside a handler, the closer and the collector. `PauseEndsWorkers`
and the run `stream_disconnect` also assume sources that keep delivering, as
cameras and the test source do.
`ClientSource`: the client's thread inside a call and the server's thread run.
`Wire`: a thread that has begun to send goes on, and the receive thread runs; the
lock is held while a message is sent and so cannot be waited for in vain.
In none of them does the application have to call anything.

## Proofs

Each `X_proofs` extends `X` and proves, for every value of its constants, the safety
properties that the runs check on small ones. None of these is inductive as it
stands. Each module therefore states an invariant `IInv` (`Library_proofs` one for each
of its three parts), as a conjunction of named parts; TLC checked it on the instance of the run before it was proved; there is one
lemma per action (or per kind of action) that the action keeps `IInv`; and the
theorems follow from it.

| Module | Theorems | Property |
|---|---|---|
| `Comm_proofs` | `CommInvariant`, `TypeOKAlways`, `ExclusiveIdsAlways`, `OwnResponseAlways`, `NoIdLeakAlways`, `CommImplementsRPC` | all of `comm` but liveness |
| `SourceRegistry_proofs` | `RegistryInvariant`, `RegistryTypes`, `ReferencesExact`, `ClosedByOne`, `NoDanglingSource`, `ClosedByOwner`, `GoneClientCleansUp` | all of `source_registry` |
| `ServerStream_proofs` | `StreamInvariant`, `StreamTypes`, `FrameReferencesExact`, `NoFrameReused`, `AttachedSourceKept`, `StartedOnceNoFault` | all of `server_stream`; `NoFault` of `server_stream_once` |
| `Codec_proofs` | `CodecInvariant`, `CodecTypes`, `RingIsFifo`, `FramesAreWhole` | all of `codec` |
| `ClientStream_proofs` | `ClientStreamInvariant`, `ClientStreamTypes`, `OffersNewest`, `StartedOnceNoFault`, `HandlersFindStream`, `DecodesItsFormat`, `ImagesOnce`, `NoSleepPastNews` | all of `client_stream` |
| `ClientSource_proofs` | `ClientSourceInvariant`, `ClientSourceTypes`, `DecoderStaysInside`, `FramesKeepTheirBytes`, `EndsAgree` | all of `client_source` but liveness |
| `Wire_proofs` | `UnpackUndoesPack`, `ClosedSocketUnused`, `WireInvariant`, `WireTypes`, `MessagesArriveInOrder` | all of `wire` but liveness |
| `Library_proofs` | `SearchFindsHandler`, `MemoryStaysApart`, `StringsParsed` | all of `library` |

### Assumptions

They are on the constants, in the module that declares them, and TLC evaluates them
in every run: the bounds are natural numbers, sizes are positive, `NULL` (and `Junk`,
`Free`, `Server`) is none of the values it stands beside, and the sets whose members
are counted (clients, sources) are finite. Three say more. `ClientSource` assumes that
the length before a jpeg fits the payload buffer (`LengthBytes <= PayloadSize`; in
the code 4 bytes and 4 kB, `lib/source.c:50`). `Wire` assumes that components hold no
terminator and that the lengths of a message fit its header, and `Library` that request
strings and option strings hold none (they are strings of C).

Some theorems have a hypothesis, which is part of their statement:

- `StartedOnceNoFault` of `ServerStream`: `StartedOnce`, one start on a source that
  stays, without resize or re-attachment. `NoFault` is false otherwise.
- `StartedOnceNoFault` and `HandlersFindStream` of `ClientStream` have theirs in the
  properties, which speak of the time until the second start.
- `ClientSource`: `~EarlyMisfit`, the first frame sent fits its properties. Otherwise
  `EncodedAsAgreed` is false, as the run `stale_encoder` shows.

### Arguments

*`Comm`.* A reply is matched by its id only, so a stale one would be accepted; the
argument for `OwnResponse` is that there is none. An id stays pending from
`getRequestId` until the answer is taken (`IdsHeld`), so it has one user
(`ExclusiveIds`); each call puts one message into the socket, which moves from
requests to replies to the entry (`MessagesOnce`, `EntriesOwn`) and is there only
while its call is open (`MessagesBelong`). So when a call ends, nothing of it is
left anywhere, and its id can be given to the next one. The caller that got -1
keeps the lock and is kept apart throughout: its messages carry the id 0. For the
refinement a call is *served* while its answer is in the replies or in its entry:
`Reply` is `Serve`, `GetResponse` is `Return`, `Disconnect` is `Lose`, and `Receive`
changes nothing. The proofs hold for any growth step, where the run `comm` grows the
set by one id at a time and so never leaves an uninitialised entry pending.

*`SourceRegistry`.* A client that is closing uses the sources it provides without a
reference to them. That is safe because nobody else closes them: `Lifetime` says what
each thread knows of its source at each place (`OpeningKnown`, `ClosingKnown`), that
the entries a client may still use are its own open sources (`MineOpen`), that it has
all of them (`OwnedTracked`), and that one opener and one closer work on a source
(`Alone`). A stream keeps its source alive from the assignment on: while it is attached
anew, the old source is no longer the stream's (`Attached`). `RefsExact` is a count of threads; `Counting` is the lemma for a set that
one client joins or leaves, `Referenced` the one that makes a count positive where a
reference is used.

*`ServerStream`.* Frame counts are as in the registry. Source counts are only bounded
from below (`SourcesCounted`), since `SVRD_Stream_detachSource` leaks references; the
stream's own reference is given up by `unref` and counts again from the assignment on,
and in between the stream is paused. That
the encoder holds no more than the workers can have left there needs to know which of
them may have (`Senders`): one that failed to send pauses the stream, and a start
empties the encoder. For a stream that is started once, `Once` says that its worker is
the one that is joined, never finds the source closed, and has a frame to take whenever
it stops waiting.

*`Codec`.* The unread part of the ring is a sequence (`Unread`); reading drops its
front, providing appends to it, and growth, with its straightening of a wrapped ring,
leaves it as it is: that is the refinement `RingIsFifo`. For `FramesWhole` the bytes
that the decoder was given, those still in a message and those in the ring are
consecutive numbers (`FlowOK`), and the image under construction holds its frame's bytes
up to the write position: in one run (`FlatOK`) or row by row around the padding
(`RowOK`). No image is in two places (`ImagesApart`), so a finished one is not
written again.

*`ClientStream`.* A request has one reply, in the socket or handed over (`ReplyOK`).
`WorkersOK` says which workers there may be: none before the first start, one until the
second, which is the one that the close joins. So until the second start data and
orphanings come only while the stream is in the dictionary (`ListedOK`), the reply to a
close being the last message of the stream (`CloseOK`), and `stream_list_lock` is not
left locked. What was news before a caller slept would have been seen by its test, and
what comes between the test and the wait needs the lock it holds (`WaitingOK`). `StartOK` ties the decoder to the last start
and `FormatOK` the formats at both ends to the request under way. For the images,
`ImagesApart` says that each is in at most one place, and `ImagesMade` that the
decoder's own are all there and that no later decoder's can be.

*`ClientSource`.* Client and server change their encoding and properties one after the
other; `AgreeOK` says that they differ only between the server's reply and its arrival,
when no encoder exists (`CodingOK`). The bytes in the encoder, in the messages, in the
one being handled and in the decoder are consecutive pieces of the frames sent
(`FlowOK`, `Piece`, `After`): no piece begins within the length of a jpeg, which is why
the payload buffer has to hold one, and the decoder reads every length at the
beginning of a frame (`DecoderOK`).

*`Wire`.* `LockOK` alone gives `NoSendAfterClose`: the state is set under the lock that
a sender holds to the end, and the socket is closed after that. For
`ReceivedInOrder`, the messages begun and not yet received lie end to end in the stream
of cells: there are offsets (`Placed`), negative for what was already received, such that
every cell in the socket is the one its message has there; the next message begins where
the receive thread stands (`Start`), the last ends where the socket does, plus what the
thread with the lock has still to send (`Left`) unless the connection is lost. So the
length peeked at is the next message's, and body and payload end where it does.

That needs every message to round-trip (`UnpackUndoesPack`), which is an induction over
its components. It is done by a least counterexample: where a fact about the first `n`
components failed there would be a first such `n`, and its step from `n - 1` refutes it.
So the sum of the lengths is the length of what was packed, the `n`-th component starts
where the ones before it end, and, since no component holds a terminator, the `n`-th
offset of `Unpack` is its terminator.

*`Library`.* Three invariants, one per part. Of the search (`SearchOK`): the entries
between the two ends agree with the request on the characters compared so far, and no
entry outside is the request. In a sorted table the next characters of those entries
are sorted too (`SortedChars`), so raising the lower end and lowering the upper one
leaves exactly those with the request's character; at the request's terminator the
entry there is the request. Of the arenas (`ArenaOK`): each block of an allocator is
free or in one chunk (`Once`), which taking, growing and returning keep (`TakeOnce`,
`GrowOnce`, `PutOnce`), an external chunk being in no block (`SkipOnce`); each
reservation ends within the used part of its chunk and begins where an earlier one there
has ended (`ReservedOK`). `SVR_Arena_reserve` tests for room with the block size, not
the chunk's own: that is right because an external chunk is full, and longer than a
block, from the start (`ChunkOK`). Of the parser (`ParserOK`): before each step the copy
is still the string from the offset on, since terminators are only written behind it
(`Copy`); the object and the options stored so far are those of the grammar, and each
pointer is to a text that a terminator before the offset ends (`PointsAt`), so that no
later one can spoil it; and the offset is behind the comma, or the equals sign, of the
next option, whose number is that of the commas passed (`OptionPlace`, `ValuePlace`).
The rest relates what the parser skips to the positions of the grammar (`KeyRead`,
`ValueRead`, `KeyNot`): where the parser gives up the string is not of the documented
form, the comma with nothing behind it included (`LastBlank`), and a value that is
stored is the documented one with the spaces after it (`IsPadded`).

### Only model-checked

Liveness (`CallsReturn`, `PauseEndsWorkers`, `AllDecoded`, `AllReceived`)
needs fairness and `ENABLED`, which this prover does not handle. All other properties
of the passing runs are proved.

## Plan

1. Done: all modules and runs above, and the proofs of the eight specifications.
2. Candidates for more: the hazards without a property (those with only a note in `PROJECT.json`), and
   the values of frame properties.

## Not modelled

- Image processing (OpenCV), JPEG compression (libjpeg), V4L devices, logging, the
  utilities and the Python binding: no state that the other parts depend on.
- The drop rate with its counter: whether a worker skips a frame is a free choice.
  That a rate set to 0 between `server/stream.c:341` and `342` divides by zero is
  therefore not seen.
- The values of frame properties: that the server refuses a number of channels a
  client asks for, and the text form of `SVR_FrameProperties_fromString`.
- The accept loop, the list of clients and the count of client threads: only
  `SVRD_Client_close` reads them, which nothing calls.
- Races within a single list operation of `libseawolf`, where
  `writeUnpaddedFrameData` and `returnFrame` meet without a common lock: an append
  or a removal is one step.
