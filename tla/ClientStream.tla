---------------------------- MODULE ClientStream ----------------------------
(***************************************************************************)
(* One stream of the client library (lib/stream.c) with its decoder        *)
(* (lib/encoding.c), between two threads of a client program:              *)
(*                                                                         *)
(*   the application     opens the stream, makes requests and waits for    *)
(*                       each reply, takes and returns frames, destroys it;*)
(*   the receive thread  hands replies to the application, and runs        *)
(*                       SVR_Stream_provideData and SVR_Stream_setOrphaned *)
(*                       on what the server sends (lib/messagehandlers.c). *)
(*                                                                         *)
(* The stream's lock is held by getFrame, setOrphaned and provideData.     *)
(* provideData takes two steps, since SVR_Stream_unpause replaces the      *)
(* decoder without a lock; so does getFrame when it falls asleep.  Left    *)
(* out: the image data.  A Data message completes some number of frames,   *)
(* which are numbered as they are completed.                               *)
(*                                                                         *)
(* The server is what server/stream.c and server/messagehandlers.c are to  *)
(* this stream.  Each start has its worker thread; Stream.close joins the  *)
(* one started last, so an earlier one may run, and send, after the reply. *)
(* What such a worker reads is freed: it may read anything.  Left to       *)
(* ServerStream: the lock a worker never gets, and what svrd dies of.      *)
(***************************************************************************)
EXTENDS Naturals, Sequences, SequencesExt, FiniteSets

CONSTANTS MaxStarts,   \* bound: calls of SVR_Stream_unpause
          MaxSets,     \* bound: changes of encoding, size or colour mode
          MaxData,     \* bound: Data messages sent by the server
          PerMessage,  \* bound: how many frames one Data message may complete
          MaxHeld,     \* bound: frames the application holds at once
          Requests,    \* the requests the application makes of an open stream
          NULL

Image  == (1 .. MaxStarts) \X Nat
Frame  == [image : Image, frame : Nat]
Ops    == {"none", "open", "attach", "getInfo", "set", "unpause", "pause", "close"}
Format == 0 .. MaxSets
Reply   == [kind : {"reply"}, ok : BOOLEAN, format : Format]
Data    == [kind : {"data"}, frames : PerMessage, format : Format]
Message == Reply \cup Data \cup {[kind |-> "orphaned"]}

Workers == 1 .. MaxStarts   \* SVRD_Stream_worker, by their start

ASSUME ClientStreamAssumption == /\ Requests \subseteq {"set", "unpause", "pause", "close"}
                                 /\ {MaxStarts, MaxSets, MaxData, MaxHeld} \subseteq Nat
                                 /\ PerMessage \subseteq Nat
                                 /\ NULL \notin Frame /\ NULL \notin Message

VARIABLES
  \* The application's thread
  pc,         \* where it is
  op,         \* the request it waits for, or none
  held,       \* the frames it has from getFrame and has not returned
  \* The stream (SVR_Stream)
  known,      \* it is in the dictionary streams
  state,      \* stream->state
  orphaned,   \* stream->orphaned
  current,    \* stream->current_frame
  format,     \* stream->encoding and frame_properties, by their version
  newData,    \* new_global_data
  listLock,   \* stream_list_lock was left locked
  \* Its decoder (SVR_Decoder): one per start, 0 for NULL
  decoder, decFormat, free, made,
  dangling,   \* stream->decoder points to a decoder that was destroyed
  \* The receive thread
  receiving,  \* the Data message provideData is at work on, or NULL
  answer,     \* the reply it has handed to the application, or NULL
  \* The server and the connection
  socket,     \* the messages on their way to the client
  server,     \* the server's side of the stream: its state, worker (the last one), source
              \* and format
  wpc,        \* where each of its workers is
  starts, sets, sent,   \* counters for the bounds
  done,       \* the frames completed so far
  fault       \* the process used a null or freed decoder

app    == <<pc, op, held>>
stream == <<known, state, orphaned, current, format>>
global == <<newData, listLock>>
dec    == <<decoder, decFormat, free, made, dangling>>
remote == <<server, wpc>>
bounds == <<starts, sets, sent>>
vars   == <<app, stream, global, dec, receiving, answer, socket, remote, bounds, done, fault>>

TypeOK == /\ pc \in {"new", "sent", "served", "idle", "falling", "asleep", "woken",
                     "syncing", "synced", "redecode", "gone"}
          /\ op \in Ops
          /\ held \subseteq Frame
          /\ known \in BOOLEAN
          /\ state \in {"PAUSED", "UNPAUSED"}
          /\ orphaned \in BOOLEAN
          /\ current \in Frame \cup {NULL}
          /\ format \in Format
          /\ newData \in BOOLEAN /\ listLock \in BOOLEAN
          /\ decoder \in 0 .. MaxStarts /\ decFormat \in Format
          /\ free \in Seq(Image) /\ made \in Nat /\ dangling \in BOOLEAN
          /\ receiving \in Data \cup {NULL}
          /\ answer \in Reply \cup {NULL}
          /\ socket \in Seq(Message)
          /\ server \in [state : {"none", "PAUSED", "UNPAUSED", "destroying", "closed"},
                         worker : 0 .. MaxStarts, attached : BOOLEAN,
                         source : {"open", "closed"}, format : Format, sends : Format]
          /\ wpc \in [Workers -> {"off", "loop", "null", "pause", "detach", "clear", "notify"}]
          /\ starts \in 0 .. MaxStarts /\ sets \in 0 .. MaxSets /\ sent \in 0 .. MaxData
          /\ done \in Nat /\ fault \in BOOLEAN

Init == /\ pc = "new" /\ op = "none" /\ held = {}
        /\ known = FALSE /\ state = "PAUSED" /\ orphaned = FALSE /\ current = NULL /\ format = 0
        /\ newData = FALSE /\ listLock = FALSE
        /\ decoder = 0 /\ decFormat = 0 /\ free = << >> /\ made = 0 /\ dangling = FALSE
        /\ receiving = NULL /\ answer = NULL /\ socket = << >>
        /\ server = [state |-> "none", worker |-> 0, attached |-> FALSE, source |-> "open",
                     format |-> 0, sends |-> 0]
        /\ wpc = [w \in Workers |-> "off"]
        /\ starts = 0 /\ sets = 0 /\ sent = 0 /\ done = 0 /\ fault = FALSE

-----------------------------------------------------------------------------
(* The server, as this client sees it. *)

Send(m) == socket' = Append(socket, m)

\* A request is handled: the new state of the stream, and whether it succeeded.
Serve(o, s, ok) == /\ ~fault /\ pc = "sent" /\ op = o
                   /\ server' = s
                   /\ Send([kind |-> "reply", ok |-> ok, format |-> s.format])
                   /\ pc' = "served"
                   /\ UNCHANGED <<op, held, stream, global, dec, receiving, answer, bounds, done,
                                  fault>>

ServeOpen   == Serve("open", [server EXCEPT !.state = "PAUSED"], TRUE) /\ UNCHANGED wpc
ServeAttach == LET ok == server.source = "open"
               IN  Serve("attach", [server EXCEPT !.attached = ok], ok) /\ UNCHANGED wpc

\* A stream without a source has no frame properties: svrd does not survive this.
ServeGetInfo == server.attached /\ Serve("getInfo", server, TRUE) /\ UNCHANGED wpc

\* SVRD_Stream_resize, setChannels and setEncoding, of a paused stream ...
ServeFormat  == /\ server.state = "PAUSED"
                /\ Serve("set", [server EXCEPT !.format = sets], TRUE)
                /\ UNCHANGED wpc
\* ... are refused otherwise, and for a bad argument ...
ServeRefusal == Serve("set", server, FALSE) /\ UNCHANGED wpc
\* ... while setPriority and setDropRate leave the format alone.
ServeOther   == Serve("set", server, TRUE) /\ UNCHANGED wpc

\* The reply is SUCCESS even if there is no source to start.
ServeUnpause == IF server.state = "PAUSED" /\ server.attached
                  THEN LET w == server.worker + 1
                       IN  /\ Serve("unpause", [server EXCEPT !.state = "UNPAUSED", !.worker = w,
                                                              !.sends = server.format], TRUE)
                           /\ wpc' = [wpc EXCEPT ![w] = "loop"]
                  ELSE Serve("unpause", server, TRUE) /\ UNCHANGED wpc
ServePause   == Serve("pause", [server EXCEPT !.state = "PAUSED"], TRUE) /\ UNCHANGED wpc

\* SVRD_Client_closeStream pauses the stream; SVRD_Stream_destroy takes its lock ...
ServeClosing == /\ ~fault /\ pc = "sent" /\ op = "close"
                /\ server.state \in {"PAUSED", "UNPAUSED"}
                /\ server' = [server EXCEPT !.state = IF @ = "UNPAUSED" THEN "PAUSED"
                                                     ELSE "destroying"]
                /\ UNCHANGED <<app, stream, global, dec, receiving, answer, socket, wpc, bounds,
                               done, fault>>

\* ... and joins the worker that was started last, before the reply.
ServeClose   == /\ server.state = "destroying"
                /\ server.worker # 0 => wpc[server.worker] = "off"
                /\ Serve("close", [server EXCEPT !.state = "closed"], TRUE)
                /\ UNCHANGED wpc

\* What a worker may read in stream->state.
Reads(s) == \/ server.state \in {s, "closed"}
            \/ s = "PAUSED" /\ server.state = "destroying"

\* Worker w goes on from one place to another.
Goto(w, from, to) == /\ ~fault /\ wpc[w] = from
                     /\ wpc' = [wpc EXCEPT ![w] = to]
                     /\ UNCHANGED <<app, stream, global, dec, receiving, answer, bounds, done,
                                    fault>>

\* SVRD_Stream_worker sends part of an encoded frame, even if paused meanwhile; a
\* frame it preprocesses after a change has the new format ...
SendData(w) == /\ ~fault /\ wpc[w] = "loop" /\ sent < MaxData
               /\ \E n \in PerMessage, f \in {server.sends, server.format} :
                    Send([kind |-> "data", frames |-> n, format |-> f])
               /\ sent' = sent + 1
               /\ UNCHANGED <<app, stream, global, dec, receiving, answer, remote, starts, sets,
                              done, fault>>

\* ... ends when it finds the stream paused ...
WorkerEnds(w) == /\ Reads("PAUSED")
                 /\ Goto(w, "loop", "off")
                 /\ UNCHANGED <<socket, server>>

\* ... and gets no frame of a closed source or for a paused stream.  It reads the state
\* again: a stream that is not paused, by now, has lost its source.
NoFrame(w)  == /\ Reads("PAUSED") \/ server.source = "closed"
               /\ Goto(w, "loop", "null")
               /\ UNCHANGED <<socket, server>>
Recheck(w)  == \E s \in {"PAUSED", "UNPAUSED"} :
                 /\ Reads(s)
                 /\ Goto(w, "null", IF s = "UNPAUSED" THEN "pause" ELSE "off")
                 /\ UNCHANGED <<socket, server>>

\* SVRD_Stream_sourceClosing: pause the stream, detach it (unless it was started again
\* by now) and tell the client.
PauseIt(w)  == /\ server.state # "destroying"
               /\ server' = IF server.state = "UNPAUSED" THEN [server EXCEPT !.state = "PAUSED"]
                            ELSE server
               /\ Goto(w, "pause", "detach")
               /\ UNCHANGED socket
Detach(w)   == \E s \in {"PAUSED", "UNPAUSED"} :
                 /\ Reads(s)
                 /\ Goto(w, "detach", IF s = "UNPAUSED" THEN "notify" ELSE "clear")
                 /\ UNCHANGED <<socket, server>>
Clear(w)    == /\ server' = [server EXCEPT !.attached = FALSE]
               /\ Goto(w, "clear", "notify")
               /\ UNCHANGED socket
Orphan(w)   == /\ Send([kind |-> "orphaned"])
               /\ Goto(w, "notify", "off")
               /\ UNCHANGED server

SourceCloses == /\ ~fault /\ server.source = "open"
                /\ server' = [server EXCEPT !.source = "closed"]
                /\ UNCHANGED <<app, stream, global, dec, receiving, answer, socket, wpc, bounds,
                               done, fault>>

ServerStep == \/ ServeOpen \/ ServeAttach \/ ServeGetInfo \/ ServeFormat \/ ServeRefusal
              \/ ServeOther \/ ServeUnpause \/ ServePause \/ ServeClosing \/ ServeClose

WorkerStep(w) == \/ SendData(w) \/ WorkerEnds(w) \/ NoFrame(w) \/ Recheck(w) \/ PauseIt(w)
                 \/ Detach(w) \/ Clear(w) \/ Orphan(w)

-----------------------------------------------------------------------------
(* Requests of the application: each waits for its reply. *)

Call(o) == op' = o /\ pc' = "sent"

Return(place) == op' = "none" /\ pc' = place

\* SVR_Stream_new and SVR_Stream_open: three requests, then the dictionary.
New == /\ ~fault /\ pc = "new"
       /\ Call("open")
       /\ UNCHANGED <<held, stream, global, dec, receiving, answer, socket, remote, bounds, done,
                      fault>>

\* The reply has come: what the function that waits for it does next.
Answered(o) == /\ ~fault /\ pc = "served" /\ op = o /\ answer # NULL
               /\ answer' = NULL
               /\ UNCHANGED <<held, orphaned, current, receiving, socket, remote, bounds, done,
                              fault>>

OpenDone == /\ Answered("open")
            /\ Call("attach")
            /\ UNCHANGED <<known, state, format, global, dec>>

AttachDone == /\ Answered("attach")
              /\ IF answer.ok THEN Call("getInfo") ELSE Return("gone")
              /\ UNCHANGED <<known, state, format, global, dec>>

\* SVR_Stream_updateInfo; a stream that is being opened is saved now.
InfoDone == /\ Answered("getInfo")
            /\ ~listLock
            /\ format' = answer.format
            /\ known' = TRUE
            /\ Return("idle")
            /\ UNCHANGED <<state, global, dec>>

\* SVR_Stream_setEncoding and the like end with SVR_Stream_updateInfo.
SetDone == /\ Answered("set")
           /\ IF answer.ok THEN Call("getInfo") ELSE Return("idle")
           /\ UNCHANGED <<known, state, format, global, dec>>

PauseDone == /\ Answered("pause")
             /\ state' = "PAUSED"
             /\ Return("idle")
             /\ UNCHANGED <<known, format, global, dec>>

UnpauseDone == /\ Answered("unpause")
               /\ state' = "UNPAUSED"
               /\ Return("idle")
               /\ UNCHANGED <<known, format, global, dec>>

\* The rest of SVR_Stream_destroy.
CloseDone == /\ Answered("close")
             /\ ~listLock /\ receiving = NULL
             /\ known' = FALSE
             /\ decoder' = 0 /\ free' = << >>
             /\ Return("gone")
             /\ UNCHANGED <<state, format, global, decFormat, made, dangling>>

Idle == ~fault /\ pc = "idle"

Request(o) == Idle /\ o \in Requests /\ Call(o)

Pause == /\ Request("pause")
         /\ UNCHANGED <<held, stream, global, dec, receiving, answer, socket, remote, bounds,
                        done, fault>>

\* Mutant: the stream leaves the dictionary before the server has closed it.
CloseUnlistedFirst ==
  /\ Request("close")
  /\ known' = FALSE
  /\ UNCHANGED <<held, state, orphaned, current, format, global, dec, receiving, answer, socket,
                 remote, bounds, done, fault>>

\* Mutant: the decoder is destroyed before the server has closed the stream.
CloseNoDecoder ==
  /\ Request("close")
  /\ decoder' = 0 /\ free' = << >>
  /\ UNCHANGED <<held, stream, global, decFormat, made, dangling, receiving, answer, socket,
                 remote, bounds, done, fault>>

Close == /\ Request("close")
         /\ UNCHANGED <<held, stream, global, dec, receiving, answer, socket, remote, bounds,
                        done, fault>>

Set == /\ Request("set")
       /\ sets < MaxSets /\ sets' = sets + 1
       /\ UNCHANGED <<held, stream, global, dec, receiving, answer, socket, remote, starts, sent,
                      done, fault>>

\* SVR_Stream_unpause: the old decoder is destroyed, with the frames in its lists ...
Unpause == /\ Idle /\ "unpause" \in Requests
           /\ starts < MaxStarts /\ starts' = starts + 1
           /\ dangling' = (decoder # 0)
           /\ free' = << >>
           /\ op' = "unpause" /\ pc' = "redecode"
           /\ UNCHANGED <<held, stream, global, decoder, decFormat, made, receiving, answer,
                          socket, remote, sets, sent, done, fault>>

\* Mutant: the decoder is opened for the format the stream had at first.
RedecodeStale == /\ ~fault /\ pc = "redecode"
                 /\ decoder' = starts
                 /\ decFormat' = 0
                 /\ made' = 0 /\ dangling' = FALSE
                 /\ pc' = "sent"
                 /\ UNCHANGED <<op, held, stream, global, free, receiving, answer, socket, remote,
                                bounds, done, fault>>

\* ... and a new one opened in its place, before the server is asked.
Redecode == /\ ~fault /\ pc = "redecode"
            /\ decoder' = starts
            /\ decFormat' = format
            /\ made' = 0 /\ dangling' = FALSE
            /\ pc' = "sent"
            /\ UNCHANGED <<op, held, stream, global, free, receiving, answer, socket, remote,
                           bounds, done, fault>>

-----------------------------------------------------------------------------
(* Frames, for the application. *)

\* Mutant: a wait that ends without a frame counts as one with a frame.
TakeUnchecked == /\ held' = held \cup {current}
                 /\ current' = NULL
                 /\ pc' = "idle"

Take == /\ held' = IF current = NULL THEN held ELSE held \cup {current}
        /\ current' = NULL
        /\ pc' = "idle"

\* Mutant: getFrame does not lock the stream.
NotLocked == FALSE

\* getFrame, about to sleep, has the stream's lock.
Locked == pc = "falling"

\* The loop of SVR_Stream_getFrame: wait until there is a frame or the stream is not
\* started ...
WaitOrTake(wait) ==
  /\ receiving = NULL
  /\ \/ /\ current = NULL /\ wait /\ state = "UNPAUSED"
        /\ pc' = "falling"
        /\ UNCHANGED <<held, current>>
     \/ /\ ~(current = NULL /\ wait /\ state = "UNPAUSED")
        /\ Take
  /\ UNCHANGED <<op, known, state, orphaned, format, global, dec, receiving, answer, socket,
                 remote, bounds, done, fault>>

GetFrame(wait) == Idle /\ Cardinality(held) < MaxHeld /\ WaitOrTake(wait)
Woken          == ~fault /\ pc = "woken" /\ WaitOrTake(TRUE)

\* ... asleep, without the lock, in pthread_cond_wait.
FallAsleep == /\ ~fault /\ pc = "falling"
              /\ pc' = "asleep"
              /\ UNCHANGED <<op, held, stream, global, dec, receiving, answer, socket, remote,
                             bounds, done, fault>>

\* SVR_Stream_returnFrame, to whichever decoder the stream has now.
ReturnFrame(f) == /\ Idle /\ f \in held
                  /\ held' = held \ {f}
                  /\ free' = Append(free, f.image)
                  /\ UNCHANGED <<pc, op, stream, global, decoder, decFormat, made, dangling,
                                 receiving, answer, socket, remote, bounds, done, fault>>

\* SVR_Stream_sync
Sync == /\ Idle
        /\ newData' = FALSE
        /\ pc' = IF newData THEN "idle" ELSE "syncing"
        /\ UNCHANGED <<op, held, stream, listLock, dec, receiving, answer, socket, remote, bounds,
                       done, fault>>

Synced == /\ ~fault /\ pc = "synced"
          /\ newData' = FALSE
          /\ pc' = "idle"
          /\ UNCHANGED <<op, held, stream, listLock, dec, receiving, answer, socket, remote,
                         bounds, done, fault>>

-----------------------------------------------------------------------------
(* The receive thread. *)

Arrives(kind) == /\ ~fault /\ receiving = NULL /\ socket # << >>
                 /\ Head(socket).kind = kind
                 /\ socket' = Tail(socket)

ReceiveReply == /\ Arrives("reply")
                /\ answer' = Head(socket)
                /\ UNCHANGED <<app, stream, global, dec, receiving, remote, bounds, done, fault>>

\* new_global_data is set, and whoever waits for it woken; so are the callers of
\* getFrame when they are to be.
Notify(frame) == /\ newData' = TRUE
                 /\ pc' = IF pc = "syncing" THEN "synced"
                          ELSE IF pc = "asleep" /\ frame THEN "woken" ELSE pc

\* A handler that finds no stream of the name returns without unlocking the list.
Unknown == /\ listLock' = TRUE
           /\ UNCHANGED <<pc, state, orphaned, newData, receiving>>

\* SVR_Stream_setOrphaned
SetOrphaned == /\ Arrives("orphaned")
               /\ ~listLock /\ ~(known /\ Locked)
               /\ IF known THEN /\ orphaned' = TRUE
                                /\ state' = "PAUSED"
                                /\ Notify(TRUE)
                                /\ UNCHANGED <<listLock, receiving>>
                           ELSE Unknown
               /\ UNCHANGED <<op, held, known, current, format, dec, answer, remote, bounds, done,
                              fault>>

\* SVR_Stream_provideData: look the stream up and lock it ...
ProvideData == /\ Arrives("data")
               /\ ~listLock /\ ~(known /\ Locked)
               /\ IF known THEN /\ receiving' = Head(socket)
                                /\ UNCHANGED <<pc, state, orphaned, global>>
                           ELSE Unknown
               /\ UNCHANGED <<op, held, known, current, format, dec, answer, remote, bounds, done,
                              fault>>

\* Mutant: the frame that nobody took is not given back to the decoder.
KeepLastDropOld(ready, rest) ==
  /\ current' = Last(ready)
  /\ free' = rest \o [i \in 1 .. Len(ready) - 1 |-> ready[i].image]

\* Mutant: the oldest of the frames that are ready is offered.
KeepFirst(ready, rest) ==
  /\ current' = Head(ready)
  /\ free' = rest \o (IF current = NULL THEN << >> ELSE <<current.image>>)
                  \o [i \in 1 .. Len(ready) - 1 |-> ready[i + 1].image]

\* The newest of the frames that are ready becomes the current frame; the one nobody
\* took and the others go back to the decoder.
KeepLast(ready, rest) ==
  /\ current' = Last(ready)
  /\ free' = rest \o (IF current = NULL THEN << >> ELSE <<current.image>>)
                  \o [i \in 1 .. Len(ready) - 1 |-> ready[i].image]

\* What the message completes in the images of pool, of which the first is the one
\* that is being written.
Deliver(pool, n) ==
  LET ready == [i \in 1 .. n |-> [image |-> pool[i], frame |-> done + i]]
      rest  == SubSeq(pool, n + 1, Len(pool))
  IN  /\ done' = done + n
      /\ IF n = 0 THEN free' = rest /\ UNCHANGED current ELSE KeepLast(ready, rest)
      /\ Notify(n > 0)

\* ... decode, with images from the free list or new ones as needed, and unlock.
Decode ==
  /\ ~fault /\ receiving # NULL /\ decoder # 0 /\ ~dangling
  /\ \E need \in {receiving.frames, receiving.frames + 1} \ {0} :
       LET short == IF Len(free) < need THEN need - Len(free) ELSE 0
           pool  == free \o [i \in 1 .. short |-> <<decoder, made + i>>]
       IN  made' = made + short /\ Deliver(pool, receiving.frames)
  /\ receiving' = NULL
  /\ UNCHANGED <<op, held, known, state, orphaned, format, listLock, decoder, decFormat, dangling,
                 answer, socket, remote, bounds, fault>>

\* A decoder that is NULL or was destroyed is used, or destroyed in use.
Crash == /\ ~fault /\ receiving # NULL
         /\ decoder = 0 \/ dangling \/ pc = "redecode"
         /\ fault' = TRUE
         /\ UNCHANGED <<app, stream, global, dec, receiving, answer, socket, remote, bounds,
                        done>>

-----------------------------------------------------------------------------
AppStep == \/ OpenDone \/ AttachDone \/ InfoDone \/ SetDone \/ PauseDone \/ UnpauseDone \/ CloseDone
           \/ Redecode \/ FallAsleep \/ Woken \/ Synced
AppCall == \/ New \/ Pause \/ Close \/ Set \/ Unpause \/ Sync
           \/ \E wait \in BOOLEAN : GetFrame(wait)
           \/ \E f \in held : ReturnFrame(f)
Receive == ReceiveReply \/ SetOrphaned \/ ProvideData \/ Decode \/ Crash

Next == \/ AppStep \/ AppCall \/ Receive \/ ServerStep \/ SourceCloses
        \/ \E w \in Workers : WorkerStep(w)

Spec == Init /\ [][Next]_vars
-----------------------------------------------------------------------------
(* Properties. *)

\* The places an image can be: one per entry.
Places(i) == {<<"free", k>> : k \in {k \in 1 .. Len(free) : free[k] = i}}
             \cup {<<"current", 0>> : k \in {k \in {current} : k # NULL /\ k.image = i}}
             \cup {<<"held", f.frame>> : f \in {f \in held : f.image = i}}

\* Every image the decoder has made is in exactly one place: one that the application
\* works on is not written to or offered again, and none is lost, however many
\* frames come at once and however late they are returned.
ImageOnce == decoder # 0 /\ ~dangling =>
               \A n \in 1 .. made : Cardinality(Places(<<decoder, n>>)) = 1

\* SVR_Stream_getFrame: "The most recent frame is always returned".
NewestFrame == current # NULL => /\ current.frame = done
                                 /\ \A f \in held : f.frame < done

\* Until the stream is started again, Data always finds a decoder and nobody destroys
\* it at that moment, also when data comes after a pause or during the close.
NoFault == starts <= 1 => ~fault

\* Until the second start, no message comes for a stream that is not in the dictionary,
\* before it is saved or after it was destroyed: the receive thread would leave the
\* list locked and stop at its next message.  (After it the first worker, which nobody
\* joins, may send on after the reply to Stream.close.)
ListUnlocked == starts <= 1 => ~listLock

\* While a stream that was started once runs in the remote, each message is decoded
\* in the format it was encoded in, whatever was set before the start and asked for
\* since.
DataInFormat == receiving # NULL /\ starts = 1 /\ server.state = "UNPAUSED"
                  => receiving.format = decFormat

\* No caller of SVR_Stream_getFrame sleeps while there is a frame to take or the stream
\* is paused, nor one of SVR_Stream_sync while there is new data, whenever these come:
\* also between the test and the wait.
NoWakeUpMissed == /\ pc = "asleep" => current = NULL /\ state = "UNPAUSED"
                  /\ pc = "syncing" => ~newData
=============================================================================
