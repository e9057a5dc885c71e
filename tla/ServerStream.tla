---------------------------- MODULE ServerStream ----------------------------
(***************************************************************************)
(* One stream of svrd (server/stream.c) among the threads that share it:   *)
(*                                                                         *)
(*   the client's thread   handles the requests for the stream, one at a   *)
(*                         time, and closes it (server/client.c);          *)
(*   its worker threads    SVRD_Stream_worker: one is created by every     *)
(*                         SVRD_Stream_unpause that takes effect;          *)
(*   the providers         deliver frames to the sources it attaches to    *)
(*                         (SVRD_Source_provideData, server/source.c);     *)
(*   the closers           run SVRD_Source_destroy on those sources;       *)
(*   the garbage collector releases frames and sources (lib/refcount.c).   *)
(*                                                                         *)
(* A step is what a thread does between two accesses to shared state that  *)
(* another thread may come between: the stream's lock is recursive and     *)
(* held across steps only by SVRD_Stream_destroy, current_frame_lock of a  *)
(* source is explicit, and the condition variable new_frame is the set of  *)
(* workers that are "asleep": a broadcast wakes those and no others.       *)
(* Undefined behaviour that kills the process (a null or dangling pointer  *)
(* used) sets fault, after which nothing happens.                          *)
(*                                                                         *)
(* Left out: the image data.  A frame is a SourceFrame block with its      *)
(* reference count; encoding one yields Chunks messages; whether the drop  *)
(* rate skips a frame is a free choice.                                    *)
(***************************************************************************)
EXTENDS Naturals, FiniteSets

CONSTANTS Sources,     \* the sources the stream may attach to
          Frames,      \* bound: the SourceFrame blocks in use at once
          MaxWorkers,  \* bound: how many times the stream is started
          Chunks,      \* messages an encoded frame is cut into
          Requests,    \* the kinds of request the client makes
          MayClose,    \* the sources that somebody may close
          MayVanish,   \* whether the client may disappear
          NULL

ASSUME ServerStreamAssumption ==
         /\ MaxWorkers \in Nat /\ Chunks \in Nat \ {0}
         /\ Requests \subseteq {"pause", "unpause", "attach", "resize", "getInfo", "close"}
         /\ MayClose \subseteq Sources
         /\ MayVanish \in BOOLEAN
         /\ NULL \notin Sources \cup Frames
         /\ IsFiniteSet(Sources)

Workers == 1 .. MaxWorkers
Client  == 0
Threads == Workers \cup {Client}
Nobody  == MaxWorkers + 1

VARIABLES
  \* The stream (SVRD_Stream)
  state,         \* stream->state, or "freed"
  source,        \* stream->source
  properties,    \* stream->frame_properties is not NULL
  worker,        \* stream->worker, 0 until worker_started
  lock,          \* who holds the stream's lock between steps
  ready,         \* chunks in stream->encoder that are not sent yet
  \* Its threads
  wpc,           \* where each worker is
  held,          \* source_frame of each worker
  arg,           \* the source each worker passed to SVRD_Source_getFrame
  return,        \* where SVRD_Stream_pause returns to, for each thread
  spoiled,       \* what the worker is encoding with was freed under it
  cpc,           \* where the client's thread is
  \* The sources (SVRD_Source)
  closed,        \* source->closed
  current,       \* source->current_frame
  frameLock,     \* who holds source->current_frame_lock between steps
  dpc,           \* how far SVRD_Source_destroy has got
  sourceRefs,    \* the source's reference count
  freed,         \* SVRD_Source_cleanup has run
  \* The frames (SVRD_SourceFrame)
  frameRefs,     \* the frame's reference count
  frameSource,   \* source_frame->source
  unused,        \* the blocks that are not allocated
  \* The client and the process
  found,         \* the source that SVRD_Stream_rAttachSource has looked up
  peer,          \* "connected", "gone" (the peer has), "closed" (client->state)
  told,          \* what the client knows of its stream
  orphaned,      \* the sources reported by Stream.orphaned, live ones included
  fault          \* what killed the process, or "none"

stream  == <<state, source, properties, worker, lock, ready>>
threads == <<wpc, held, arg, return, spoiled, cpc>>
sources == <<closed, current, frameLock, dpc, sourceRefs, freed>>
frames  == <<frameRefs, frameSource, unused>>
others  == <<found, peer, told, orphaned, fault>>
vars    == <<stream, threads, sources, frames, others>>

Alive == fault = "none"

TypeOK ==
  /\ state \in {"PAUSED", "UNPAUSED", "freed"}
  /\ source \in Sources \cup {NULL}
  /\ properties \in BOOLEAN
  /\ worker \in Workers \cup {0}
  /\ lock \in Threads \cup {Nobody}
  /\ ready \in 0 .. MaxWorkers * Chunks
  /\ wpc \in [Workers -> {"off", "loop", "call", "lock", "sleep", "asleep", "take", "null",
                          "pause", "dismiss", "detach", "clear", "notify", "got",
                          "encoding", "send", "exit", "dead"}]
  /\ held \in [Workers -> Frames \cup {NULL}]
  /\ arg \in [Workers -> Sources \cup {NULL}]
  /\ return \in [Threads -> {"none", "loop", "detach", "reply", "destroy"}]
  /\ spoiled \in [Workers -> BOOLEAN]
  /\ cpc \in {"idle", "pause", "dismiss", "reply", "attach", "unref", "assign", "clone",
              "destroy", "join", "closed", "done"}
  /\ found \in Sources \cup {NULL}
  /\ closed \in [Sources -> BOOLEAN]
  /\ current \in [Sources -> Frames \cup {NULL}]
  /\ frameLock \in [Sources -> Workers \cup {Nobody}]
  /\ dpc \in [Sources -> {"open", "marked", "removed", "woken", "done"}]
  /\ sourceRefs \in [Sources -> Nat]
  /\ freed \in [Sources -> BOOLEAN]
  /\ frameRefs \in [Frames -> Nat]
  /\ frameSource \in [Frames -> Sources \cup {NULL}]
  /\ unused \subseteq Frames
  /\ peer \in {"connected", "gone", "closed"}
  /\ told \in {"paused", "started", "closed"}
  /\ orphaned \subseteq Sources
  /\ fault \in {"none", "nullSource", "nullFrame", "nullProperties", "useAfterFree"}

\* A stream that its client has opened and attached to a source, not yet started.
Init ==
  /\ state = "PAUSED" /\ source \in Sources /\ properties = TRUE
  /\ worker = 0 /\ lock = Nobody /\ ready = 0
  /\ wpc = [w \in Workers |-> "off"]
  /\ held = [w \in Workers |-> NULL]
  /\ arg = [w \in Workers |-> NULL]
  /\ return = [t \in Threads |-> "none"]
  /\ spoiled = [w \in Workers |-> FALSE]
  /\ cpc = "idle" /\ found = NULL
  /\ closed = [s \in Sources |-> FALSE]
  /\ current = [s \in Sources |-> NULL]
  /\ frameLock = [s \in Sources |-> Nobody]
  /\ dpc = [s \in Sources |-> "open"]
  /\ sourceRefs = [s \in Sources |-> IF s = source THEN 2 ELSE 1]
  /\ freed = [s \in Sources |-> FALSE]
  /\ frameRefs = [f \in Frames |-> 0]
  /\ frameSource = [f \in Frames |-> NULL]
  /\ unused = Frames
  /\ peer = "connected" /\ told = "paused" /\ orphaned = {} /\ fault = "none"

-----------------------------------------------------------------------------
(* Building blocks. *)

Die(why) == /\ fault' = why
            /\ UNCHANGED <<stream, threads, sources, frames, found, peer, told, orphaned>>

Goto(w, place) == wpc' = [wpc EXCEPT ![w] = place]

\* pthread_cond_broadcast(&source->new_frame), with w moving on to place.
Wake(s, w, place) ==
  wpc' = [v \in Workers |-> IF v = w THEN place
                            ELSE IF wpc[v] = "asleep" /\ arg[v] = s THEN "lock" ELSE wpc[v]]

\* What a worker is encoding with is freed by another thread.
Spoil == spoiled' = [w \in Workers |-> spoiled[w] \/ wpc[w] = "encoding"]

\* SVR_UNREF(frame)
Unref(f) == frameRefs' = [frameRefs EXCEPT ![f] = @ - 1]

-----------------------------------------------------------------------------
(* SVRD_Stream_worker and SVRD_Source_getFrame. *)

\* Worker w runs its step at place; the stream it reads is still allocated.
Run(w, place) == Alive /\ wpc[w] = place /\ state # "freed"

\* while(stream->state == SVR_UNPAUSED)
Loop(w) == /\ Run(w, "loop")
           /\ Goto(w, IF state = "UNPAUSED" THEN "call" ELSE "exit")
           /\ UNCHANGED <<stream, held, arg, return, spoiled, cpc, sources, frames, others>>

\* The call of getFrame: stream->source is read, the last frame released.
Call(w) ==
  /\ Run(w, "call")
  /\ IF source = NULL
       THEN Die("nullSource")
       ELSE /\ arg' = [arg EXCEPT ![w] = source]
            /\ IF held[w] = NULL THEN UNCHANGED frameRefs ELSE Unref(held[w])
            /\ Goto(w, "lock")
            /\ UNCHANGED <<stream, held, return, spoiled, cpc, sources,
                           frameSource, unused, others>>

\* A step of getFrame on its source.
InGetFrame(w, place) == Run(w, place) /\ ~freed[arg[w]]

\* Take current_frame_lock and decide whether to wait.
Check(w) ==
  LET s == arg[w]
  IN /\ InGetFrame(w, "lock")
     /\ frameLock[s] = Nobody
     /\ frameLock' = [frameLock EXCEPT ![s] = w]
     /\ Goto(w, IF ~closed[s] /\ current[s] = held[w] /\ state = "UNPAUSED"
                  THEN "sleep" ELSE "take")
     /\ UNCHANGED <<stream, held, arg, return, spoiled, cpc, closed, current, dpc,
                    sourceRefs, freed, frames, others>>

\* pthread_cond_wait: only from here on does a broadcast reach the worker.
Sleep(w) == /\ InGetFrame(w, "sleep")
            /\ frameLock' = [frameLock EXCEPT ![arg[w]] = Nobody]
            /\ Goto(w, "asleep")
            /\ UNCHANGED <<stream, held, arg, return, spoiled, cpc, closed, current, dpc,
                           sourceRefs, freed, frames, others>>

\* Mutant: SVR_REF(new_frame) is missing.
TakeNoRef(w) ==
  LET s == arg[w]
      empty == closed[s] \/ state # "UNPAUSED"
  IN /\ InGetFrame(w, "take")
     /\ held' = [held EXCEPT ![w] = IF empty THEN NULL ELSE current[s]]
     /\ frameLock' = [frameLock EXCEPT ![s] = Nobody]
     /\ Goto(w, IF empty THEN "null" ELSE "got")
     /\ UNCHANGED <<stream, arg, return, spoiled, cpc, closed, current, dpc, sourceRefs,
                    freed, frames, others>>

\* The end of getFrame: reference the current frame, or return NULL.
Take(w) ==
  LET s == arg[w]
      f == current[s]
  IN /\ InGetFrame(w, "take")
     /\ IF closed[s] \/ state # "UNPAUSED"
          THEN /\ held' = [held EXCEPT ![w] = NULL]
               /\ frameLock' = [frameLock EXCEPT ![s] = Nobody]
               /\ Goto(w, "null")
               /\ UNCHANGED <<frameRefs, fault>>
        ELSE IF f = NULL
          THEN /\ fault' = "nullFrame"
               /\ UNCHANGED <<held, frameLock, wpc, frameRefs>>
        ELSE   /\ held' = [held EXCEPT ![w] = f]
               /\ frameRefs' = [frameRefs EXCEPT ![f] = @ + 1]
               /\ frameLock' = [frameLock EXCEPT ![s] = Nobody]
               /\ Goto(w, "got")
               /\ UNCHANGED fault
     /\ UNCHANGED <<stream, arg, return, spoiled, cpc, closed, current, dpc, sourceRefs,
                    freed, frameSource, unused, found, peer, told, orphaned>>

\* No frame: the source is closing, unless the stream is paused by now.
NoFrame(w) == /\ Run(w, "null")
              /\ Goto(w, IF state = "UNPAUSED" THEN "pause" ELSE "exit")
              /\ return' = [return EXCEPT ![w] = "detach"]
              /\ UNCHANGED <<stream, held, arg, spoiled, cpc, sources, frames, others>>

\* Skip the frame (drop_rate), or preprocess it, which reads stream->source again, and
\* encode it.
Got(w) == /\ Run(w, "got")
          /\ \/ /\ \/ Goto(w, "loop")
                   \/ source # NULL /\ Goto(w, "encoding")
                /\ UNCHANGED fault
             \/ /\ source = NULL
                /\ fault' = "nullSource"
                /\ UNCHANGED wpc
             \/ /\ source # NULL /\ freed[source]
                /\ fault' = "useAfterFree"
                /\ UNCHANGED wpc
          /\ UNCHANGED <<stream, held, arg, return, spoiled, cpc, sources, frames, found, peer,
                         told, orphaned>>

\* What the worker works with may have been freed meanwhile: the process dies of it
\* or gets away with it.
Encoded(w) == /\ Run(w, "encoding")
              /\ \/ /\ spoiled[w]
                    /\ Die("useAfterFree")
                 \/ /\ ready' = ready + Chunks
                    /\ Goto(w, "send")
                    /\ spoiled' = [spoiled EXCEPT ![w] = FALSE]
                    /\ UNCHANGED <<state, source, properties, worker, lock, held, arg,
                                   return, cpc, sources, frames, others>>

\* One turn of the loop that sends the encoded data as Data messages.
SendChunk(w) == /\ Run(w, "send") /\ ready > 0 /\ peer # "closed"
                /\ ready' = ready - 1
                /\ UNCHANGED <<state, source, properties, worker, lock, threads, sources,
                               frames, others>>

SendFails(w) == /\ Run(w, "send") /\ ready > 0 /\ peer # "connected"
                /\ ready' = ready - 1
                /\ Goto(w, "pause")
                /\ return' = [return EXCEPT ![w] = "loop"]
                /\ UNCHANGED <<state, source, properties, worker, lock, held, arg, spoiled,
                               cpc, sources, frames, others>>

AllSent(w) == /\ Run(w, "send") /\ ready = 0
              /\ Goto(w, "loop")
              /\ UNCHANGED <<stream, held, arg, return, spoiled, cpc, sources, frames, others>>

\* SVRD_Stream_pause called by a worker: the lock, the state ...
Pause(w) == /\ Run(w, "pause")
            /\ lock = Nobody
            /\ state' = "PAUSED"
            /\ Goto(w, IF state = "PAUSED" THEN return[w] ELSE "dismiss")
            /\ UNCHANGED <<source, properties, worker, lock, ready, held, arg, return,
                           spoiled, cpc, sources, frames, others>>

\* ... and, unlocked, SVRD_Source_dismissPausedStreams(stream->source).
Dismiss(w) == /\ Run(w, "dismiss")
              /\ IF source = NULL THEN Die("nullSource")
                 ELSE IF freed[source] THEN Die("useAfterFree")
                 ELSE /\ Wake(source, w, return[w])
                      /\ UNCHANGED <<stream, held, arg, return, spoiled, cpc, sources,
                                     frames, others>>

\* SVRD_Stream_detachSource: the test of the state, then the assignments.
Detach(w) == /\ Run(w, "detach")
             /\ Goto(w, IF state = "UNPAUSED" THEN "notify" ELSE "clear")
             /\ UNCHANGED <<stream, held, arg, return, spoiled, cpc, sources, frames, others>>

Clear(w) == /\ Run(w, "clear")
            /\ source' = NULL
            /\ properties' = FALSE
            /\ Spoil
            /\ Goto(w, "notify")
            /\ UNCHANGED <<state, worker, lock, ready, held, arg, return, cpc, sources,
                           frames, others>>

\* "Notify client that source has orphaned the stream"
Notify(w) == /\ Run(w, "notify")
             /\ orphaned' = IF peer = "connected" THEN orphaned \cup {arg[w]} ELSE orphaned
             /\ Goto(w, "exit")
             /\ UNCHANGED <<stream, held, arg, return, spoiled, cpc, sources, frames,
                            found, peer, told, fault>>

\* Mutant: the frame is given back twice.
ExitTwice(w) == /\ Alive /\ wpc[w] = "exit"
                /\ frameRefs' = IF held[w] = NULL THEN frameRefs
                                ELSE [frameRefs EXCEPT ![held[w]] = @ - 2]
                /\ held' = [held EXCEPT ![w] = NULL]
                /\ Goto(w, "dead")
                /\ UNCHANGED <<stream, arg, return, spoiled, cpc, sources, frameSource,
                               unused, others>>

\* The worker ends and gives its frame back.
Exit(w) == /\ Alive /\ wpc[w] = "exit"
           /\ IF held[w] = NULL THEN UNCHANGED frameRefs ELSE Unref(held[w])
           /\ held' = [held EXCEPT ![w] = NULL]
           /\ arg' = [arg EXCEPT ![w] = NULL]
           /\ return' = [return EXCEPT ![w] = "none"]
           /\ Goto(w, "dead")
           /\ UNCHANGED <<stream, spoiled, cpc, sources, frameSource, unused, others>>

\* A worker runs on after its stream, or the source it waits on, was freed.
Dangling(w) == /\ Alive
               /\ \/ state = "freed" /\ wpc[w] \notin {"off", "asleep", "exit", "dead"}
                  \/ wpc[w] \in {"lock", "sleep", "take"} /\ freed[arg[w]]
               /\ Die("useAfterFree")

WorkerStep(w) == \/ Loop(w) \/ Call(w) \/ Check(w) \/ Sleep(w) \/ Take(w) \/ NoFrame(w)
                 \/ Got(w) \/ Encoded(w) \/ SendChunk(w) \/ SendFails(w) \/ AllSent(w)
                 \/ Pause(w) \/ Dismiss(w) \/ Detach(w) \/ Clear(w) \/ Notify(w)
                 \/ Exit(w) \/ Dangling(w)

-----------------------------------------------------------------------------
(* The client's thread: requests on the stream, and the end of the client. *)

\* The client makes a request of this kind and its thread starts to handle it.
Handle(kind) == Alive /\ cpc = "idle" /\ peer # "closed" /\ kind \in Requests

\* SVRD_Stream_rPause and SVRD_Client_closeStream begin with SVRD_Stream_pause ...
RPause == /\ Handle("pause")
          /\ cpc' = "pause"
          /\ return' = [return EXCEPT ![Client] = "reply"]
          /\ UNCHANGED <<stream, wpc, held, arg, spoiled, sources, frames, others>>

RClose == /\ Handle("close")
          /\ cpc' = "pause"
          /\ return' = [return EXCEPT ![Client] = "destroy"]
          /\ UNCHANGED <<stream, wpc, held, arg, spoiled, sources, frames, others>>

\* ... as does SVRD_Client_markForClosing, once receiving from the peer failed.
MarkForClosing == /\ Alive /\ cpc = "idle" /\ peer = "gone"
                  /\ peer' = "closed"
                  /\ cpc' = "pause"
                  /\ return' = [return EXCEPT ![Client] = "destroy"]
                  /\ UNCHANGED <<stream, wpc, held, arg, spoiled, sources, frames,
                                 found, told, orphaned, fault>>

ClientPause == /\ Alive /\ cpc = "pause"
               /\ lock = Nobody
               /\ state' = "PAUSED"
               /\ cpc' = IF state = "PAUSED" THEN return[Client] ELSE "dismiss"
               /\ UNCHANGED <<source, properties, worker, lock, ready, wpc, held, arg,
                              return, spoiled, sources, frames, others>>

ClientDismiss ==
  /\ Alive /\ cpc = "dismiss"
  /\ IF source = NULL THEN Die("nullSource")
     ELSE IF freed[source] THEN Die("useAfterFree")
     ELSE /\ Wake(source, Client, "none")
          /\ cpc' = return[Client]
          /\ UNCHANGED <<stream, held, arg, return, spoiled, sources, frames, others>>

\* SVRD_Client_replyCode(SVR_SUCCESS) after a pause
ClientReply == /\ Alive /\ cpc = "reply"
               /\ told' = "paused"
               /\ cpc' = "idle"
               /\ return' = [return EXCEPT ![Client] = "none"]
               /\ UNCHANGED <<stream, wpc, held, arg, spoiled, sources, frames,
                              found, peer, orphaned, fault>>

\* SVRD_Stream_unpause: a new encoder in place of the old one and a new worker.
\* The reply is SUCCESS whether or not it takes effect.
RUnpause ==
  /\ Handle("unpause")
  /\ lock = Nobody
  /\ told' = "started"
  /\ \/ /\ state = "PAUSED" /\ source # NULL
        /\ \E w \in Workers :
             /\ wpc[w] = "off" /\ \A v \in Workers : v < w => wpc[v] # "off"
             /\ Goto(w, "loop")
             /\ worker' = w
        /\ state' = "UNPAUSED"
        /\ ready' = 0
        /\ Spoil
     \/ /\ state = "UNPAUSED" \/ source = NULL
        /\ UNCHANGED <<wpc, worker, state, ready, spoiled>>
  /\ UNCHANGED <<source, properties, lock, held, arg, return, cpc, sources, frames,
                 found, peer, orphaned, fault>>

\* SVRD_Stream_rAttachSource looks the source up, with a reference to it ...
RAttachSource(s) ==
  /\ Handle("attach")
  /\ dpc[s] \in {"open", "marked"}
  /\ found' = s
  /\ sourceRefs' = [sourceRefs EXCEPT ![s] = @ + 1]
  /\ cpc' = "attach"
  /\ UNCHANGED <<stream, wpc, held, arg, return, spoiled, closed, current, frameLock, dpc,
                 freed, frames, peer, told, orphaned, fault>>

\* ... and gives it back where SVRD_Stream_attachSource refuses: the stream is running,
\* or the source, which has delivered no frame yet, has no frame properties either.
RefuseSource == /\ Alive /\ cpc = "attach"
                /\ state = "UNPAUSED" \/ current[found] = NULL
                /\ found' = NULL
                /\ sourceRefs' = [sourceRefs EXCEPT ![found] = @ - 1]
                /\ cpc' = "idle"
                /\ UNCHANGED <<stream, wpc, held, arg, return, spoiled, closed, current,
                               frameLock, dpc, freed, frames, peer, told, orphaned, fault>>

\* SVRD_Stream_attachSource takes no lock, so that a worker on its way out may run
\* between any two of its steps: the tests of the state and of stream->source ...
AttachSource == /\ Alive /\ cpc = "attach" /\ state = "PAUSED"
                /\ cpc' = IF source = NULL THEN "assign" ELSE "unref"
                /\ UNCHANGED <<stream, wpc, held, arg, return, spoiled, sources, frames, others>>

\* Mutant: the reference to the source that was looked up is given up here too.
UnrefSourceTwice ==
  /\ Alive /\ cpc = "unref"
  /\ sourceRefs' = [s \in Sources |-> sourceRefs[s] - (IF s = source THEN 1 ELSE 0)
                                                    - (IF s = found THEN 1 ELSE 0)]
  /\ cpc' = "assign"
  /\ UNCHANGED <<stream, wpc, held, arg, return, spoiled, closed, current, frameLock, dpc,
                 freed, frames, others>>

\* ... SVR_UNREF(stream->source), after which the stream still points to a source that
\* it has no reference to ...
UnrefSource ==
  /\ Alive /\ cpc = "unref"
  /\ IF source = NULL
       THEN Die("nullSource")
       ELSE /\ sourceRefs' = [sourceRefs EXCEPT ![source] = @ - 1]
            /\ cpc' = "assign"
            /\ UNCHANGED <<stream, wpc, held, arg, return, spoiled, closed, current, frameLock,
                           dpc, freed, frames, others>>

\* ... stream->source = source ...
AssignSource == /\ Alive /\ cpc = "assign"
                /\ source' = found
                /\ cpc' = "clone"
                /\ UNCHANGED <<state, properties, worker, lock, ready, wpc, held, arg, return,
                               spoiled, sources, frames, others>>

\* ... and a copy of the source's properties in place of the stream's.
CloneProperties == /\ Alive /\ cpc = "clone"
                   /\ properties' = TRUE
                   /\ Spoil
                   /\ found' = NULL
                   /\ cpc' = "idle"
                   /\ UNCHANGED <<state, source, worker, lock, ready, wpc, held, arg, return,
                                  sources, frames, peer, told, orphaned, fault>>

\* SVRD_Stream_resize, and likewise SVRD_Stream_setChannels: the temporary frames
\* are reallocated.
RResize == /\ Handle("resize")
           /\ state = "PAUSED" /\ source # NULL
           /\ Spoil
           /\ UNCHANGED <<stream, wpc, held, arg, return, cpc, sources, frames, others>>

\* SVRD_Stream_rGetInfo formats stream->frame_properties; else it only answers.
RGetInfo == /\ Handle("getInfo")
            /\ ~properties
            /\ Die("nullProperties")

\* SVRD_Stream_destroy: take the lock (its own pause finds the stream paused) ...
Destroy == /\ Alive /\ cpc = "destroy"
           /\ lock = Nobody
           /\ lock' = Client
           /\ cpc' = "join"
           /\ UNCHANGED <<state, source, properties, worker, ready, wpc, held, arg, return,
                          spoiled, sources, frames, others>>

\* Mutant: the worker is not joined.
JoinNobody == /\ Alive /\ cpc = "join"
              /\ state' = "freed"
              /\ source' = NULL
              /\ properties' = FALSE
              /\ lock' = Nobody
              /\ told' = "closed"
              /\ cpc' = IF peer = "closed" THEN "done" ELSE "closed"
              /\ UNCHANGED <<worker, ready, wpc, held, arg, return, spoiled, sources, frames,
                             found, peer, orphaned, fault>>

\* ... join the worker started last, detach, free.  A client that is closing goes
\* on to close the sources it provides.
Join == /\ Alive /\ cpc = "join"
        /\ worker # 0 => wpc[worker] = "dead"
        /\ state' = "freed"
        /\ source' = NULL
        /\ properties' = FALSE
        /\ lock' = Nobody
        /\ ready' = 0
        /\ told' = "closed"
        /\ cpc' = IF peer = "closed" THEN "done" ELSE "closed"
        /\ UNCHANGED <<worker, wpc, held, arg, return, spoiled, sources, frames,
                       found, peer, orphaned, fault>>

\* The same, for a client that has closed its stream before.
MarkForClosingNoStream == /\ Alive /\ cpc = "closed" /\ peer = "gone"
                          /\ peer' = "closed"
                          /\ cpc' = "done"
                          /\ UNCHANGED <<stream, wpc, held, arg, return, spoiled, sources,
                                         frames, found, told, orphaned, fault>>

ClientStep == \/ ClientPause \/ ClientDismiss \/ ClientReply \/ Destroy \/ Join
              \/ RefuseSource \/ AttachSource \/ UnrefSource \/ AssignSource \/ CloneProperties
              \/ MarkForClosing \/ MarkForClosingNoStream

ClientRequest == \/ RPause \/ RUnpause \/ RClose \/ RResize \/ RGetInfo
                 \/ \E s \in Sources : RAttachSource(s)

Vanish == /\ Alive /\ MayVanish /\ peer = "connected"
          /\ peer' = "gone"
          /\ UNCHANGED <<stream, threads, sources, frames, found, told, orphaned, fault>>

-----------------------------------------------------------------------------
(* The sources' own threads and the garbage collector. *)

\* The provider of s delivers frames until SVRD_Source_destroy has stopped and
\* joined it: while(source_data->close == false).
Providing(s) == Alive /\ dpc[s] \in {"open", "marked", "removed"}

\* Mutant: nobody is told of the new frame.
ProvideSilently(s) ==
  /\ Providing(s)
  /\ frameLock[s] = Nobody
  /\ \E f \in unused :
       /\ frameRefs' = [g \in Frames |-> IF g = f THEN 1
                                         ELSE IF g = current[s] THEN frameRefs[g] - 1
                                         ELSE frameRefs[g]]
       /\ frameSource' = [frameSource EXCEPT ![f] = s]
       /\ unused' = unused \ {f}
       /\ current' = [current EXCEPT ![s] = f]
  /\ UNCHANGED <<stream, threads, closed, frameLock, dpc, sourceRefs, freed, others>>

\* SVRD_Source_provideData completes a frame.
Provide(s) ==
  /\ Providing(s)
  /\ frameLock[s] = Nobody
  /\ \E f \in unused :
       /\ frameRefs' = [g \in Frames |-> IF g = f THEN 1
                                         ELSE IF g = current[s] THEN frameRefs[g] - 1
                                         ELSE frameRefs[g]]
       /\ frameSource' = [frameSource EXCEPT ![f] = s]
       /\ unused' = unused \ {f}
       /\ current' = [current EXCEPT ![s] = f]
  /\ Wake(s, Client, "none")
  /\ UNCHANGED <<stream, held, arg, return, spoiled, cpc, closed, frameLock, dpc,
                 sourceRefs, freed, others>>

\* SVRD_Source_destroy: closed is set, under the source's lock only ...
MarkClosed(s) == /\ Alive /\ s \in MayClose /\ dpc[s] = "open"
                 /\ closed' = [closed EXCEPT ![s] = TRUE]
                 /\ dpc' = [dpc EXCEPT ![s] = "marked"]
                 /\ UNCHANGED <<stream, threads, current, frameLock, sourceRefs, freed,
                                frames, others>>

\* ... the source leaves the dictionary ...
Remove(s) == /\ Alive /\ dpc[s] = "marked"
             /\ dpc' = [dpc EXCEPT ![s] = "removed"]
             /\ UNCHANGED <<stream, threads, closed, current, frameLock, sourceRefs, freed,
                            frames, others>>

\* ... its provider is stopped and the waiting workers woken, with no lock held ...
WakeUp(s) == /\ Alive /\ dpc[s] = "removed"
             /\ Wake(s, Client, "none")
             /\ dpc' = [dpc EXCEPT ![s] = "woken"]
             /\ UNCHANGED <<stream, held, arg, return, spoiled, cpc, closed, current,
                            frameLock, sourceRefs, freed, frames, others>>

\* ... and the source's reference to itself is dropped.
Release(s) == /\ Alive /\ dpc[s] = "woken"
              /\ sourceRefs' = [sourceRefs EXCEPT ![s] = @ - 1]
              /\ dpc' = [dpc EXCEPT ![s] = "done"]
              /\ UNCHANGED <<stream, threads, closed, current, frameLock, freed, frames, others>>

\* SVRD_Source_releaseSourceFrame, run by the garbage collector, hands the image
\* back to the decoder of the frame's source.
CollectFrame(f) == /\ Alive /\ f \notin unused /\ frameRefs[f] = 0
                   /\ IF freed[frameSource[f]]
                        THEN Die("useAfterFree")
                        ELSE /\ unused' = unused \cup {f}
                             /\ frameSource' = [frameSource EXCEPT ![f] = NULL]
                             /\ UNCHANGED <<stream, threads, sources, frameRefs, others>>

\* SVRD_Source_cleanup
CollectSource(s) == /\ Alive /\ ~freed[s] /\ sourceRefs[s] = 0
                    /\ freed' = [freed EXCEPT ![s] = TRUE]
                    /\ UNCHANGED <<stream, threads, closed, current, frameLock, dpc,
                                   sourceRefs, frames, others>>

SourceStep(s) == Remove(s) \/ WakeUp(s) \/ Release(s) \/ CollectSource(s)

Next == \/ \E w \in Workers : WorkerStep(w)
        \/ ClientRequest \/ ClientStep \/ Vanish
        \/ \E s \in Sources : Provide(s) \/ MarkClosed(s) \/ SourceStep(s)
        \/ \E f \in Frames : CollectFrame(f)

Spec == Init /\ [][Next]_vars

(* Every thread that can run does; a mutex that is free again and again is       *)
(* eventually granted.  Sources need not deliver frames, nor clients make        *)
(* requests.                                                                     *)
Fairness == /\ \A w \in Workers : SF_vars(WorkerStep(w))
            /\ WF_vars(ClientStep)
            /\ \A s \in Sources : WF_vars(SourceStep(s))
            /\ \A f \in Frames : WF_vars(CollectFrame(f))

FairSpec == Spec /\ Fairness

(* The same with sources that keep delivering, as cameras do. *)
LiveSources == \A s \in Sources : SF_vars(Provide(s))
LiveSpec == Spec /\ Fairness /\ LiveSources
-----------------------------------------------------------------------------
(* Properties that hold. *)

\* Worker w counts on frame f: it has a reference to it.
Holds(w, f) == /\ held[w] = f
               /\ wpc[w] \notin {"off", "lock", "sleep", "asleep", "take", "dead"}

\* Whatever workers, providers and the collector do at once, a frame's reference
\* count is exactly the number of sources and workers that point to it.
FrameRefsExact ==
  \A f \in Frames : frameRefs[f] = Cardinality({s \in Sources : current[s] = f})
                                   + Cardinality({w \in Workers : Holds(w, f)})

\* The image a worker is encoding, or a source offers, is never handed back to the
\* decoder, which would overwrite it with the next frame.
FramesInUseKept == /\ \A w \in Workers : \A f \in Frames : Holds(w, f) => f \notin unused
                   /\ \A s \in Sources : current[s] \notin unused

\* Whoever closes sources and however often the stream is moved and detached: the source
\* it is attached to, and the one it is about to be attached to, have not been freed.
\* The one exception is the time between the release of the old source and the assignment
\* of the new one, and the stream is paused then (but a worker may be on its way out).
AttachedSourceAlive == /\ source # NULL /\ cpc # "assign" => ~freed[source]
                       /\ found # NULL => ~freed[found]
                       /\ cpc \in {"unref", "assign", "clone"} => state = "PAUSED"

\* Where a stream is started once, its source stays open and it is neither resized
\* nor attached anew, the server does not use a null or freed pointer, however
\* pauses, the worker, the close of the stream and the loss of the client interleave.
NoFault == Alive

\* A connected client's paused stream comes to rest: its worker ends, if the source
\* goes on delivering frames.  A dismissal that comes before the worker sleeps is
\* made up for by the next frame.
PauseEndsWorkers == (told = "paused" /\ state = "PAUSED") ~>
                      \/ \A w \in Workers : wpc[w] \in {"off", "dead"}
                      \/ told # "paused" \/ peer # "connected" \/ ~Alive

-----------------------------------------------------------------------------
(* Properties that the repository states and the code does not have. *)

\* lib/stream.c: "A stream is orphaned when its source closes."
OrphanedMeansClosed == \A s \in orphaned : closed[s]

\* doc/pages/mainpage.doc.txt: "all sources provided by a client will be closed
\* automatically when that client disconnects": its thread gets to that point.
DisconnectEnds == peer = "closed" ~> cpc = "done" \/ ~Alive
=============================================================================
