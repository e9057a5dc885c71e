------------------------- MODULE ServerStream_proofs -------------------------
(***************************************************************************)
(* Proofs about ServerStream, for any sources, frame blocks, number of     *)
(* starts and length of a frame: the counts of references of frames and    *)
(* sources, what they protect, and that a stream which is started once on  *)
(* a source that stays open never uses a null or dangling pointer.         *)
(***************************************************************************)
EXTENDS ServerStream, FiniteSetTheorems, TLAPS

(* Where a worker has called SVRD_Source_getFrame and still uses the source. *)
WithSource == {"lock", "sleep", "asleep", "take", "null", "got", "encoding", "send",
               "pause", "dismiss", "detach", "clear", "notify"}

(* What a worker knows of itself at each place. *)
WorkerOK(w) == /\ wpc[w] \in {"pause", "dismiss"} => return[w] \in {"loop", "detach"}
               /\ wpc[w] \in WithSource => arg[w] \in Sources
               /\ wpc[w] \in {"off", "null", "dead"} => held[w] = NULL

(* The client's thread attaches a source to a stream that stays paused meanwhile. *)
Attaching == {"unref", "assign", "clone"}

ClientOK == /\ cpc \in {"pause", "dismiss"} => return[Client] \in {"reply", "destroy"}
            /\ IF cpc \in Attaching \cup {"attach"} THEN found \in Sources ELSE found = NULL
            /\ cpc \in Attaching => state = "PAUSED"
            /\ cpc = "clone" => source \in {found, NULL}

(* The stream has a reference to the source it points to, but for the time in which it is
   replaced: the old one is given up before the assignment, and the new one is still that
   of the lookup. *)
Replacing   == cpc \in {"assign", "clone"}
Attached(s) == source = s /\ ~Replacing

(* A source has its own reference until SVRD_Source_destroy gives it up, one for the
   stream that is attached and one for the handler that has looked it up; detaching
   leaks the stream's, so there may be more. *)
SourcesCounted ==
  \A s \in Sources : /\ sourceRefs[s] >= (IF dpc[s] # "done" THEN 1 ELSE 0)
                                         + (IF Attached(s) THEN 1 ELSE 0)
                                         + (IF found = s THEN 1 ELSE 0)
                     /\ freed[s] => sourceRefs[s] = 0

(* The workers that may have left a frame's chunks in the encoder.  One that failed to
   send them pauses the stream, which stays so until it is started anew with an empty
   encoder. *)
MaySend(w) == \/ wpc[w] \in {"send", "pause"}
              \/ /\ wpc[w] \in {"dismiss", "detach", "clear", "notify", "loop", "exit", "dead"}
                 /\ state # "UNPAUSED"
Senders == {w \in Workers : MaySend(w)}

ReadyCounted == ready <= Chunks * Cardinality(Senders)

IInv == /\ TypeOK
        /\ \A w \in Workers : WorkerOK(w)
        /\ ClientOK
        /\ FrameRefsExact /\ FramesInUseKept
        /\ SourcesCounted
        /\ ReadyCounted

(* A stream that is started once: its worker is the one that is joined, never finds the
   source closed and has a frame to take whenever it stops waiting for one. *)
OnceWorker(w) ==
  /\ ~spoiled[w]
  /\ wpc[w] # "off" => worker = w
  /\ wpc[w] \in {"off", "null"} => state # "UNPAUSED"
  /\ wpc[w] \notin {"detach", "clear", "notify"}
  /\ wpc[w] \in {"pause", "dismiss"} => return[w] = "loop"
  /\ wpc[w] \in WithSource => arg[w] = source
  /\ state = "freed" => wpc[w] \in {"off", "dead"}
  /\ held[w] # NULL => current[source] # NULL
  /\ wpc[w] = "take" /\ state = "UNPAUSED" => current[source] # NULL

Once == /\ Alive
        /\ \A s \in Sources : dpc[s] = "open" /\ ~closed[s] /\ ~freed[s]
        /\ \A w \in Workers : OnceWorker(w)
        /\ state # "freed" => source # NULL /\ properties
        /\ state = "freed" <=> cpc \in {"closed", "done"}
        /\ cpc \in {"dismiss", "destroy", "join"} => state = "PAUSED"
        /\ cpc \notin Attaching \cup {"attach"}
        /\ \A f \in Frames \ unused : frameSource[f] \in Sources
-----------------------------------------------------------------------------
(* Counting. *)

Offering(f) == {s \in Sources : current[s] = f}
Holders(f)  == {w \in Workers : Holds(w, f)}

(* The workers, and the sets of them and of sources that are counted, are finite. *)
LEMMA Finite ==
  /\ IsFiniteSet(Workers) /\ Cardinality(Workers) = MaxWorkers
  /\ \A S \in SUBSET Workers :
       /\ IsFiniteSet(S) /\ Cardinality(S) \in Nat /\ Cardinality(S) <= MaxWorkers
  /\ \A S \in SUBSET Sources : IsFiniteSet(S) /\ Cardinality(S) \in Nat
  <1>1. MaxWorkers \in Nat /\ IsFiniteSet(Sources)
    BY ServerStreamAssumption
  <1>2. IsFiniteSet(Workers) /\ Cardinality(Workers) = MaxWorkers
    <2>1. IsFiniteSet(1 .. MaxWorkers)
      BY <1>1, FS_Interval
    <2>2. Cardinality(1 .. MaxWorkers) = IF 1 > MaxWorkers THEN 0 ELSE MaxWorkers - 1 + 1
      BY <1>1, FS_Interval
    <2> QED
      BY <1>1, <2>1, <2>2 DEF Workers
  <1>3. ASSUME NEW S \in SUBSET Workers
        PROVE  IsFiniteSet(S) /\ Cardinality(S) \in Nat /\ Cardinality(S) <= MaxWorkers
    <2>1. IsFiniteSet(S) /\ Cardinality(S) <= Cardinality(Workers)
      BY <1>2, FS_Subset
    <2> QED
      BY <1>2, <2>1, FS_CardinalityType
  <1>4. ASSUME NEW S \in SUBSET Sources
        PROVE  IsFiniteSet(S) /\ Cardinality(S) \in Nat
    BY <1>1, FS_Subset, FS_CardinalityType
  <1> QED
    BY <1>2, <1>3, <1>4

(* A finite set that one element joins or leaves. *)
LEMMA Counting ==
  ASSUME NEW S, IsFiniteSet(S), NEW x
  PROVE  /\ Cardinality(S) \in Nat
         /\ x \in S => Cardinality(S) > 0 /\ Cardinality(S \ {x}) = Cardinality(S) - 1
         /\ x \notin S => Cardinality(S \cup {x}) = Cardinality(S) + 1
  <1>1. Cardinality(S) \in Nat
    BY FS_CardinalityType
  <1>2. x \in S => Cardinality(S) # 0
    BY FS_EmptySet
  <1>3. x \in S => Cardinality(S \ {x}) = Cardinality(S) - 1
    BY FS_RemoveElement
  <1>4. x \notin S => Cardinality(S \cup {x}) = Cardinality(S) + 1
    BY FS_AddElement
  <1> QED
    BY <1>1, <1>2, <1>3, <1>4

(* What the counts of a frame tell: one that is offered or held has a reference, and
   one that is not allocated has none. *)
LEMMA FrameCounted ==
  ASSUME FrameRefsExact, FramesInUseKept, NEW f \in Frames
  PROVE  /\ IsFiniteSet(Offering(f)) /\ IsFiniteSet(Holders(f))
         /\ Cardinality(Offering(f)) \in Nat /\ Cardinality(Holders(f)) \in Nat
         /\ frameRefs[f] = Cardinality(Offering(f)) + Cardinality(Holders(f))
         /\ \A s \in Sources : current[s] = f => frameRefs[f] > 0
         /\ \A w \in Workers : Holds(w, f) => frameRefs[f] > 0
         /\ f \in unused => /\ Offering(f) = {} /\ Holders(f) = {}
                            /\ frameRefs[f] = 0
  <1>1. /\ IsFiniteSet(Offering(f)) /\ IsFiniteSet(Holders(f))
        /\ Cardinality(Offering(f)) \in Nat /\ Cardinality(Holders(f)) \in Nat
    BY Finite DEF Offering, Holders
  <1>2. frameRefs[f] = Cardinality(Offering(f)) + Cardinality(Holders(f))
    BY DEF FrameRefsExact, Offering, Holders
  <1>3. ASSUME NEW s \in Sources, current[s] = f
        PROVE  frameRefs[f] > 0
    <2>1. s \in Offering(f)
      BY <1>3 DEF Offering
    <2>2. Cardinality(Offering(f)) > 0
      BY <1>1, <2>1, Counting
    <2> QED
      BY <1>1, <1>2, <2>2
  <1>4. ASSUME NEW w \in Workers, Holds(w, f)
        PROVE  frameRefs[f] > 0
    <2>1. w \in Holders(f)
      BY <1>4 DEF Holders
    <2>2. Cardinality(Holders(f)) > 0
      BY <1>1, <2>1, Counting
    <2> QED
      BY <1>1, <1>2, <2>2
  <1>5. ASSUME f \in unused
        PROVE  Offering(f) = {} /\ Holders(f) = {} /\ frameRefs[f] = 0
    <2>1. Offering(f) = {} /\ Holders(f) = {}
      BY <1>5 DEF FramesInUseKept, Offering, Holders
    <2>2. Cardinality(Offering(f)) = 0 /\ Cardinality(Holders(f)) = 0
      BY <1>1, <2>1, FS_EmptySet
    <2> QED
      BY <1>2, <2>1, <2>2
  <1> QED
    BY <1>1, <1>2, <1>3, <1>4, <1>5

(* A step that moves no reference to a frame. *)
LEMMA FramesKept ==
  ASSUME FrameRefsExact, FramesInUseKept, UNCHANGED <<frameRefs, current, unused>>,
         \A w \in Workers : \A f \in Frames : Holds(w, f)' <=> Holds(w, f)
  PROVE  FrameRefsExact' /\ FramesInUseKept'
  <1>1. ASSUME NEW f \in Frames
        PROVE  frameRefs'[f] = Cardinality({s \in Sources : current'[s] = f})
                               + Cardinality({w \in Workers : Holds(w, f)'})
    <2>1. {w \in Workers : Holds(w, f)'} = {w \in Workers : Holds(w, f)}
      OBVIOUS
    <2> QED
      BY <2>1 DEF FrameRefsExact
  <1> QED
    BY <1>1 DEF FrameRefsExact, FramesInUseKept

(* A worker gives the frame it holds back. *)
LEMMA FrameGiven ==
  ASSUME FrameRefsExact, FramesInUseKept, UNCHANGED <<current, unused>>,
         frameRefs \in [Frames -> Nat],
         NEW w \in Workers, NEW g \in Frames, Holds(w, g), Unref(g),
         \A f \in Frames : ~Holds(w, f)',
         \A v \in Workers \ {w} : \A f \in Frames : Holds(v, f)' <=> Holds(v, f)
  PROVE  FrameRefsExact' /\ FramesInUseKept' /\ frameRefs' \in [Frames -> Nat]
  <1>1. frameRefs[g] > 0
    BY FrameCounted
  <1>2. frameRefs' \in [Frames -> Nat]
    BY <1>1 DEF Unref
  <1>3. ASSUME NEW f \in Frames
        PROVE  frameRefs'[f] = Cardinality({s \in Sources : current'[s] = f})
                               + Cardinality({v \in Workers : Holds(v, f)'})
    <2>1. frameRefs[f] = Cardinality({s \in Sources : current[s] = f})
                         + Cardinality(Holders(f))
      BY DEF FrameRefsExact, Holders
    <2>2. IsFiniteSet(Holders(f)) /\ Cardinality({s \in Sources : current[s] = f}) \in Nat
      BY Finite DEF Holders
    <2>3. CASE f = g
      <3>1. {v \in Workers : Holds(v, f)'} = Holders(f) \ {w} /\ w \in Holders(f)
        BY <2>3 DEF Holders
      <3>2. Cardinality(Holders(f) \ {w}) = Cardinality(Holders(f)) - 1
             /\ Cardinality(Holders(f)) \in Nat
        BY <2>2, <3>1, Counting
      <3>3. frameRefs'[f] = frameRefs[f] - 1
        BY <2>3 DEF Unref
      <3>4. {s \in Sources : current'[s] = f} = {s \in Sources : current[s] = f}
        OBVIOUS
      <3>5. frameRefs'[f] = Cardinality({s \in Sources : current[s] = f})
                            + Cardinality(Holders(f) \ {w})
        BY <2>1, <2>2, <3>2, <3>3
      <3> QED
        BY <3>1, <3>4, <3>5
    <2>4. CASE f # g
      <3>1. {v \in Workers : Holds(v, f)'} = Holders(f)
        BY <2>4 DEF Holders, Holds
      <3>2. frameRefs'[f] = frameRefs[f]
        BY <2>4 DEF Unref
      <3> QED
        BY <2>1, <3>1, <3>2
    <2> QED
      BY <2>3, <2>4
  <1>4. FramesInUseKept'
    BY DEF FramesInUseKept
  <1> QED
    BY <1>2, <1>3, <1>4 DEF FrameRefsExact

(* A worker that holds none takes a frame that its source offers. *)
LEMMA FrameTaken ==
  ASSUME FrameRefsExact, FramesInUseKept, UNCHANGED <<current, unused>>,
         frameRefs \in [Frames -> Nat],
         NEW w \in Workers, NEW g \in Frames, NEW s \in Sources, current[s] = g,
         frameRefs' = [frameRefs EXCEPT ![g] = @ + 1],
         \A f \in Frames : ~Holds(w, f),
         \A f \in Frames : Holds(w, f)' <=> f = g,
         \A v \in Workers \ {w} : \A f \in Frames : Holds(v, f)' <=> Holds(v, f)
  PROVE  FrameRefsExact' /\ FramesInUseKept' /\ frameRefs' \in [Frames -> Nat]
  <1>2. frameRefs' \in [Frames -> Nat]
    OBVIOUS
  <1>3. ASSUME NEW f \in Frames
        PROVE  frameRefs'[f] = Cardinality({r \in Sources : current'[r] = f})
                               + Cardinality({v \in Workers : Holds(v, f)'})
    <2>1. frameRefs[f] = Cardinality({r \in Sources : current[r] = f})
                         + Cardinality(Holders(f))
      BY DEF FrameRefsExact, Holders
    <2>2. IsFiniteSet(Holders(f)) /\ Cardinality({r \in Sources : current[r] = f}) \in Nat
      BY Finite DEF Holders
    <2>3. CASE f = g
      <3>1. {v \in Workers : Holds(v, f)'} = Holders(f) \cup {w} /\ w \notin Holders(f)
        BY <2>3 DEF Holders
      <3>2. Cardinality(Holders(f) \cup {w}) = Cardinality(Holders(f)) + 1
             /\ Cardinality(Holders(f)) \in Nat
        BY <2>2, <3>1, Counting
      <3>3. frameRefs'[f] = frameRefs[f] + 1
        BY <2>3
      <3> QED
        BY <2>1, <2>2, <3>1, <3>2, <3>3
    <2>4. CASE f # g
      <3>1. {v \in Workers : Holds(v, f)'} = Holders(f)
        BY <2>4 DEF Holders
      <3>2. frameRefs'[f] = frameRefs[f]
        BY <2>4
      <3> QED
        BY <2>1, <3>1, <3>2
    <2> QED
      BY <2>3, <2>4
  <1>4. FramesInUseKept'
    BY DEF FramesInUseKept
  <1> QED
    BY <1>2, <1>3, <1>4 DEF FrameRefsExact

(* The references to sources when the stream stays attached or detaches. *)
LEMMA SourcesKept ==
  ASSUME SourcesCounted, sourceRefs \in [Sources -> Nat],
         UNCHANGED <<sourceRefs, dpc, freed, found>>,
         source' = source \/ source' = NULL,
         Replacing => Replacing'
  PROVE  SourcesCounted'
  <1>1. \A s \in Sources : Attached(s)' => Attached(s)
    BY ServerStreamAssumption DEF Attached
  <1>2. ASSUME NEW s \in Sources
        PROVE  sourceRefs[s] >= (IF dpc[s] # "done" THEN 1 ELSE 0)
                                + (IF Attached(s)' THEN 1 ELSE 0)
                                + (IF found = s THEN 1 ELSE 0)
    <2>1. /\ sourceRefs[s] \in Nat
          /\ sourceRefs[s] >= (IF dpc[s] # "done" THEN 1 ELSE 0)
                              + (IF Attached(s) THEN 1 ELSE 0)
                              + (IF found = s THEN 1 ELSE 0)
      BY DEF SourcesCounted
    <2> QED
      BY <1>1, <2>1
  <1> QED
    BY <1>2 DEF SourcesCounted

(* What is needed of products, for ReadyCounted. *)
LEMMA Products ==
  ASSUME NEW m \in Nat, NEW n \in Nat, NEW k \in Nat
  PROVE  /\ k * m \in Nat
         /\ k * (m + 1) = k * m + k
         /\ m <= n => k * m <= k * n
         /\ k * m = m * k
  OBVIOUS

(* Nothing is encoded and nobody who may have left chunks is forgotten. *)
LEMMA ReadyKept ==
  ASSUME ReadyCounted, ready \in Nat, ready' \in Nat, ready' <= ready,
         \A w \in Workers : MaySend(w) => MaySend(w)'
  PROVE  ReadyCounted'
  <1>1. Senders \in SUBSET Workers /\ Senders' \in SUBSET Workers
    BY DEF Senders, Workers
  <1>2. IsFiniteSet(Senders') /\ Cardinality(Senders) \in Nat /\ Cardinality(Senders') \in Nat
    BY <1>1, Finite
  <1>3. Senders \subseteq Senders'
    BY DEF Senders, Workers
  <1>4. Cardinality(Senders) <= Cardinality(Senders')
    BY <1>2, <1>3, FS_Subset
  <1>5. Chunks \in Nat
    BY ServerStreamAssumption
  <1>6. /\ Chunks * Cardinality(Senders) <= Chunks * Cardinality(Senders')
        /\ Chunks * Cardinality(Senders) \in Nat /\ Chunks * Cardinality(Senders') \in Nat
    BY <1>2, <1>4, <1>5, Products
  <1> QED
    BY <1>6 DEF ReadyCounted
-----------------------------------------------------------------------------
(* The steps. *)

(* Worker v moves no reference to a frame and stays among those who may have left
   chunks. *)
Still(v) == /\ MaySend(v) => MaySend(v)'
            /\ \A f \in Frames : Holds(v, f)' <=> Holds(v, f)

(* A step that counts nothing: it is enough to look at types and at each worker. *)
LEMMA Kept ==
  ASSUME IInv, TypeOK', \A v \in Workers : WorkerOK(v)' /\ Still(v), ClientOK',
         UNCHANGED <<frameRefs, current, unused, sourceRefs, dpc, freed, found>>,
         source' = source \/ source' = NULL, Replacing => Replacing', ready' <= ready
  PROVE  IInv'
  <1>1. FrameRefsExact' /\ FramesInUseKept'
    BY FramesKept DEF IInv, Still
  <1>2. SourcesCounted'
    BY SourcesKept DEF IInv, TypeOK
  <1>3. ready \in Nat /\ ready' \in Nat
    BY DEF IInv, TypeOK
  <1>4. ReadyCounted'
    BY <1>3, ReadyKept DEF IInv, Still
  <1>5. Workers' = Workers
    BY DEF Workers
  <1> QED
    BY <1>1, <1>2, <1>4, <1>5 DEF IInv

(* The client's thread is none of the workers. *)
LEMMA ThreadFacts ==
  /\ Client \in Threads /\ Client \notin Workers /\ Workers \subseteq Threads
  /\ \A w \in Workers : w # Client
  BY ServerStreamAssumption DEF Client, Threads, Workers

(* spoiled stays a function to BOOLEAN. *)
LEMMA SpoilType ==
  ASSUME Spoil
  PROVE  spoiled' \in [Workers -> BOOLEAN]
  BY Zenon DEF Spoil

(* One chunk less. *)
LEMMA OneLess ==
  ASSUME NEW n, NEW r \in 0 .. n, n \in Nat, r > 0
  PROVE  r - 1 \in 0 .. n /\ r - 1 <= r
  OBVIOUS

(* Every worker is at one of its places. *)
WellPlaced == wpc \in [Workers -> {"off", "loop", "call", "lock", "sleep", "asleep", "take",
                                   "null", "pause", "dismiss", "detach", "clear",
                                   "notify", "got", "encoding", "send", "exit", "dead"}]

USE DEF stream, threads, sources, frames, others, WellPlaced, Attaching, Replacing

(* The process dies. *)
LEMMA DieKeeps ==
  ASSUME IInv, NEW why \in {"nullSource", "nullFrame", "nullProperties", "useAfterFree"},
         Die(why)
  PROVE  IInv'
  <1>1. TypeOK'
    BY DEF IInv, TypeOK, Die
  <1>2. ASSUME NEW v \in Workers PROVE WorkerOK(v)' /\ Still(v)
    BY DEF IInv, Die, WorkerOK, WithSource, Still, MaySend, Holds
  <1>3. ClientOK'
    BY DEF IInv, ClientOK, Die
  <1> QED
    BY <1>1, <1>2, <1>3, Kept DEF IInv, TypeOK, Die

(* The test at the head of the worker's loop. *)
LEMMA LoopKeeps ==
  ASSUME IInv, NEW w \in Workers, Loop(w)
  PROVE  IInv'
  <1>1. TypeOK'
    BY DEF IInv, TypeOK, WorkerOK, WithSource, ClientOK, Loop, Run, Goto
  <1>2. ASSUME NEW v \in Workers PROVE WorkerOK(v)' /\ Still(v)
    BY DEF IInv, TypeOK, WorkerOK, WithSource, Still, MaySend, Holds, Loop, Run, Goto
  <1>3. ClientOK'
    BY DEF IInv, TypeOK, ClientOK, Loop, Run, Goto
  <1> QED
    BY <1>1, <1>2, <1>3, Kept DEF IInv, TypeOK, Loop, Run, Goto

(* GetFrame returned NULL: the worker pauses the stream or ends. *)
LEMMA NoFrameKeeps ==
  ASSUME IInv, NEW w \in Workers, NoFrame(w)
  PROVE  IInv'
  <1>1. TypeOK'
    BY ThreadFacts DEF IInv, TypeOK, WorkerOK, WithSource, ClientOK, NoFrame, Run, Goto
  <1>2. ASSUME NEW v \in Workers PROVE WorkerOK(v)' /\ Still(v)
    BY ThreadFacts DEF IInv, TypeOK, WorkerOK, WithSource, Still, MaySend, Holds, NoFrame, Run, Goto
  <1>3. ClientOK'
    BY ThreadFacts DEF IInv, TypeOK, ClientOK, NoFrame, Run, Goto
  <1> QED
    BY <1>1, <1>2, <1>3, Kept DEF IInv, TypeOK, NoFrame, Run, Goto

(* The worker skips its frame or starts to encode it. *)
LEMMA GotKeeps ==
  ASSUME IInv, NEW w \in Workers, Got(w)
  PROVE  IInv'
  <1>1. TypeOK'
    BY DEF IInv, TypeOK, WorkerOK, WithSource, ClientOK, Got, Run, Goto
  <1>2. ASSUME NEW v \in Workers PROVE WorkerOK(v)' /\ Still(v)
    BY DEF IInv, TypeOK, WorkerOK, WithSource, Still, MaySend, Holds, Got, Run, Goto
  <1>3. ClientOK'
    BY DEF IInv, TypeOK, ClientOK, Got, Run, Goto
  <1> QED
    BY <1>1, <1>2, <1>3, Kept DEF IInv, TypeOK, Got, Run, Goto

(* One Data message is sent. *)
LEMMA SendChunkKeeps ==
  ASSUME IInv, NEW w \in Workers, SendChunk(w)
  PROVE  IInv'
  <1>0. ready' \in 0 .. MaxWorkers * Chunks /\ ready' <= ready
    <2>1. MaxWorkers * Chunks \in Nat
      BY ServerStreamAssumption, Products
    <2> QED
      BY <2>1, OneLess DEF IInv, TypeOK, SendChunk
  <1>1. TypeOK'
    BY <1>0 DEF IInv, TypeOK, WorkerOK, WithSource, ClientOK, SendChunk, Run, Goto
  <1>2. ASSUME NEW v \in Workers PROVE WorkerOK(v)' /\ Still(v)
    BY DEF IInv, TypeOK, WorkerOK, WithSource, Still, MaySend, Holds, SendChunk, Run, Goto
  <1>3. ClientOK'
    BY DEF IInv, TypeOK, ClientOK, SendChunk, Run, Goto
  <1> QED
    BY <1>1, <1>2, <1>3, <1>0, Kept DEF IInv, TypeOK, SendChunk, Run, Goto

(* Sending fails and the worker turns to pausing the stream. *)
LEMMA SendFailsKeeps ==
  ASSUME IInv, NEW w \in Workers, SendFails(w)
  PROVE  IInv'
  <1>0. ready' \in 0 .. MaxWorkers * Chunks /\ ready' <= ready
    <2>1. MaxWorkers * Chunks \in Nat
      BY ServerStreamAssumption, Products
    <2> QED
      BY <2>1, OneLess DEF IInv, TypeOK, SendFails
  <1>1. TypeOK'
    BY <1>0, ThreadFacts DEF IInv, TypeOK, WorkerOK, WithSource, ClientOK, SendFails, Run, Goto
  <1>2. ASSUME NEW v \in Workers PROVE WorkerOK(v)' /\ Still(v)
    BY ThreadFacts DEF IInv, TypeOK, WorkerOK, WithSource, Still, MaySend, Holds, SendFails, Run, Goto
  <1>3. ClientOK'
    BY ThreadFacts DEF IInv, TypeOK, ClientOK, SendFails, Run, Goto
  <1> QED
    BY <1>1, <1>2, <1>3, <1>0, Kept DEF IInv, TypeOK, SendFails, Run, Goto

(* A worker pauses the stream. *)
LEMMA PauseKeeps ==
  ASSUME IInv, NEW w \in Workers, Pause(w)
  PROVE  IInv'
  <1>1. TypeOK'
    BY DEF IInv, TypeOK, WorkerOK, WithSource, ClientOK, Pause, Run, Goto
  <1>2. ASSUME NEW v \in Workers PROVE WorkerOK(v)' /\ Still(v)
    BY DEF IInv, TypeOK, WorkerOK, WithSource, Still, MaySend, Holds, Pause, Run, Goto
  <1>3. ClientOK'
    BY DEF IInv, TypeOK, ClientOK, Pause, Run, Goto
  <1> QED
    BY <1>1, <1>2, <1>3, Kept DEF IInv, TypeOK, Pause, Run, Goto

(* DetachSource tests the state. *)
LEMMA DetachKeeps ==
  ASSUME IInv, NEW w \in Workers, Detach(w)
  PROVE  IInv'
  <1>1. TypeOK'
    BY DEF IInv, TypeOK, WorkerOK, WithSource, ClientOK, Detach, Run, Goto
  <1>2. ASSUME NEW v \in Workers PROVE WorkerOK(v)' /\ Still(v)
    BY DEF IInv, TypeOK, WorkerOK, WithSource, Still, MaySend, Holds, Detach, Run, Goto
  <1>3. ClientOK'
    BY DEF IInv, TypeOK, ClientOK, Detach, Run, Goto
  <1> QED
    BY <1>1, <1>2, <1>3, Kept DEF IInv, TypeOK, Detach, Run, Goto

(* The client is told that its stream is orphaned. *)
LEMMA NotifyKeeps ==
  ASSUME IInv, NEW w \in Workers, Notify(w)
  PROVE  IInv'
  <1>1. TypeOK'
    BY DEF IInv, TypeOK, WorkerOK, WithSource, ClientOK, Notify, Run, Goto
  <1>2. ASSUME NEW v \in Workers PROVE WorkerOK(v)' /\ Still(v)
    BY DEF IInv, TypeOK, WorkerOK, WithSource, Still, MaySend, Holds, Notify, Run, Goto
  <1>3. ClientOK'
    BY DEF IInv, TypeOK, ClientOK, Notify, Run, Goto
  <1> QED
    BY <1>1, <1>2, <1>3, Kept DEF IInv, TypeOK, Notify, Run, Goto

(* GetFrame takes the lock and decides whether to wait. *)
LEMMA CheckKeeps ==
  ASSUME IInv, NEW w \in Workers, Check(w)
  PROVE  IInv'
  <1>1. TypeOK'
    BY DEF IInv, TypeOK, WorkerOK, WithSource, ClientOK, Check, InGetFrame, Run, Goto
  <1>2. ASSUME NEW v \in Workers PROVE WorkerOK(v)' /\ Still(v)
    BY DEF IInv, TypeOK, WorkerOK, WithSource, Still, MaySend, Holds, Check, InGetFrame, Run, Goto
  <1>3. ClientOK'
    BY DEF IInv, TypeOK, ClientOK, Check, InGetFrame, Run, Goto
  <1> QED
    BY <1>1, <1>2, <1>3, Kept DEF IInv, TypeOK, Check, InGetFrame, Run, Goto

(* GetFrame waits and gives the lock up. *)
LEMMA SleepKeeps ==
  ASSUME IInv, NEW w \in Workers, Sleep(w)
  PROVE  IInv'
  <1>1. TypeOK'
    BY DEF IInv, TypeOK, WorkerOK, WithSource, ClientOK, Sleep, InGetFrame, Run, Goto
  <1>2. ASSUME NEW v \in Workers PROVE WorkerOK(v)' /\ Still(v)
    BY DEF IInv, TypeOK, WorkerOK, WithSource, Still, MaySend, Holds, Sleep, InGetFrame, Run, Goto
  <1>3. ClientOK'
    BY DEF IInv, TypeOK, ClientOK, Sleep, InGetFrame, Run, Goto
  <1> QED
    BY <1>1, <1>2, <1>3, Kept DEF IInv, TypeOK, Sleep, InGetFrame, Run, Goto

(* DetachSource forgets the source, whose reference leaks. *)
LEMMA ClearKeeps ==
  ASSUME IInv, NEW w \in Workers, Clear(w)
  PROVE  IInv'
  <1>0. spoiled' \in [Workers -> BOOLEAN]
    BY SpoilType DEF Clear
  <1>1. TypeOK'
    <2>1. properties' \in BOOLEAN
      BY DEF Clear
    <2>2. WellPlaced'
      BY DEF IInv, TypeOK, Clear, Goto
    <2>3. source' \in Sources \cup {NULL}
      BY DEF Clear
    <2> QED
      BY <1>0, <2>1, <2>2, <2>3 DEF IInv, TypeOK, Clear
  <1>2. ASSUME NEW v \in Workers PROVE WorkerOK(v)' /\ Still(v)
    BY DEF IInv, TypeOK, WorkerOK, WithSource, Still, MaySend, Holds, Clear, Run, Goto
  <1>3. ClientOK'
    BY DEF IInv, TypeOK, ClientOK, Clear, Run, Goto
  <1> QED
    BY <1>1, <1>2, <1>3, Kept DEF IInv, TypeOK, Clear, Run, Goto

(* The request to pause arrives. *)
LEMMA RPauseKeeps ==
  ASSUME IInv, RPause
  PROVE  IInv'
  <1>1. TypeOK'
    BY ThreadFacts DEF IInv, TypeOK, WorkerOK, WithSource, ClientOK, RPause, Handle
  <1>2. ASSUME NEW v \in Workers PROVE WorkerOK(v)' /\ Still(v)
    BY ThreadFacts DEF IInv, TypeOK, WorkerOK, WithSource, Still, MaySend, Holds, RPause, Handle
  <1>3. ClientOK'
    BY ThreadFacts DEF IInv, TypeOK, ClientOK, RPause, Handle
  <1> QED
    BY <1>1, <1>2, <1>3, Kept DEF IInv, TypeOK, RPause, Handle

(* The request to close arrives. *)
LEMMA RCloseKeeps ==
  ASSUME IInv, RClose
  PROVE  IInv'
  <1>1. TypeOK'
    BY ThreadFacts DEF IInv, TypeOK, WorkerOK, WithSource, ClientOK, RClose, Handle
  <1>2. ASSUME NEW v \in Workers PROVE WorkerOK(v)' /\ Still(v)
    BY ThreadFacts DEF IInv, TypeOK, WorkerOK, WithSource, Still, MaySend, Holds, RClose, Handle
  <1>3. ClientOK'
    BY ThreadFacts DEF IInv, TypeOK, ClientOK, RClose, Handle
  <1> QED
    BY <1>1, <1>2, <1>3, Kept DEF IInv, TypeOK, RClose, Handle

(* The temporary frames are reallocated. *)
LEMMA RResizeKeeps ==
  ASSUME IInv, RResize
  PROVE  IInv'
  <1>0. spoiled' \in [Workers -> BOOLEAN]
    BY SpoilType DEF RResize
  <1>1. TypeOK'
    BY <1>0 DEF IInv, TypeOK, WorkerOK, WithSource, ClientOK, RResize, Handle
  <1>2. ASSUME NEW v \in Workers PROVE WorkerOK(v)' /\ Still(v)
    BY DEF IInv, TypeOK, WorkerOK, WithSource, Still, MaySend, Holds, RResize, Handle
  <1>3. ClientOK'
    BY DEF IInv, TypeOK, ClientOK, RResize, Handle
  <1> QED
    BY <1>1, <1>2, <1>3, Kept DEF IInv, TypeOK, RResize, Handle

(* The client is gone and its stream is to be destroyed. *)
LEMMA MarkForClosingKeeps ==
  ASSUME IInv, MarkForClosing
  PROVE  IInv'
  <1>1. TypeOK'
    BY ThreadFacts DEF IInv, TypeOK, WorkerOK, WithSource, ClientOK, MarkForClosing
  <1>2. ASSUME NEW v \in Workers PROVE WorkerOK(v)' /\ Still(v)
    BY ThreadFacts DEF IInv, TypeOK, WorkerOK, WithSource, Still, MaySend, Holds, MarkForClosing
  <1>3. ClientOK'
    BY ThreadFacts DEF IInv, TypeOK, ClientOK, MarkForClosing
  <1> QED
    BY <1>1, <1>2, <1>3, Kept DEF IInv, TypeOK, MarkForClosing

(* The client's thread pauses the stream. *)
LEMMA ClientPauseKeeps ==
  ASSUME IInv, ClientPause
  PROVE  IInv'
  <1>1. TypeOK'
    BY ThreadFacts DEF IInv, TypeOK, WorkerOK, WithSource, ClientOK, ClientPause
  <1>2. ASSUME NEW v \in Workers PROVE WorkerOK(v)' /\ Still(v)
    BY ThreadFacts DEF IInv, TypeOK, WorkerOK, WithSource, Still, MaySend, Holds, ClientPause
  <1>3. ClientOK'
    BY ThreadFacts DEF IInv, TypeOK, ClientOK, ClientPause
  <1> QED
    BY <1>1, <1>2, <1>3, Kept DEF IInv, TypeOK, ClientPause

(* The client is told that its stream is paused. *)
LEMMA ClientReplyKeeps ==
  ASSUME IInv, ClientReply
  PROVE  IInv'
  <1>1. TypeOK'
    BY ThreadFacts DEF IInv, TypeOK, WorkerOK, WithSource, ClientOK, ClientReply
  <1>2. ASSUME NEW v \in Workers PROVE WorkerOK(v)' /\ Still(v)
    BY ThreadFacts DEF IInv, TypeOK, WorkerOK, WithSource, Still, MaySend, Holds, ClientReply
  <1>3. ClientOK'
    BY ThreadFacts DEF IInv, TypeOK, ClientOK, ClientReply
  <1> QED
    BY <1>1, <1>2, <1>3, Kept DEF IInv, TypeOK, ClientReply

(* SVRD_Stream_destroy takes the stream's lock. *)
LEMMA DestroyKeeps ==
  ASSUME IInv, Destroy
  PROVE  IInv'
  <1>1. TypeOK'
    BY ThreadFacts DEF IInv, TypeOK, WorkerOK, WithSource, ClientOK, Destroy
  <1>2. ASSUME NEW v \in Workers PROVE WorkerOK(v)' /\ Still(v)
    BY ThreadFacts DEF IInv, TypeOK, WorkerOK, WithSource, Still, MaySend, Holds, Destroy
  <1>3. ClientOK'
    BY ThreadFacts DEF IInv, TypeOK, ClientOK, Destroy
  <1> QED
    BY <1>1, <1>2, <1>3, Kept DEF IInv, TypeOK, Destroy

(* The worker has ended and the stream is freed. *)
LEMMA JoinKeeps ==
  ASSUME IInv, Join
  PROVE  IInv'
  <1>0. ready' \in 0 .. MaxWorkers * Chunks /\ ready' <= ready
    <2>1. MaxWorkers * Chunks \in Nat
      BY ServerStreamAssumption, Products
    <2> QED
      BY <2>1 DEF IInv, TypeOK, Join
  <1>1. TypeOK'
    BY <1>0, ThreadFacts DEF IInv, TypeOK, Join
  <1>2. ASSUME NEW v \in Workers PROVE WorkerOK(v)' /\ Still(v)
    BY ThreadFacts DEF IInv, TypeOK, WorkerOK, WithSource, Still, MaySend, Holds, Join
  <1>3. ClientOK'
    BY ThreadFacts DEF IInv, TypeOK, ClientOK, Join
  <1> QED
    BY <1>0, <1>1, <1>2, <1>3, Kept DEF IInv, TypeOK, Join

(* The client is gone and has no stream. *)
LEMMA MarkForClosingNoStreamKeeps ==
  ASSUME IInv, MarkForClosingNoStream
  PROVE  IInv'
  <1>1. TypeOK'
    BY ThreadFacts DEF IInv, TypeOK, WorkerOK, WithSource, ClientOK, MarkForClosingNoStream
  <1>2. ASSUME NEW v \in Workers PROVE WorkerOK(v)' /\ Still(v)
    BY ThreadFacts DEF IInv, TypeOK, WorkerOK, WithSource, Still, MaySend, Holds, MarkForClosingNoStream
  <1>3. ClientOK'
    BY ThreadFacts DEF IInv, TypeOK, ClientOK, MarkForClosingNoStream
  <1> QED
    BY <1>1, <1>2, <1>3, Kept DEF IInv, TypeOK, MarkForClosingNoStream

(* The peer disappears. *)
LEMMA VanishKeeps ==
  ASSUME IInv, Vanish
  PROVE  IInv'
  <1>1. TypeOK'
    BY ThreadFacts DEF IInv, TypeOK, WorkerOK, WithSource, ClientOK, Vanish
  <1>2. ASSUME NEW v \in Workers PROVE WorkerOK(v)' /\ Still(v)
    BY ThreadFacts DEF IInv, TypeOK, WorkerOK, WithSource, Still, MaySend, Holds, Vanish
  <1>3. ClientOK'
    BY ThreadFacts DEF IInv, TypeOK, ClientOK, Vanish
  <1> QED
    BY <1>1, <1>2, <1>3, Kept DEF IInv, TypeOK, Vanish

(* An empty encoder, whoever may have left chunks in it. *)
LEMMA NothingReady ==
  ASSUME ready' = 0
  PROVE  ReadyCounted'
  <1>1. Senders' \in SUBSET Workers
    BY DEF Senders, Workers
  <1>2. Chunks \in Nat /\ Cardinality(Senders') \in Nat
    BY <1>1, Finite, ServerStreamAssumption
  <1>3. Chunks * Cardinality(Senders') \in Nat
    BY <1>2, Products
  <1> QED
    BY <1>3 DEF ReadyCounted

(* Nothing is left to send: the worker goes on with an empty encoder. *)
LEMMA AllSentKeeps ==
  ASSUME IInv, NEW w \in Workers, AllSent(w)
  PROVE  IInv'
  <1>1. TypeOK'
    BY DEF IInv, TypeOK, AllSent, Run, Goto
  <1>2. ASSUME NEW v \in Workers
        PROVE  WorkerOK(v)' /\ \A f \in Frames : Holds(v, f)' <=> Holds(v, f)
    BY DEF IInv, TypeOK, WorkerOK, WithSource, Holds, AllSent, Run, Goto
  <1>3. ClientOK'
    BY DEF IInv, ClientOK, AllSent
  <1>4. FrameRefsExact' /\ FramesInUseKept'
    BY <1>2, FramesKept DEF IInv, AllSent
  <1>5. SourcesCounted'
    BY SourcesKept DEF IInv, TypeOK, AllSent
  <1>6. ReadyCounted'
    BY NothingReady DEF AllSent
  <1> QED
    BY <1>1, <1>2, <1>3, <1>4, <1>5, <1>6 DEF IInv, Workers

(* The chunks of one more frame. *)
LEMMA EncodedKeeps ==
  ASSUME IInv, NEW w \in Workers, Encoded(w)
  PROVE  IInv'
  <1>1. CASE Die("useAfterFree")
    BY <1>1, DieKeeps
  <1>2. CASE ~Die("useAfterFree")
    <2>1. /\ wpc[w] = "encoding" /\ wpc' = [wpc EXCEPT ![w] = "send"]
          /\ ready' = ready + Chunks
          /\ spoiled' = [spoiled EXCEPT ![w] = FALSE]
          /\ UNCHANGED <<state, source, properties, worker, lock, held, arg, return, cpc,
                         sources, frames, others>>
      BY <1>2 DEF Encoded, Run, Goto
    <2>2. ASSUME NEW v \in Workers
          PROVE  WorkerOK(v)' /\ \A f \in Frames : Holds(v, f)' <=> Holds(v, f)
      BY <2>1 DEF IInv, TypeOK, WorkerOK, WithSource, Holds
    <2>3. ClientOK'
      BY <2>1 DEF IInv, ClientOK
    <2>4. FrameRefsExact' /\ FramesInUseKept'
      BY <2>1, <2>2, FramesKept DEF IInv
    <2>5. SourcesCounted'
      BY <2>1, SourcesKept DEF IInv, TypeOK
    <2>6. /\ Senders' = Senders \cup {w} /\ w \notin Senders
          /\ Senders \in SUBSET Workers /\ Senders' \in SUBSET Workers
      BY <2>1 DEF IInv, TypeOK, Senders, MaySend, Workers
    <2>7. /\ Cardinality(Senders') = Cardinality(Senders) + 1
          /\ Cardinality(Senders) \in Nat /\ Cardinality(Senders') \in Nat
          /\ Cardinality(Senders') <= MaxWorkers
      BY <2>6, Finite, Counting
    <2>8. Chunks \in Nat /\ MaxWorkers \in Nat /\ ready \in Nat
      BY ServerStreamAssumption DEF IInv, TypeOK
    <2>9. /\ Chunks * Cardinality(Senders') = Chunks * Cardinality(Senders) + Chunks
          /\ Chunks * Cardinality(Senders') <= Chunks * MaxWorkers
          /\ Chunks * MaxWorkers = MaxWorkers * Chunks
      BY <2>7, <2>8, Products
    <2>10. Chunks * Cardinality(Senders) \in Nat /\ MaxWorkers * Chunks \in Nat
      BY <2>7, <2>8, Products
    <2>11. ready <= Chunks * Cardinality(Senders)
      BY DEF IInv, ReadyCounted
    <2>12. ReadyCounted' /\ ready' \in 0 .. MaxWorkers * Chunks
      BY <2>1, <2>8, <2>9, <2>10, <2>11 DEF ReadyCounted
    <2>13. TypeOK'
      BY <2>1, <2>12 DEF IInv, TypeOK
    <2> QED
      BY <2>2, <2>3, <2>4, <2>5, <2>12, <2>13 DEF IInv, Workers
  <1> QED
    BY <1>1, <1>2

(* The workers that wait for a source go on to take its lock again. *)
LEMMA WakeKeeps ==
  ASSUME IInv, NEW s, NEW w \in Threads, NEW place,
         Wake(s, w, place),
         w \in Workers => wpc[w] = "dismiss" /\ place = return[w],
         UNCHANGED <<source, ready, held, arg, return, state, spoiled>>
  PROVE  /\ WellPlaced'
         /\ \A v \in Workers : WorkerOK(v)' /\ Still(v)
  <1>1. ASSUME NEW v \in Workers
        PROVE  /\ wpc'[v] = IF v = w THEN place
                            ELSE IF wpc[v] = "asleep" /\ arg[v] = s THEN "lock" ELSE wpc[v]
               /\ v = w => wpc[v] = "dismiss" /\ place \in {"loop", "detach"}
    BY DEF Wake, IInv, WorkerOK
  <1>2. WellPlaced'
    BY <1>1 DEF IInv, TypeOK, Wake
  <1>3. ASSUME NEW v \in Workers
        PROVE  WorkerOK(v)' /\ Still(v)
    BY <1>1 DEF IInv, WorkerOK, WithSource, Holds, Still, MaySend
  <1> QED
    BY <1>2, <1>3

(* A worker wakes the others that wait for the source. *)
LEMMA DismissKeeps ==
  ASSUME IInv, NEW w \in Workers, Dismiss(w)
  PROVE  IInv'
  <1>1. CASE Die("nullSource") \/ Die("useAfterFree")
    BY <1>1, DieKeeps
  <1>2. CASE ~(Die("nullSource") \/ Die("useAfterFree"))
    <2>1. /\ wpc[w] = "dismiss" /\ Wake(source, w, return[w])
          /\ UNCHANGED <<stream, held, arg, return, spoiled, cpc, sources, frames, others>>
      BY <1>2 DEF Dismiss, Run
    <2>2. /\ WellPlaced'
          /\ \A v \in Workers : WorkerOK(v)' /\ Still(v)
      BY <2>1, WakeKeeps, ThreadFacts
    <2>3. TypeOK'
      BY <2>1, <2>2 DEF IInv, TypeOK
    <2>4. ClientOK'
      BY <2>1 DEF IInv, ClientOK
    <2> QED
      BY <2>1, <2>2, <2>3, <2>4, Kept DEF IInv, TypeOK
  <1> QED
    BY <1>1, <1>2

(* The client's thread wakes the workers that wait for the source. *)
LEMMA ClientDismissKeeps ==
  ASSUME IInv, ClientDismiss
  PROVE  IInv'
  <1>1. CASE Die("nullSource") \/ Die("useAfterFree")
    BY <1>1, DieKeeps
  <1>2. CASE ~(Die("nullSource") \/ Die("useAfterFree"))
    <2>1. /\ cpc = "dismiss" /\ cpc' = return[Client] /\ Wake(source, Client, "none")
          /\ UNCHANGED <<stream, held, arg, return, spoiled, sources, frames, others>>
      BY <1>2 DEF ClientDismiss
    <2>2. /\ WellPlaced'
          /\ \A v \in Workers : WorkerOK(v)' /\ Still(v)
      BY <2>1, WakeKeeps, ThreadFacts
    <2>3. cpc' \in {"reply", "destroy"}
      BY <2>1 DEF IInv, ClientOK
    <2>4. TypeOK'
      BY <2>1, <2>2, <2>3 DEF IInv, TypeOK
    <2>5. ClientOK'
      BY <2>1, <2>3 DEF IInv, ClientOK
    <2> QED
      BY <2>1, <2>2, <2>4, <2>5, Kept DEF IInv, TypeOK
  <1> QED
    BY <1>1, <1>2

(* A worker uses what was freed. *)
LEMMA DanglingKeeps ==
  ASSUME IInv, NEW w \in Workers, Dangling(w)
  PROVE  IInv'
  BY DieKeeps DEF Dangling

(* The properties of a stream that has none are formatted. *)
LEMMA RGetInfoKeeps ==
  ASSUME IInv, RGetInfo
  PROVE  IInv'
  BY DieKeeps DEF RGetInfo

(* getFrame begins by giving the last frame back. *)
LEMMA CallKeeps ==
  ASSUME IInv, NEW w \in Workers, Call(w)
  PROVE  IInv'
  <1>1. CASE Die("nullSource")
    BY <1>1, DieKeeps
  <1>2. CASE ~Die("nullSource")
    <2>1. /\ wpc[w] = "call" /\ source # NULL /\ arg' = [arg EXCEPT ![w] = source]
          /\ wpc' = [wpc EXCEPT ![w] = "lock"]
          /\ IF held[w] = NULL THEN UNCHANGED frameRefs ELSE Unref(held[w])
          /\ UNCHANGED <<stream, held, return, spoiled, cpc, sources, frameSource, unused,
                         others>>
      BY <1>2 DEF Call, Run, Goto
    <2>2. ASSUME NEW v \in Workers
          PROVE  WorkerOK(v)' /\ (MaySend(v) => MaySend(v)')
      BY <2>1 DEF IInv, TypeOK, WorkerOK, WithSource, MaySend
    <2>3. ASSUME NEW v \in Workers \ {w}, NEW f \in Frames
          PROVE  Holds(v, f)' <=> Holds(v, f)
      BY <2>1 DEF IInv, TypeOK, Holds
    <2>4. ASSUME NEW f \in Frames
          PROVE  ~Holds(w, f)' /\ (Holds(w, f) <=> held[w] = f)
      BY <2>1 DEF IInv, TypeOK, Holds
    <2>5. FrameRefsExact' /\ FramesInUseKept' /\ frameRefs' \in [Frames -> Nat]
      <3>1. CASE held[w] = NULL
        <4>1. \A v \in Workers, f \in Frames : Holds(v, f)' <=> Holds(v, f)
          BY <2>3, <2>4, <3>1, ServerStreamAssumption
        <4> QED
          BY <2>1, <3>1, <4>1, FramesKept DEF IInv, TypeOK
      <3>2. CASE held[w] # NULL
        <4>1. held[w] \in Frames /\ Unref(held[w])
          BY <2>1, <3>2 DEF IInv, TypeOK
        <4>2. PICK g \in Frames : g = held[w]
          BY <4>1
        <4>3. Holds(w, g) /\ Unref(g) /\ frameRefs \in [Frames -> Nat]
          BY <2>4, <4>1, <4>2 DEF IInv, TypeOK
        <4> QED
          BY <2>1, <2>3, <2>4, <4>3, FrameGiven DEF IInv
      <3> QED
        BY <3>1, <3>2
    <2>6. SourcesCounted'
      BY <2>1, SourcesKept DEF IInv, TypeOK
    <2>7. ReadyCounted'
      BY <2>1, <2>2, ReadyKept DEF IInv, TypeOK
    <2>8. TypeOK'
      BY <2>1, <2>5 DEF IInv, TypeOK
    <2>9. ClientOK'
      BY <2>1 DEF IInv, ClientOK
    <2> QED
      BY <2>2, <2>5, <2>6, <2>7, <2>8, <2>9 DEF IInv, Workers
  <1> QED
    BY <1>1, <1>2

(* The worker ends. *)
LEMMA ExitKeeps ==
  ASSUME IInv, NEW w \in Workers, Exit(w)
  PROVE  IInv'
  <1>1. /\ wpc[w] = "exit" /\ held' = [held EXCEPT ![w] = NULL]
        /\ wpc' = [wpc EXCEPT ![w] = "dead"]
        /\ arg' = [arg EXCEPT ![w] = NULL] /\ return' = [return EXCEPT ![w] = "none"]
        /\ IF held[w] = NULL THEN UNCHANGED frameRefs ELSE Unref(held[w])
        /\ UNCHANGED <<stream, spoiled, cpc, sources, frameSource, unused, others>>
    BY DEF Exit, Goto
  <1>2. ASSUME NEW v \in Workers
        PROVE  WorkerOK(v)' /\ (MaySend(v) => MaySend(v)')
    BY <1>1 DEF IInv, TypeOK, WorkerOK, WithSource, MaySend
  <1>3. ASSUME NEW v \in Workers \ {w}, NEW f \in Frames
        PROVE  Holds(v, f)' <=> Holds(v, f)
    BY <1>1 DEF IInv, TypeOK, Holds
  <1>4. ASSUME NEW f \in Frames
        PROVE  ~Holds(w, f)' /\ (Holds(w, f) <=> held[w] = f)
    BY <1>1 DEF IInv, TypeOK, Holds
  <1>5. FrameRefsExact' /\ FramesInUseKept' /\ frameRefs' \in [Frames -> Nat]
    <2>1. CASE held[w] = NULL
      <3>1. \A v \in Workers, f \in Frames : Holds(v, f)' <=> Holds(v, f)
        BY <1>3, <1>4, <2>1, ServerStreamAssumption
      <3> QED
        BY <1>1, <2>1, <3>1, FramesKept DEF IInv, TypeOK
    <2>2. CASE held[w] # NULL
      <3>1. held[w] \in Frames /\ Unref(held[w])
        BY <1>1, <2>2 DEF IInv, TypeOK
      <3>2. PICK g \in Frames : g = held[w]
        BY <3>1
      <3>3. Holds(w, g) /\ Unref(g) /\ frameRefs \in [Frames -> Nat]
        BY <1>4, <3>1, <3>2 DEF IInv, TypeOK
      <3> QED
        BY <1>1, <1>3, <1>4, <3>3, FrameGiven DEF IInv
    <2> QED
      BY <2>1, <2>2
  <1>6. SourcesCounted'
    BY <1>1, SourcesKept DEF IInv, TypeOK
  <1>7. ReadyCounted'
    BY <1>1, <1>2, ReadyKept DEF IInv, TypeOK
  <1>8. TypeOK'
    BY <1>1, <1>5, ThreadFacts DEF IInv, TypeOK
  <1>9. ClientOK'
    BY <1>1, ThreadFacts DEF IInv, TypeOK, ClientOK
  <1> QED
    BY <1>2, <1>5, <1>6, <1>7, <1>8, <1>9 DEF IInv, Workers

(* The end of getFrame. *)
LEMMA TakeKeeps ==
  ASSUME IInv, NEW w \in Workers, Take(w)
  PROVE  IInv'
  <1> DEFINE s == arg[w]
  <1>1. /\ wpc[w] = "take" /\ s \in Sources /\ current[s] \in Frames \cup {NULL}
        /\ UNCHANGED <<stream, arg, return, spoiled, cpc, closed, current, dpc, sourceRefs,
                       freed, frameSource, unused, found, peer, told, orphaned>>
    BY DEF IInv, TypeOK, WorkerOK, WithSource, Take, InGetFrame, Run
  <1>2. ClientOK'
    BY <1>1 DEF IInv, ClientOK
  <1>3. SourcesCounted'
    BY <1>1, SourcesKept DEF IInv, TypeOK
  <1>4. CASE closed[s] \/ state # "UNPAUSED"
    <2>1. /\ held' = [held EXCEPT ![w] = NULL]
          /\ frameLock' = [frameLock EXCEPT ![s] = Nobody]
          /\ wpc' = [wpc EXCEPT ![w] = "null"]
          /\ UNCHANGED <<frameRefs, fault>>
      BY <1>4 DEF Take, Goto
    <2>2. TypeOK'
      BY <1>1, <2>1 DEF IInv, TypeOK
    <2>3. ASSUME NEW v \in Workers PROVE WorkerOK(v)' /\ Still(v)
      BY <1>1, <2>1, ServerStreamAssumption DEF IInv, TypeOK, WorkerOK, WithSource, Still,
         MaySend, Holds
    <2> QED
      BY <1>1, <1>2, <2>1, <2>2, <2>3, Kept DEF IInv, TypeOK
  <1>5. CASE ~(closed[s] \/ state # "UNPAUSED") /\ current[s] = NULL
    <2>1. fault' = "nullFrame" /\ UNCHANGED <<held, frameLock, wpc, frameRefs>>
      BY <1>5 DEF Take
    <2> QED
      BY <1>1, <2>1, DieKeeps DEF Die
  <1>6. CASE ~(closed[s] \/ state # "UNPAUSED") /\ current[s] # NULL
    <2>1. PICK r \in Sources : r = s
      BY <1>1
    <2>2. PICK g \in Frames : g = current[r]
      BY <1>1, <1>6, <2>1
    <2>3. /\ held' = [held EXCEPT ![w] = g]
          /\ frameRefs' = [frameRefs EXCEPT ![g] = @ + 1]
          /\ frameLock' = [frameLock EXCEPT ![s] = Nobody]
          /\ wpc' = [wpc EXCEPT ![w] = "got"]
          /\ UNCHANGED fault
      BY <1>6, <2>1, <2>2 DEF Take, Goto
    <2>4. ASSUME NEW v \in Workers
          PROVE  WorkerOK(v)' /\ (MaySend(v) => MaySend(v)')
      BY <1>1, <2>3 DEF IInv, TypeOK, WorkerOK, WithSource, MaySend
    <2>5. \A v \in Workers \ {w} : \A f \in Frames : Holds(v, f)' <=> Holds(v, f)
      BY <1>1, <2>3 DEF IInv, TypeOK, Holds
    <2>6. \A f \in Frames : ~Holds(w, f) /\ (Holds(w, f)' <=> f = g)
      BY <1>1, <2>3 DEF IInv, TypeOK, Holds
    <2>7. frameRefs \in [Frames -> Nat]
      BY DEF IInv, TypeOK
    <2>8. FrameRefsExact' /\ FramesInUseKept' /\ frameRefs' \in [Frames -> Nat]
      BY <1>1, <2>2, <2>3, <2>5, <2>6, <2>7, FrameTaken DEF IInv
    <2>9. ReadyCounted'
      BY <1>1, <2>4, ReadyKept DEF IInv, TypeOK
    <2>10. TypeOK'
      BY <1>1, <2>3, <2>8 DEF IInv, TypeOK
    <2> QED
      BY <1>2, <1>3, <2>4, <2>8, <2>9, <2>10 DEF IInv, Workers
  <1> QED
    BY <1>4, <1>5, <1>6

(* A start: a new worker, an empty encoder. *)
LEMMA RUnpauseKeeps ==
  ASSUME IInv, RUnpause
  PROVE  IInv'
  <1>1. /\ told' = "started"
        /\ UNCHANGED <<source, properties, lock, held, arg, return, cpc, sources, frames,
                       found, peer, orphaned, fault>>
        /\ cpc = "idle"
    BY DEF RUnpause, Handle
  <1>2. ClientOK'
    BY <1>1 DEF IInv, ClientOK
  <1>3. CASE UNCHANGED <<wpc, worker, state, ready, spoiled>>
    <2>1. TypeOK'
      BY <1>1, <1>3 DEF IInv, TypeOK
    <2>2. ASSUME NEW v \in Workers PROVE WorkerOK(v)' /\ Still(v)
      BY <1>1, <1>3 DEF IInv, WorkerOK, WithSource, Still, MaySend, Holds
    <2> QED
      BY <1>1, <1>2, <1>3, <2>1, <2>2, Kept DEF IInv, TypeOK
  <1>4. CASE ~UNCHANGED <<wpc, worker, state, ready, spoiled>>
    <2>1. PICK w \in Workers : wpc[w] = "off" /\ Goto(w, "loop") /\ worker' = w
      BY <1>4 DEF RUnpause
    <2>2. state' = "UNPAUSED" /\ ready' = 0 /\ Spoil
      BY <1>4 DEF RUnpause
    <2>3. spoiled' \in [Workers -> BOOLEAN]
      BY <2>2, SpoilType
    <2>4. ready' \in 0 .. MaxWorkers * Chunks
      <3>1. MaxWorkers * Chunks \in Nat
        BY ServerStreamAssumption, Products
      <3> QED
        BY <2>2, <3>1
    <2>5. TypeOK'
      BY <1>1, <2>1, <2>2, <2>3, <2>4, ZenonT(30) DEF IInv, TypeOK, Goto
    <2>6. ASSUME NEW v \in Workers
          PROVE  WorkerOK(v)' /\ \A f \in Frames : Holds(v, f)' <=> Holds(v, f)
      BY <1>1, <2>1, ServerStreamAssumption DEF IInv, TypeOK, WorkerOK, WithSource, Holds, Goto
    <2>7. FrameRefsExact' /\ FramesInUseKept'
      BY <1>1, <2>6, FramesKept DEF IInv
    <2>8. SourcesCounted'
      BY <1>1, SourcesKept DEF IInv, TypeOK
    <2>9. ReadyCounted'
      BY <2>2, NothingReady
    <2> QED
      BY <1>2, <2>5, <2>6, <2>7, <2>8, <2>9 DEF IInv, Workers
  <1> QED
    BY <1>3, <1>4

(* What a step of the attach has to say of the counts of the sources. *)
LEMMA AttachKeeps ==
  ASSUME IInv, TypeOK', ClientOK',
         UNCHANGED <<state, ready, wpc, held, arg, return, current, frames, dpc, freed>>,
         \A r \in Sources : /\ sourceRefs'[r] >= (IF dpc[r] # "done" THEN 1 ELSE 0)
                                                 + (IF Attached(r)' THEN 1 ELSE 0)
                                                 + (IF found' = r THEN 1 ELSE 0)
                            /\ freed[r] => sourceRefs'[r] = 0
  PROVE  IInv'
  <1>1. ASSUME NEW v \in Workers PROVE WorkerOK(v)' /\ Still(v)
    BY DEF IInv, WorkerOK, WithSource, Still, MaySend, Holds
  <1>2. FrameRefsExact' /\ FramesInUseKept'
    BY <1>1, FramesKept DEF IInv, Still
  <1>3. ReadyCounted'
    BY <1>1, ReadyKept DEF IInv, TypeOK, Still
  <1>4. SourcesCounted'
    BY DEF SourcesCounted
  <1> QED
    BY <1>1, <1>2, <1>3, <1>4 DEF IInv, Workers

(* What the counts of one source say. *)
LEMMA SourceCounted ==
  ASSUME IInv, NEW r \in Sources
  PROVE  /\ sourceRefs[r] \in Nat
         /\ sourceRefs[r] >= (IF dpc[r] # "done" THEN 1 ELSE 0)
                             + (IF Attached(r) THEN 1 ELSE 0)
                             + (IF found = r THEN 1 ELSE 0)
         /\ freed[r] => sourceRefs[r] = 0
  BY DEF IInv, TypeOK, SourcesCounted

(* The handler has looked a source up and has a reference to it. *)
LEMMA RAttachSourceKeeps ==
  ASSUME IInv, NEW s \in Sources, RAttachSource(s)
  PROVE  IInv'
  <1>1. /\ dpc[s] # "done" /\ found' = s /\ cpc = "idle" /\ cpc' = "attach"
        /\ sourceRefs' = [sourceRefs EXCEPT ![s] = @ + 1]
        /\ UNCHANGED <<stream, wpc, held, arg, return, spoiled, closed, current, frameLock, dpc,
                       freed, frames, peer, told, orphaned, fault>>
    BY DEF RAttachSource, Handle
  <1>2. found = NULL /\ sourceRefs \in [Sources -> Nat]
    BY <1>1 DEF IInv, TypeOK, ClientOK
  <1>3. ASSUME NEW r \in Sources
        PROVE  /\ sourceRefs'[r] \in Nat
               /\ sourceRefs'[r] >= (IF dpc[r] # "done" THEN 1 ELSE 0)
                                    + (IF Attached(r)' THEN 1 ELSE 0)
                                    + (IF found' = r THEN 1 ELSE 0)
               /\ freed[r] => sourceRefs'[r] = 0
    <2>1. Attached(r)' <=> Attached(r)
      BY <1>1 DEF Attached
    <2>2. found # r
      BY <1>2, ServerStreamAssumption
    <2> QED
      BY <1>1, <1>2, <2>1, <2>2, SourceCounted
  <1>4. TypeOK'
    BY <1>1, <1>2 DEF IInv, TypeOK
  <1>5. ClientOK'
    BY <1>1 DEF ClientOK
  <1> QED
    BY <1>1, <1>3, <1>4, <1>5, AttachKeeps

(* The stream is running, or the source has no frame properties: the reference goes back. *)
LEMMA RefuseSourceKeeps ==
  ASSUME IInv, RefuseSource
  PROVE  IInv'
  <1>1. /\ found' = NULL /\ cpc = "attach" /\ cpc' = "idle" /\ found \in Sources
        /\ sourceRefs' = [sourceRefs EXCEPT ![found] = @ - 1]
        /\ UNCHANGED <<stream, wpc, held, arg, return, spoiled, closed, current, frameLock, dpc,
                       freed, frames, peer, told, orphaned, fault>>
    BY DEF RefuseSource, IInv, ClientOK
  <1>2. sourceRefs \in [Sources -> Nat]
    BY DEF IInv, TypeOK
  <1>3. ASSUME NEW r \in Sources
        PROVE  /\ sourceRefs'[r] \in Nat
               /\ sourceRefs'[r] >= (IF dpc[r] # "done" THEN 1 ELSE 0)
                                    + (IF Attached(r)' THEN 1 ELSE 0)
                                    + (IF found' = r THEN 1 ELSE 0)
               /\ freed[r] => sourceRefs'[r] = 0
    <2>1. Attached(r)' <=> Attached(r)
      BY <1>1 DEF Attached
    <2>2. found' # r
      BY <1>1, ServerStreamAssumption
    <2> QED
      BY <1>1, <1>2, <2>1, <2>2, SourceCounted
  <1>4. TypeOK'
    <2>1. sourceRefs' \in [Sources -> Nat]
      BY <1>1, <1>2, <1>3
    <2> QED
      BY <1>1, <2>1 DEF IInv, TypeOK
  <1>5. ClientOK'
    BY <1>1 DEF ClientOK
  <1> QED
    BY <1>1, <1>3, <1>4, <1>5, AttachKeeps

(* The stream is paused and its old source is found. *)
LEMMA AttachSourceKeeps ==
  ASSUME IInv, AttachSource
  PROVE  IInv'
  <1>1. TypeOK'
    BY DEF IInv, TypeOK, AttachSource
  <1>2. ASSUME NEW v \in Workers PROVE WorkerOK(v)' /\ Still(v)
    BY DEF IInv, WorkerOK, WithSource, Still, MaySend, Holds, AttachSource
  <1>3. ClientOK'
    BY DEF IInv, ClientOK, AttachSource
  <1> QED
    BY <1>1, <1>2, <1>3, Kept DEF IInv, TypeOK, AttachSource

(* The stream's reference to the old source is given up, or there is none any more. *)
LEMMA UnrefSourceKeeps ==
  ASSUME IInv, UnrefSource
  PROVE  IInv'
  <1>1. CASE Die("nullSource")
    BY <1>1, DieKeeps
  <1>2. CASE ~Die("nullSource")
    <2>1. /\ source # NULL /\ cpc = "unref" /\ cpc' = "assign"
          /\ sourceRefs' = [sourceRefs EXCEPT ![source] = @ - 1]
          /\ UNCHANGED <<stream, wpc, held, arg, return, spoiled, closed, current, frameLock,
                         dpc, freed, frames, others>>
      BY <1>2 DEF UnrefSource
    <2>2. sourceRefs \in [Sources -> Nat]
      BY DEF IInv, TypeOK
    <2>3. ASSUME NEW r \in Sources
          PROVE  /\ sourceRefs'[r] \in Nat
                 /\ sourceRefs'[r] >= (IF dpc[r] # "done" THEN 1 ELSE 0)
                                      + (IF Attached(r)' THEN 1 ELSE 0)
                                      + (IF found' = r THEN 1 ELSE 0)
                 /\ freed[r] => sourceRefs'[r] = 0
      <3>1. ~Attached(r)' /\ (Attached(r) <=> source = r)
        BY <2>1 DEF Attached
      <3> QED
        BY <2>1, <2>2, <3>1, SourceCounted
    <2>4. TypeOK'
      <3>1. sourceRefs' \in [Sources -> Nat]
        BY <2>1, <2>2, <2>3
      <3> QED
        BY <2>1, <3>1 DEF IInv, TypeOK
    <2>5. ClientOK'
      BY <2>1 DEF IInv, ClientOK
    <2> QED
      BY <2>1, <2>3, <2>4, <2>5, AttachKeeps
  <1> QED
    BY <1>1, <1>2

(* The stream points to the new source, whose reference is still that of the lookup. *)
LEMMA AssignSourceKeeps ==
  ASSUME IInv, AssignSource
  PROVE  IInv'
  <1>1. /\ source' = found /\ cpc = "assign" /\ cpc' = "clone"
        /\ UNCHANGED <<state, properties, worker, lock, ready, wpc, held, arg, return, spoiled,
                       sources, frames, others>>
    BY DEF AssignSource
  <1>2. ASSUME NEW r \in Sources
        PROVE  /\ sourceRefs'[r] >= (IF dpc[r] # "done" THEN 1 ELSE 0)
                                    + (IF Attached(r)' THEN 1 ELSE 0)
                                    + (IF found' = r THEN 1 ELSE 0)
               /\ freed[r] => sourceRefs'[r] = 0
    <2>1. ~Attached(r)' /\ ~Attached(r)
      BY <1>1 DEF Attached
    <2> QED
      BY <1>1, <2>1, SourceCounted
  <1>3. TypeOK'
    BY <1>1 DEF IInv, TypeOK
  <1>4. ClientOK'
    BY <1>1 DEF IInv, ClientOK
  <1> QED
    BY <1>1, <1>2, <1>3, <1>4, AttachKeeps

(* From here on the reference is the stream's, or leaked if a worker has detached it. *)
LEMMA ClonePropertiesKeeps ==
  ASSUME IInv, CloneProperties
  PROVE  IInv'
  <1>1. /\ properties' = TRUE /\ found' = NULL /\ cpc = "clone" /\ cpc' = "idle"
        /\ UNCHANGED <<state, source, worker, lock, ready, wpc, held, arg, return, sources,
                       frames, peer, told, orphaned, fault>>
    BY DEF CloneProperties
  <1>2. source \in {found, NULL} /\ spoiled' \in [Workers -> BOOLEAN]
    BY <1>1, SpoilType DEF IInv, ClientOK, CloneProperties
  <1>3. ASSUME NEW r \in Sources
        PROVE  /\ sourceRefs'[r] >= (IF dpc[r] # "done" THEN 1 ELSE 0)
                                    + (IF Attached(r)' THEN 1 ELSE 0)
                                    + (IF found' = r THEN 1 ELSE 0)
               /\ freed[r] => sourceRefs'[r] = 0
    <2>1. ~Attached(r) /\ (Attached(r)' => found = r) /\ found' # r
      BY <1>1, <1>2, ServerStreamAssumption DEF Attached
    <2> QED
      BY <1>1, <2>1, SourceCounted
  <1>4. TypeOK'
    BY <1>1, <1>2 DEF IInv, TypeOK
  <1>5. ClientOK'
    BY <1>1 DEF ClientOK
  <1> QED
    BY <1>1, <1>3, <1>4, <1>5, AttachKeeps

(* A new frame: an unused block takes the place of the source's current one. *)
LEMMA ProvideKeeps ==
  ASSUME IInv, NEW s \in Sources, Provide(s)
  PROVE  IInv'
  <1>1. PICK g \in unused :
          /\ frameRefs' = [h \in Frames |-> IF h = g THEN 1
                                            ELSE IF h = current[s] THEN frameRefs[h] - 1
                                            ELSE frameRefs[h]]
          /\ frameSource' = [frameSource EXCEPT ![g] = s]
          /\ unused' = unused \ {g}
          /\ current' = [current EXCEPT ![s] = g]
    BY DEF Provide
  <1>2. /\ Wake(s, Client, "none")
        /\ UNCHANGED <<stream, held, arg, return, spoiled, cpc, closed, frameLock, dpc,
                       sourceRefs, freed, others>>
    BY DEF Provide
  <1>3. /\ WellPlaced'
        /\ \A v \in Workers : WorkerOK(v)' /\ Still(v)
    BY <1>2, WakeKeeps, ThreadFacts
  <1>4. g \in Frames /\ current \in [Sources -> Frames \cup {NULL}]
    BY <1>1 DEF IInv, TypeOK
  <1>5. Offering(g) = {} /\ Holders(g) = {}
    BY <1>1, <1>4, FrameCounted DEF IInv
  <1>6. ASSUME NEW f \in Frames
        PROVE  /\ frameRefs'[f] \in Nat
               /\ frameRefs'[f] = Cardinality({r \in Sources : current'[r] = f})
                                  + Cardinality({v \in Workers : Holds(v, f)'})
    <2>1. /\ IsFiniteSet(Offering(f)) /\ IsFiniteSet(Holders(f))
          /\ Cardinality(Offering(f)) \in Nat /\ Cardinality(Holders(f)) \in Nat
          /\ frameRefs[f] = Cardinality(Offering(f)) + Cardinality(Holders(f))
      BY FrameCounted DEF IInv
    <2>2. {v \in Workers : Holds(v, f)'} = Holders(f)
      BY <1>3 DEF Still, Holders
    <2>3. CASE f = g
      <3>1. {r \in Sources : current'[r] = f} = Offering(f) \cup {s} /\ s \notin Offering(f)
        BY <1>1, <1>4, <1>5, <2>3 DEF Offering
      <3>2. Cardinality(Offering(f)) = 0 /\ Cardinality(Holders(f)) = 0
        BY <1>5, <2>3, FS_EmptySet
      <3>3. Cardinality({r \in Sources : current'[r] = f}) = 1
        BY <2>1, <3>1, <3>2, Counting
      <3>4. frameRefs'[f] = 1
        BY <1>1, <2>3
      <3> QED
        BY <2>2, <3>2, <3>3, <3>4
    <2>4. CASE f # g /\ f = current[s]
      <3>1. {r \in Sources : current'[r] = f} = Offering(f) \ {s} /\ s \in Offering(f)
        BY <1>1, <1>4, <2>4 DEF Offering
      <3>2. /\ Cardinality({r \in Sources : current'[r] = f}) = Cardinality(Offering(f)) - 1
            /\ Cardinality(Offering(f)) > 0
        BY <2>1, <3>1, Counting
      <3>3. frameRefs'[f] = frameRefs[f] - 1
        BY <1>1, <2>4
      <3>4. frameRefs'[f] = Cardinality({r \in Sources : current'[r] = f})
                            + Cardinality(Holders(f))
        BY <2>1, <3>2, <3>3
      <3>5. frameRefs'[f] \in Nat
        BY <2>1, <3>2, <3>3
      <3> QED
        BY <2>2, <3>4, <3>5
    <2>5. CASE f # g /\ f # current[s]
      <3>1. {r \in Sources : current'[r] = f} = Offering(f)
        BY <1>1, <1>4, <2>5 DEF Offering
      <3>2. frameRefs'[f] = frameRefs[f]
        BY <1>1, <2>5
      <3> QED
        BY <2>1, <2>2, <3>1, <3>2
    <2> QED
      BY <2>3, <2>4, <2>5
  <1>7. FrameRefsExact'
    BY <1>6 DEF FrameRefsExact
  <1>8. FramesInUseKept'
    <2>1. ASSUME NEW v \in Workers, NEW f \in Frames, Holds(v, f)'
          PROVE  f \notin unused'
      BY <1>1, <1>3, <2>1 DEF IInv, FramesInUseKept, Still
    <2>2. ASSUME NEW r \in Sources PROVE current'[r] \notin unused'
      BY <1>1, <1>4 DEF IInv, FramesInUseKept
    <2> QED
      BY <2>1, <2>2 DEF FramesInUseKept
  <1>9. frameRefs' \in [Frames -> Nat]
    BY <1>1, <1>6
  <1>10. TypeOK'
    BY <1>1, <1>2, <1>3, <1>4, <1>9 DEF IInv, TypeOK
  <1>11. ClientOK'
    BY <1>2 DEF IInv, ClientOK
  <1>12. SourcesCounted'
    BY <1>2, SourcesKept DEF IInv, TypeOK
  <1>13. ReadyCounted'
    BY <1>2, <1>3, ReadyKept DEF IInv, TypeOK, Still
  <1> QED
    BY <1>3, <1>7, <1>8, <1>10, <1>11, <1>12, <1>13 DEF IInv, Workers

(* A step of a source or of the collector that leaves the stream and its threads alone,
   but for the workers it wakes. *)
LEMMA SourceStepKeeps ==
  ASSUME IInv, TypeOK', SourcesCounted', FrameRefsExact', FramesInUseKept',
         \A v \in Workers : WorkerOK(v)' /\ Still(v),
         UNCHANGED <<stream, held, arg, return, spoiled, cpc, found>>
  PROVE  IInv'
  <1>1. ClientOK'
    BY DEF IInv, ClientOK
  <1>2. ReadyCounted'
    BY ReadyKept DEF IInv, TypeOK, Still
  <1> QED
    BY <1>1, <1>2 DEF IInv, Workers

(* SVRD_Source_destroy. *)
LEMMA ClosingKeeps ==
  ASSUME IInv, NEW s \in Sources, MarkClosed(s) \/ Remove(s) \/ WakeUp(s) \/ Release(s)
  PROVE  IInv'
  <1>1. UNCHANGED <<stream, held, arg, return, spoiled, cpc, current, frameLock, freed, frames,
                    others>>
    BY DEF MarkClosed, Remove, WakeUp, Release
  <1>2. /\ WellPlaced'
        /\ \A v \in Workers : WorkerOK(v)' /\ Still(v)
    <2>1. CASE WakeUp(s)
      BY <1>1, <2>1, WakeKeeps, ThreadFacts DEF WakeUp
    <2>2. CASE MarkClosed(s) \/ Remove(s) \/ Release(s)
      <3>1. wpc' = wpc
        BY <2>2 DEF MarkClosed, Remove, Release
      <3> QED
        BY <1>1, <3>1 DEF IInv, TypeOK, WorkerOK, WithSource, Still, MaySend, Holds
    <2> QED
      BY <2>1, <2>2
  <1>3. FrameRefsExact' /\ FramesInUseKept'
    BY <1>1, <1>2, FramesKept DEF IInv, Still
  <1>4. /\ closed' \in [Sources -> BOOLEAN]
        /\ dpc' \in [Sources -> {"open", "marked", "removed", "woken", "done"}]
    BY DEF IInv, TypeOK, MarkClosed, Remove, WakeUp, Release
  <1>5. ASSUME NEW r \in Sources
        PROVE  /\ sourceRefs'[r] \in Nat
               /\ sourceRefs'[r] >= (IF dpc'[r] # "done" THEN 1 ELSE 0)
                                    + (IF Attached(r) THEN 1 ELSE 0)
                                    + (IF found = r THEN 1 ELSE 0)
               /\ freed[r] => sourceRefs'[r] = 0
    <2>1. /\ sourceRefs[r] \in Nat
          /\ sourceRefs[r] >= (IF dpc[r] # "done" THEN 1 ELSE 0)
                              + (IF Attached(r) THEN 1 ELSE 0)
                              + (IF found = r THEN 1 ELSE 0)
          /\ freed[r] => sourceRefs[r] = 0
      BY DEF IInv, TypeOK, SourcesCounted
    <2>2. sourceRefs \in [Sources -> Nat] /\ dpc \in [Sources -> {"open", "marked", "removed",
                                                                 "woken", "done"}]
      BY DEF IInv, TypeOK
    <2>3. CASE Release(s)
      BY <2>1, <2>2, <2>3 DEF Release
    <2>4. CASE MarkClosed(s) \/ Remove(s) \/ WakeUp(s)
      BY <2>1, <2>2, <2>4 DEF MarkClosed, Remove, WakeUp
    <2> QED
      BY <2>3, <2>4
  <1>6. SourcesCounted'
    BY <1>1, <1>5 DEF SourcesCounted, Attached
  <1>7. sourceRefs' \in [Sources -> Nat]
    BY <1>5 DEF IInv, TypeOK, MarkClosed, Remove, WakeUp, Release
  <1>8. TypeOK'
    BY <1>1, <1>2, <1>4, <1>7 DEF IInv, TypeOK
  <1> QED
    BY <1>1, <1>2, <1>3, <1>6, <1>8, SourceStepKeeps

(* The collector takes a frame back: nobody has a reference. *)
LEMMA CollectFrameKeeps ==
  ASSUME IInv, NEW g \in Frames, CollectFrame(g)
  PROVE  IInv'
  <1>1. CASE Die("useAfterFree")
    BY <1>1, DieKeeps
  <1>2. CASE ~Die("useAfterFree")
    <2>1. /\ frameRefs[g] = 0 /\ unused' = unused \cup {g}
          /\ frameSource' = [frameSource EXCEPT ![g] = NULL]
          /\ UNCHANGED <<stream, threads, sources, frameRefs, others>>
      BY <1>2 DEF CollectFrame
    <2>2. ASSUME NEW v \in Workers PROVE WorkerOK(v)' /\ Still(v)
      BY <2>1 DEF IInv, WorkerOK, WithSource, Still, MaySend, Holds
    <2>3. /\ \A s \in Sources : current[s] # g
          /\ \A v \in Workers : ~Holds(v, g)
      BY <2>1, FrameCounted DEF IInv
    <2>4. FramesInUseKept'
      BY <2>1, <2>2, <2>3 DEF IInv, FramesInUseKept, Still
    <2>5. FrameRefsExact'
      <3>1. ASSUME NEW f \in Frames
            PROVE  frameRefs'[f] = Cardinality({s \in Sources : current'[s] = f})
                                   + Cardinality({v \in Workers : Holds(v, f)'})
        <4>1. {v \in Workers : Holds(v, f)'} = {v \in Workers : Holds(v, f)}
          BY <2>2 DEF Still
        <4> QED
          BY <2>1, <4>1 DEF IInv, FrameRefsExact
      <3> QED
        BY <3>1 DEF FrameRefsExact
    <2>6. SourcesCounted'
      BY <2>1, SourcesKept DEF IInv, TypeOK
    <2>7. TypeOK'
      BY <2>1 DEF IInv, TypeOK
    <2> QED
      BY <2>1, <2>2, <2>4, <2>5, <2>6, <2>7, SourceStepKeeps
  <1> QED
    BY <1>1, <1>2

(* The collector frees a source: neither its provider nor the stream has a reference. *)
LEMMA CollectSourceKeeps ==
  ASSUME IInv, NEW s \in Sources, CollectSource(s)
  PROVE  IInv'
  <1>1. /\ sourceRefs[s] = 0 /\ freed' = [freed EXCEPT ![s] = TRUE]
        /\ UNCHANGED <<stream, threads, closed, current, frameLock, dpc, sourceRefs, frames,
                       others>>
    BY DEF CollectSource
  <1>2. ASSUME NEW v \in Workers PROVE WorkerOK(v)' /\ Still(v)
    BY <1>1 DEF IInv, WorkerOK, WithSource, Still, MaySend, Holds
  <1>3. FrameRefsExact' /\ FramesInUseKept'
    BY <1>1, <1>2, FramesKept DEF IInv, Still
  <1>4. freed \in [Sources -> BOOLEAN]
    BY DEF IInv, TypeOK
  <1>5. SourcesCounted'
    BY <1>1, <1>4 DEF IInv, SourcesCounted, Attached
  <1>6. freed' \in [Sources -> BOOLEAN]
    BY <1>1, <1>4
  <1>7. TypeOK'
    BY <1>1, <1>6 DEF IInv, TypeOK
  <1> QED
    BY <1>1, <1>2, <1>3, <1>5, <1>7, SourceStepKeeps

-----------------------------------------------------------------------------
(* The theorems. *)

(* The invariant holds of a stream that was just opened and attached. *)
LEMMA InitOK == Init => IInv
  <1> SUFFICES ASSUME Init PROVE IInv
    OBVIOUS
  <1> USE ServerStreamAssumption
  <1>1. MaxWorkers * Chunks \in Nat
    BY Products
  <1>2. TypeOK
    <2>1. ready \in 0 .. MaxWorkers * Chunks
      BY <1>1 DEF Init
    <2>2. \A s \in Sources : (IF s = source THEN 2 ELSE 1) \in Nat
      OBVIOUS
    <2> QED
      BY <2>1, <2>2 DEF Init, TypeOK
  <1>3. \A w \in Workers : WorkerOK(w)
    BY DEF Init, WorkerOK, WithSource
  <1>4. ClientOK
    BY DEF Init, ClientOK
  <1>5. ASSUME NEW f \in Frames
        PROVE  frameRefs[f] = Cardinality({s \in Sources : current[s] = f})
                              + Cardinality({w \in Workers : Holds(w, f)})
    <2>1. {s \in Sources : current[s] = f} = {} /\ {w \in Workers : Holds(w, f)} = {}
      BY DEF Init, Holds
    <2>2. Cardinality({s \in Sources : current[s] = f}) = 0
          /\ Cardinality({w \in Workers : Holds(w, f)}) = 0
      BY <2>1, FS_EmptySet
    <2> QED
      BY <2>2 DEF Init
  <1>6. FrameRefsExact
    BY <1>5 DEF FrameRefsExact
  <1>7. FramesInUseKept
    BY DEF Init, FramesInUseKept, Holds
  <1>8. SourcesCounted
    BY DEF Init, SourcesCounted, Attached
  <1>9. ReadyCounted
    <2>1. Senders \in SUBSET Workers
      BY DEF Senders
    <2>2. Chunks * Cardinality(Senders) \in Nat
      BY <2>1, Finite, Products
    <2> QED
      BY <2>2 DEF Init, ReadyCounted
  <1> QED
    BY <1>2, <1>3, <1>4, <1>6, <1>7, <1>8, <1>9 DEF IInv

(* Every step of every thread keeps the invariant. *)
LEMMA NextOK == IInv /\ [Next]_vars => IInv'
  <1> SUFFICES ASSUME IInv, [Next]_vars PROVE IInv'
    OBVIOUS
  <1>1. ASSUME NEW w \in Workers, WorkerStep(w) PROVE IInv'
    BY <1>1, LoopKeeps, CallKeeps, CheckKeeps, SleepKeeps, TakeKeeps, NoFrameKeeps, GotKeeps,
       EncodedKeeps, SendChunkKeeps, SendFailsKeeps, AllSentKeeps, PauseKeeps, DismissKeeps,
       DetachKeeps, ClearKeeps, NotifyKeeps, ExitKeeps, DanglingKeeps DEF WorkerStep
  <1>2. CASE ClientRequest
    BY <1>2, RPauseKeeps, RUnpauseKeeps, RCloseKeeps, RResizeKeeps, RGetInfoKeeps,
       RAttachSourceKeeps DEF ClientRequest
  <1>3. CASE ClientStep
    BY <1>3, ClientPauseKeeps, ClientDismissKeeps, ClientReplyKeeps, DestroyKeeps, JoinKeeps,
       MarkForClosingKeeps, MarkForClosingNoStreamKeeps, RefuseSourceKeeps,
       AttachSourceKeeps, UnrefSourceKeeps, AssignSourceKeeps, ClonePropertiesKeeps
       DEF ClientStep
  <1>4. CASE Vanish
    BY <1>4, VanishKeeps
  <1>5. ASSUME NEW s \in Sources, Provide(s) \/ MarkClosed(s) \/ SourceStep(s) PROVE IInv'
    BY <1>5, ProvideKeeps, ClosingKeeps, CollectSourceKeeps DEF SourceStep
  <1>6. ASSUME NEW f \in Frames, CollectFrame(f) PROVE IInv'
    BY <1>6, CollectFrameKeeps
  <1>7. CASE UNCHANGED vars
    <2>1. ASSUME NEW v \in Workers PROVE WorkerOK(v)' /\ Still(v)
      BY <1>7 DEF IInv, WorkerOK, WithSource, Still, MaySend, Holds, vars
    <2>2. TypeOK'
      BY <1>7 DEF IInv, TypeOK, vars
    <2>3. ClientOK'
      BY <1>7 DEF IInv, ClientOK, vars
    <2> QED
      BY <1>7, <2>1, <2>2, <2>3, Kept DEF IInv, TypeOK, vars
  <1> QED
    BY <1>1, <1>2, <1>3, <1>4, <1>5, <1>6, <1>7 DEF Next

(* In every state the references of frames are counted exactly, those of sources are at
   least as many as the pointers to them (without that of a stream whose source is being
   replaced), and the encoder holds no more than its workers may have left there. *)
THEOREM StreamInvariant == Spec => []IInv
  BY InitOK, NextOK, PTL DEF Spec

(* Every variable has its type; in particular the encoder never has more than one frame
   for each worker that was started. *)
THEOREM StreamTypes == Spec => []TypeOK
  <1>1. IInv => TypeOK
    BY DEF IInv
  <1> QED
    BY <1>1, StreamInvariant, PTL

(* A frame's reference count is the number of sources and workers that point to it. *)
THEOREM FrameReferencesExact == Spec => []FrameRefsExact
  <1>1. IInv => FrameRefsExact
    BY DEF IInv
  <1> QED
    BY <1>1, StreamInvariant, PTL

(* A frame that a worker holds or a source offers is not handed back to the decoder. *)
THEOREM NoFrameReused == Spec => []FramesInUseKept
  <1>1. IInv => FramesInUseKept
    BY DEF IInv
  <1> QED
    BY <1>1, StreamInvariant, PTL

(* Neither the source that a handler has looked up nor the one a stream is attached to is
   freed, even when it is closed, and the stream is paused in the time between the
   release of the old source and the assignment of the new one, in which its old source
   may be freed. *)
THEOREM AttachedSourceKept == Spec => []AttachedSourceAlive
  <1>1. IInv => AttachedSourceAlive
    <2> SUFFICES ASSUME IInv PROVE AttachedSourceAlive
      OBVIOUS
    <2>1. ASSUME NEW r \in Sources, found = r \/ Attached(r)
          PROVE  ~freed[r]
      BY <2>1, SourceCounted
    <2>2. source # NULL /\ cpc # "assign" => ~freed[source]
      BY <2>1 DEF IInv, TypeOK, ClientOK, Attached
    <2>3. found # NULL => ~freed[found]
      BY <2>1 DEF IInv, TypeOK
    <2> QED
      BY <2>2, <2>3 DEF IInv, ClientOK, AttachedSourceAlive
  <1> QED
    BY <1>1, StreamInvariant, PTL

-----------------------------------------------------------------------------
(* A stream that is started once. *)

(* Its source stays open, and it is neither resized nor attached anew. *)
StartedOnce == /\ MaxWorkers = 1 /\ MayClose = {}
               /\ Requests \subseteq {"pause", "unpause", "getInfo", "close"}

(* What the steps need of IInv. *)
Basics == /\ wpc \in [Workers -> {"off", "loop", "call", "lock", "sleep", "asleep", "take",
                                  "null", "pause", "dismiss", "detach", "clear", "notify",
                                  "got", "encoding", "send", "exit", "dead"}]
          /\ held \in [Workers -> Frames \cup {NULL}]
          /\ arg \in [Workers -> Sources \cup {NULL}]
          /\ current \in [Sources -> Frames \cup {NULL}]
          /\ source \in Sources \cup {NULL}
          /\ NULL \notin Sources /\ NULL \notin Frames
          /\ unused \subseteq Frames
          /\ frameSource \in [Frames -> Sources \cup {NULL}]
          /\ return \in [Threads -> {"none", "loop", "detach", "reply", "destroy"}]
          /\ spoiled \in [Workers -> BOOLEAN]
          /\ ClientOK
          /\ \A w \in Workers : WorkerOK(w)
          /\ Client \notin Workers /\ 0 \notin Workers /\ Client \in Threads
          /\ Workers \subseteq Threads
          /\ \A s \in Sources : dpc[s] = "open" => sourceRefs[s] > 0
          /\ \A v, w \in Workers : v = w

(* With a single start there is a single worker. *)
LEMMA OnceBasics == StartedOnce /\ IInv => Basics
  <1> SUFFICES ASSUME StartedOnce, IInv PROVE Basics
    OBVIOUS
  <1>1. \A v, w \in Workers : v = w
    BY DEF Workers, StartedOnce
  <1>2. 0 \notin Workers
    BY DEF Workers, StartedOnce
  <1>3. \A s \in Sources : dpc[s] = "open" => sourceRefs[s] > 0
    <2> SUFFICES ASSUME NEW s \in Sources, dpc[s] = "open" PROVE sourceRefs[s] > 0
      OBVIOUS
    <2>1. /\ sourceRefs[s] \in Nat
          /\ sourceRefs[s] >= 1 + (IF Attached(s) THEN 1 ELSE 0) + (IF found = s THEN 1 ELSE 0)
      BY SourceCounted
    <2> QED
      BY <2>1
  <1> QED
    BY <1>1, <1>2, <1>3, ThreadFacts, ServerStreamAssumption DEF Basics, IInv, TypeOK

(* The test at the head of the worker's loop:
   what holds of a stream started once is kept. *)
LEMMA LoopOnce ==
  ASSUME StartedOnce, Basics, Once, NEW w \in Workers, Loop(w)
  PROVE  Once'
  <1>1. ASSUME NEW v \in Workers PROVE OnceWorker(v)'
    BY DEF Basics, Once, OnceWorker, WorkerOK, WithSource, StartedOnce, Alive, Loop, Run, Goto
  <1>2. /\ Alive' /\ \A r \in Sources : dpc'[r] = "open" /\ ~closed'[r] /\ ~freed'[r]
        /\ \A f \in Frames \ unused' : frameSource'[f] \in Sources
    BY DEF Basics, Once, OnceWorker, WorkerOK, WithSource, StartedOnce, Alive, Loop, Run, Goto
  <1>3. /\ state' # "freed" => source' # NULL /\ properties'
        /\ state' = "freed" <=> cpc' \in {"closed", "done"}
        /\ cpc' \in {"dismiss", "destroy", "join"} => state' = "PAUSED"
        /\ cpc' \notin {"attach", "unref", "assign", "clone"}
    BY DEF Basics, Once, OnceWorker, WorkerOK, WithSource, StartedOnce, Alive, Loop, Run, Goto
  <1> QED
    BY <1>1, <1>2, <1>3 DEF Once, Workers

(* The worker calls getFrame and gives its last frame back:
   what holds of a stream started once is kept. *)
LEMMA CallOnce ==
  ASSUME StartedOnce, Basics, Once, NEW w \in Workers, Call(w)
  PROVE  Once'
  <1>1. ASSUME NEW v \in Workers PROVE OnceWorker(v)'
    BY DEF Basics, Once, OnceWorker, WorkerOK, WithSource, StartedOnce, Alive, Call, Run, Goto, Unref
  <1>2. /\ Alive' /\ \A r \in Sources : dpc'[r] = "open" /\ ~closed'[r] /\ ~freed'[r]
        /\ \A f \in Frames \ unused' : frameSource'[f] \in Sources
    BY DEF Basics, Once, OnceWorker, WorkerOK, WithSource, StartedOnce, Alive, Call, Run, Goto, Unref
  <1>3. /\ state' # "freed" => source' # NULL /\ properties'
        /\ state' = "freed" <=> cpc' \in {"closed", "done"}
        /\ cpc' \in {"dismiss", "destroy", "join"} => state' = "PAUSED"
        /\ cpc' \notin {"attach", "unref", "assign", "clone"}
    BY DEF Basics, Once, OnceWorker, WorkerOK, WithSource, StartedOnce, Alive, Call, Run, Goto, Unref
  <1> QED
    BY <1>1, <1>2, <1>3 DEF Once, Workers

(* GetFrame returned NULL: the worker pauses the stream or ends:
   what holds of a stream started once is kept. *)
LEMMA NoFrameOnce ==
  ASSUME StartedOnce, Basics, Once, NEW w \in Workers, NoFrame(w)
  PROVE  Once'
  <1>1. ASSUME NEW v \in Workers PROVE OnceWorker(v)'
    BY DEF Basics, Once, OnceWorker, WorkerOK, WithSource, StartedOnce, Alive, NoFrame, Run, Goto
  <1>2. /\ Alive' /\ \A r \in Sources : dpc'[r] = "open" /\ ~closed'[r] /\ ~freed'[r]
        /\ \A f \in Frames \ unused' : frameSource'[f] \in Sources
    BY DEF Basics, Once, OnceWorker, WorkerOK, WithSource, StartedOnce, Alive, NoFrame, Run, Goto
  <1>3. /\ state' # "freed" => source' # NULL /\ properties'
        /\ state' = "freed" <=> cpc' \in {"closed", "done"}
        /\ cpc' \in {"dismiss", "destroy", "join"} => state' = "PAUSED"
        /\ cpc' \notin {"attach", "unref", "assign", "clone"}
    BY DEF Basics, Once, OnceWorker, WorkerOK, WithSource, StartedOnce, Alive, NoFrame, Run, Goto
  <1> QED
    BY <1>1, <1>2, <1>3 DEF Once, Workers

(* The worker skips its frame or starts to encode it:
   what holds of a stream started once is kept. *)
LEMMA GotOnce ==
  ASSUME StartedOnce, Basics, Once, NEW w \in Workers, Got(w)
  PROVE  Once'
  <1>1. ASSUME NEW v \in Workers PROVE OnceWorker(v)'
    BY DEF Basics, Once, OnceWorker, WorkerOK, WithSource, StartedOnce, Alive, Got, Run, Goto
  <1>2. /\ Alive' /\ \A r \in Sources : dpc'[r] = "open" /\ ~closed'[r] /\ ~freed'[r]
        /\ \A f \in Frames \ unused' : frameSource'[f] \in Sources
    BY DEF Basics, Once, OnceWorker, WorkerOK, WithSource, StartedOnce, Alive, Got, Run, Goto
  <1>3. /\ state' # "freed" => source' # NULL /\ properties'
        /\ state' = "freed" <=> cpc' \in {"closed", "done"}
        /\ cpc' \in {"dismiss", "destroy", "join"} => state' = "PAUSED"
        /\ cpc' \notin {"attach", "unref", "assign", "clone"}
    BY DEF Basics, Once, OnceWorker, WorkerOK, WithSource, StartedOnce, Alive, Got, Run, Goto
  <1> QED
    BY <1>1, <1>2, <1>3 DEF Once, Workers

(* One Data message is sent: what holds of a stream started once is kept. *)
LEMMA SendChunkOnce ==
  ASSUME StartedOnce, Basics, Once, NEW w \in Workers, SendChunk(w)
  PROVE  Once'
  <1>1. ASSUME NEW v \in Workers PROVE OnceWorker(v)'
    BY DEF Basics, Once, OnceWorker, WorkerOK, WithSource, StartedOnce, Alive, SendChunk, Run, Goto
  <1>2. /\ Alive' /\ \A r \in Sources : dpc'[r] = "open" /\ ~closed'[r] /\ ~freed'[r]
        /\ \A f \in Frames \ unused' : frameSource'[f] \in Sources
    BY DEF Basics, Once, OnceWorker, WorkerOK, WithSource, StartedOnce, Alive, SendChunk, Run, Goto
  <1>3. /\ state' # "freed" => source' # NULL /\ properties'
        /\ state' = "freed" <=> cpc' \in {"closed", "done"}
        /\ cpc' \in {"dismiss", "destroy", "join"} => state' = "PAUSED"
        /\ cpc' \notin {"attach", "unref", "assign", "clone"}
    BY DEF Basics, Once, OnceWorker, WorkerOK, WithSource, StartedOnce, Alive, SendChunk, Run, Goto
  <1> QED
    BY <1>1, <1>2, <1>3 DEF Once, Workers

(* Sending fails and the worker turns to pausing the stream:
   what holds of a stream started once is kept. *)
LEMMA SendFailsOnce ==
  ASSUME StartedOnce, Basics, Once, NEW w \in Workers, SendFails(w)
  PROVE  Once'
  <1>1. ASSUME NEW v \in Workers PROVE OnceWorker(v)'
    BY DEF Basics, Once, OnceWorker, WorkerOK, WithSource, StartedOnce, Alive, SendFails, Run, Goto
  <1>2. /\ Alive' /\ \A r \in Sources : dpc'[r] = "open" /\ ~closed'[r] /\ ~freed'[r]
        /\ \A f \in Frames \ unused' : frameSource'[f] \in Sources
    BY DEF Basics, Once, OnceWorker, WorkerOK, WithSource, StartedOnce, Alive, SendFails, Run, Goto
  <1>3. /\ state' # "freed" => source' # NULL /\ properties'
        /\ state' = "freed" <=> cpc' \in {"closed", "done"}
        /\ cpc' \in {"dismiss", "destroy", "join"} => state' = "PAUSED"
        /\ cpc' \notin {"attach", "unref", "assign", "clone"}
    BY DEF Basics, Once, OnceWorker, WorkerOK, WithSource, StartedOnce, Alive, SendFails, Run, Goto
  <1> QED
    BY <1>1, <1>2, <1>3 DEF Once, Workers

(* Nothing is left to send: the worker goes on with an empty encoder:
   what holds of a stream started once is kept. *)
LEMMA AllSentOnce ==
  ASSUME StartedOnce, Basics, Once, NEW w \in Workers, AllSent(w)
  PROVE  Once'
  <1>1. ASSUME NEW v \in Workers PROVE OnceWorker(v)'
    BY DEF Basics, Once, OnceWorker, WorkerOK, WithSource, StartedOnce, Alive, AllSent, Run, Goto
  <1>2. /\ Alive' /\ \A r \in Sources : dpc'[r] = "open" /\ ~closed'[r] /\ ~freed'[r]
        /\ \A f \in Frames \ unused' : frameSource'[f] \in Sources
    BY DEF Basics, Once, OnceWorker, WorkerOK, WithSource, StartedOnce, Alive, AllSent, Run, Goto
  <1>3. /\ state' # "freed" => source' # NULL /\ properties'
        /\ state' = "freed" <=> cpc' \in {"closed", "done"}
        /\ cpc' \in {"dismiss", "destroy", "join"} => state' = "PAUSED"
        /\ cpc' \notin {"attach", "unref", "assign", "clone"}
    BY DEF Basics, Once, OnceWorker, WorkerOK, WithSource, StartedOnce, Alive, AllSent, Run, Goto
  <1> QED
    BY <1>1, <1>2, <1>3 DEF Once, Workers

(* A worker pauses the stream: what holds of a stream started once is kept. *)
LEMMA PauseOnce ==
  ASSUME StartedOnce, Basics, Once, NEW w \in Workers, Pause(w)
  PROVE  Once'
  <1>1. ASSUME NEW v \in Workers PROVE OnceWorker(v)'
    BY DEF Basics, Once, OnceWorker, WorkerOK, WithSource, StartedOnce, Alive, Pause, Run, Goto
  <1>2. /\ Alive' /\ \A r \in Sources : dpc'[r] = "open" /\ ~closed'[r] /\ ~freed'[r]
        /\ \A f \in Frames \ unused' : frameSource'[f] \in Sources
    BY DEF Basics, Once, OnceWorker, WorkerOK, WithSource, StartedOnce, Alive, Pause, Run, Goto
  <1>3. /\ state' # "freed" => source' # NULL /\ properties'
        /\ state' = "freed" <=> cpc' \in {"closed", "done"}
        /\ cpc' \in {"dismiss", "destroy", "join"} => state' = "PAUSED"
        /\ cpc' \notin {"attach", "unref", "assign", "clone"}
    BY DEF Basics, Once, OnceWorker, WorkerOK, WithSource, StartedOnce, Alive, Pause, Run, Goto
  <1> QED
    BY <1>1, <1>2, <1>3 DEF Once, Workers

(* The worker ends and gives its frame back: what holds of a stream started once is kept. *)
LEMMA ExitOnce ==
  ASSUME StartedOnce, Basics, Once, NEW w \in Workers, Exit(w)
  PROVE  Once'
  <1>1. ASSUME NEW v \in Workers PROVE OnceWorker(v)'
    BY DEF Basics, Once, OnceWorker, WorkerOK, WithSource, StartedOnce, Alive, Exit, Run, Goto, Unref
  <1>2. /\ Alive' /\ \A r \in Sources : dpc'[r] = "open" /\ ~closed'[r] /\ ~freed'[r]
        /\ \A f \in Frames \ unused' : frameSource'[f] \in Sources
    BY DEF Basics, Once, OnceWorker, WorkerOK, WithSource, StartedOnce, Alive, Exit, Run, Goto, Unref
  <1>3. /\ state' # "freed" => source' # NULL /\ properties'
        /\ state' = "freed" <=> cpc' \in {"closed", "done"}
        /\ cpc' \in {"dismiss", "destroy", "join"} => state' = "PAUSED"
        /\ cpc' \notin {"attach", "unref", "assign", "clone"}
    BY DEF Basics, Once, OnceWorker, WorkerOK, WithSource, StartedOnce, Alive, Exit, Run, Goto, Unref
  <1> QED
    BY <1>1, <1>2, <1>3 DEF Once, Workers

(* GetFrame takes the lock and decides whether to wait:
   what holds of a stream started once is kept. *)
LEMMA CheckOnce ==
  ASSUME StartedOnce, Basics, Once, NEW w \in Workers, Check(w)
  PROVE  Once'
  <1>1. ASSUME NEW v \in Workers PROVE OnceWorker(v)'
    BY DEF Basics, Once, OnceWorker, WorkerOK, WithSource, StartedOnce, Alive, Check, InGetFrame, Run, Goto
  <1>2. /\ Alive' /\ \A r \in Sources : dpc'[r] = "open" /\ ~closed'[r] /\ ~freed'[r]
        /\ \A f \in Frames \ unused' : frameSource'[f] \in Sources
    BY DEF Basics, Once, OnceWorker, WorkerOK, WithSource, StartedOnce, Alive, Check, InGetFrame, Run, Goto
  <1>3. /\ state' # "freed" => source' # NULL /\ properties'
        /\ state' = "freed" <=> cpc' \in {"closed", "done"}
        /\ cpc' \in {"dismiss", "destroy", "join"} => state' = "PAUSED"
        /\ cpc' \notin {"attach", "unref", "assign", "clone"}
    BY DEF Basics, Once, OnceWorker, WorkerOK, WithSource, StartedOnce, Alive, Check, InGetFrame, Run, Goto
  <1> QED
    BY <1>1, <1>2, <1>3 DEF Once, Workers

(* GetFrame waits and gives the lock up: what holds of a stream started once is kept. *)
LEMMA SleepOnce ==
  ASSUME StartedOnce, Basics, Once, NEW w \in Workers, Sleep(w)
  PROVE  Once'
  <1>1. ASSUME NEW v \in Workers PROVE OnceWorker(v)'
    BY DEF Basics, Once, OnceWorker, WorkerOK, WithSource, StartedOnce, Alive, Sleep, InGetFrame, Run, Goto
  <1>2. /\ Alive' /\ \A r \in Sources : dpc'[r] = "open" /\ ~closed'[r] /\ ~freed'[r]
        /\ \A f \in Frames \ unused' : frameSource'[f] \in Sources
    BY DEF Basics, Once, OnceWorker, WorkerOK, WithSource, StartedOnce, Alive, Sleep, InGetFrame, Run, Goto
  <1>3. /\ state' # "freed" => source' # NULL /\ properties'
        /\ state' = "freed" <=> cpc' \in {"closed", "done"}
        /\ cpc' \in {"dismiss", "destroy", "join"} => state' = "PAUSED"
        /\ cpc' \notin {"attach", "unref", "assign", "clone"}
    BY DEF Basics, Once, OnceWorker, WorkerOK, WithSource, StartedOnce, Alive, Sleep, InGetFrame, Run, Goto
  <1> QED
    BY <1>1, <1>2, <1>3 DEF Once, Workers

(* GetFrame returns a frame if the source is open and the stream running:
   what holds of a stream started once is kept. *)
LEMMA TakeOnce ==
  ASSUME StartedOnce, Basics, Once, NEW w \in Workers, Take(w)
  PROVE  Once'
  <1>1. ASSUME NEW v \in Workers PROVE OnceWorker(v)'
    BY DEF Basics, Once, OnceWorker, WorkerOK, WithSource, StartedOnce, Alive, Take, InGetFrame, Run, Goto
  <1>2. /\ Alive' /\ \A r \in Sources : dpc'[r] = "open" /\ ~closed'[r] /\ ~freed'[r]
        /\ \A f \in Frames \ unused' : frameSource'[f] \in Sources
    BY DEF Basics, Once, OnceWorker, WorkerOK, WithSource, StartedOnce, Alive, Take, InGetFrame, Run, Goto
  <1>3. /\ state' # "freed" => source' # NULL /\ properties'
        /\ state' = "freed" <=> cpc' \in {"closed", "done"}
        /\ cpc' \in {"dismiss", "destroy", "join"} => state' = "PAUSED"
        /\ cpc' \notin {"attach", "unref", "assign", "clone"}
    BY DEF Basics, Once, OnceWorker, WorkerOK, WithSource, StartedOnce, Alive, Take, InGetFrame, Run, Goto
  <1> QED
    BY <1>1, <1>2, <1>3 DEF Once, Workers

(* The request to pause arrives: what holds of a stream started once is kept. *)
LEMMA RPauseOnce ==
  ASSUME StartedOnce, Basics, Once, RPause
  PROVE  Once'
  <1>1. ASSUME NEW v \in Workers PROVE OnceWorker(v)'
    BY DEF Basics, Once, OnceWorker, WorkerOK, WithSource, StartedOnce, Alive, RPause, Handle
  <1>2. /\ Alive' /\ \A r \in Sources : dpc'[r] = "open" /\ ~closed'[r] /\ ~freed'[r]
        /\ \A f \in Frames \ unused' : frameSource'[f] \in Sources
    BY DEF Basics, Once, OnceWorker, WorkerOK, WithSource, StartedOnce, Alive, RPause, Handle
  <1>3. /\ state' # "freed" => source' # NULL /\ properties'
        /\ state' = "freed" <=> cpc' \in {"closed", "done"}
        /\ cpc' \in {"dismiss", "destroy", "join"} => state' = "PAUSED"
        /\ cpc' \notin {"attach", "unref", "assign", "clone"}
    BY DEF Basics, Once, OnceWorker, WorkerOK, WithSource, StartedOnce, Alive, RPause, Handle
  <1> QED
    BY <1>1, <1>2, <1>3 DEF Once, Workers

(* The request to close arrives: what holds of a stream started once is kept. *)
LEMMA RCloseOnce ==
  ASSUME StartedOnce, Basics, Once, RClose
  PROVE  Once'
  <1>1. ASSUME NEW v \in Workers PROVE OnceWorker(v)'
    BY DEF Basics, Once, OnceWorker, WorkerOK, WithSource, StartedOnce, Alive, RClose, Handle
  <1>2. /\ Alive' /\ \A r \in Sources : dpc'[r] = "open" /\ ~closed'[r] /\ ~freed'[r]
        /\ \A f \in Frames \ unused' : frameSource'[f] \in Sources
    BY DEF Basics, Once, OnceWorker, WorkerOK, WithSource, StartedOnce, Alive, RClose, Handle
  <1>3. /\ state' # "freed" => source' # NULL /\ properties'
        /\ state' = "freed" <=> cpc' \in {"closed", "done"}
        /\ cpc' \in {"dismiss", "destroy", "join"} => state' = "PAUSED"
        /\ cpc' \notin {"attach", "unref", "assign", "clone"}
    BY DEF Basics, Once, OnceWorker, WorkerOK, WithSource, StartedOnce, Alive, RClose, Handle
  <1> QED
    BY <1>1, <1>2, <1>3 DEF Once, Workers

(* The stream is started, if it is paused and attached:
   what holds of a stream started once is kept. *)
LEMMA RUnpauseOnce ==
  ASSUME StartedOnce, Basics, Once, RUnpause
  PROVE  Once'
  <1>1. ASSUME NEW v \in Workers PROVE OnceWorker(v)'
    BY DEF Basics, Once, OnceWorker, WorkerOK, WithSource, StartedOnce, Alive, RUnpause, Handle, Goto, Spoil
  <1>2. /\ Alive' /\ \A r \in Sources : dpc'[r] = "open" /\ ~closed'[r] /\ ~freed'[r]
        /\ \A f \in Frames \ unused' : frameSource'[f] \in Sources
    BY DEF Basics, Once, OnceWorker, WorkerOK, WithSource, StartedOnce, Alive, RUnpause, Handle, Goto, Spoil
  <1>3. /\ state' # "freed" => source' # NULL /\ properties'
        /\ state' = "freed" <=> cpc' \in {"closed", "done"}
        /\ cpc' \in {"dismiss", "destroy", "join"} => state' = "PAUSED"
        /\ cpc' \notin {"attach", "unref", "assign", "clone"}
    BY DEF Basics, Once, OnceWorker, WorkerOK, WithSource, StartedOnce, Alive, RUnpause, Handle, Goto, Spoil
  <1> QED
    BY <1>1, <1>2, <1>3 DEF Once, Workers

(* The client is gone and its stream is to be destroyed:
   what holds of a stream started once is kept. *)
LEMMA MarkForClosingOnce ==
  ASSUME StartedOnce, Basics, Once, MarkForClosing
  PROVE  Once'
  <1>1. ASSUME NEW v \in Workers PROVE OnceWorker(v)'
    BY DEF Basics, Once, OnceWorker, WorkerOK, WithSource, StartedOnce, Alive, MarkForClosing
  <1>2. /\ Alive' /\ \A r \in Sources : dpc'[r] = "open" /\ ~closed'[r] /\ ~freed'[r]
        /\ \A f \in Frames \ unused' : frameSource'[f] \in Sources
    BY DEF Basics, Once, OnceWorker, WorkerOK, WithSource, StartedOnce, Alive, MarkForClosing
  <1>3. /\ state' # "freed" => source' # NULL /\ properties'
        /\ state' = "freed" <=> cpc' \in {"closed", "done"}
        /\ cpc' \in {"dismiss", "destroy", "join"} => state' = "PAUSED"
        /\ cpc' \notin {"attach", "unref", "assign", "clone"}
    BY DEF Basics, Once, OnceWorker, WorkerOK, WithSource, StartedOnce, Alive, MarkForClosing
  <1> QED
    BY <1>1, <1>2, <1>3 DEF Once, Workers

(* The client's thread pauses the stream: what holds of a stream started once is kept. *)
LEMMA ClientPauseOnce ==
  ASSUME StartedOnce, Basics, Once, ClientPause
  PROVE  Once'
  <1>1. ASSUME NEW v \in Workers PROVE OnceWorker(v)'
    BY DEF Basics, Once, OnceWorker, WorkerOK, WithSource, StartedOnce, Alive, ClientPause, ClientOK
  <1>2. /\ Alive' /\ \A r \in Sources : dpc'[r] = "open" /\ ~closed'[r] /\ ~freed'[r]
        /\ \A f \in Frames \ unused' : frameSource'[f] \in Sources
    BY DEF Basics, Once, OnceWorker, WorkerOK, WithSource, StartedOnce, Alive, ClientPause, ClientOK
  <1>3. /\ state' # "freed" => source' # NULL /\ properties'
        /\ state' = "freed" <=> cpc' \in {"closed", "done"}
        /\ cpc' \in {"dismiss", "destroy", "join"} => state' = "PAUSED"
        /\ cpc' \notin {"attach", "unref", "assign", "clone"}
    BY DEF Basics, Once, OnceWorker, WorkerOK, WithSource, StartedOnce, Alive, ClientPause, ClientOK
  <1> QED
    BY <1>1, <1>2, <1>3 DEF Once, Workers

(* The client is told that its stream is paused:
   what holds of a stream started once is kept. *)
LEMMA ClientReplyOnce ==
  ASSUME StartedOnce, Basics, Once, ClientReply
  PROVE  Once'
  <1>1. ASSUME NEW v \in Workers PROVE OnceWorker(v)'
    BY DEF Basics, Once, OnceWorker, WorkerOK, WithSource, StartedOnce, Alive, ClientReply
  <1>2. /\ Alive' /\ \A r \in Sources : dpc'[r] = "open" /\ ~closed'[r] /\ ~freed'[r]
        /\ \A f \in Frames \ unused' : frameSource'[f] \in Sources
    BY DEF Basics, Once, OnceWorker, WorkerOK, WithSource, StartedOnce, Alive, ClientReply
  <1>3. /\ state' # "freed" => source' # NULL /\ properties'
        /\ state' = "freed" <=> cpc' \in {"closed", "done"}
        /\ cpc' \in {"dismiss", "destroy", "join"} => state' = "PAUSED"
        /\ cpc' \notin {"attach", "unref", "assign", "clone"}
    BY DEF Basics, Once, OnceWorker, WorkerOK, WithSource, StartedOnce, Alive, ClientReply
  <1> QED
    BY <1>1, <1>2, <1>3 DEF Once, Workers

(* SVRD_Stream_destroy takes the stream's lock:
   what holds of a stream started once is kept. *)
LEMMA DestroyOnce ==
  ASSUME StartedOnce, Basics, Once, Destroy
  PROVE  Once'
  <1>1. ASSUME NEW v \in Workers PROVE OnceWorker(v)'
    BY DEF Basics, Once, OnceWorker, WorkerOK, WithSource, StartedOnce, Alive, Destroy
  <1>2. /\ Alive' /\ \A r \in Sources : dpc'[r] = "open" /\ ~closed'[r] /\ ~freed'[r]
        /\ \A f \in Frames \ unused' : frameSource'[f] \in Sources
    BY DEF Basics, Once, OnceWorker, WorkerOK, WithSource, StartedOnce, Alive, Destroy
  <1>3. /\ state' # "freed" => source' # NULL /\ properties'
        /\ state' = "freed" <=> cpc' \in {"closed", "done"}
        /\ cpc' \in {"dismiss", "destroy", "join"} => state' = "PAUSED"
        /\ cpc' \notin {"attach", "unref", "assign", "clone"}
    BY DEF Basics, Once, OnceWorker, WorkerOK, WithSource, StartedOnce, Alive, Destroy
  <1> QED
    BY <1>1, <1>2, <1>3 DEF Once, Workers

(* The worker has ended and the stream is freed:
   what holds of a stream started once is kept. *)
LEMMA JoinOnce ==
  ASSUME StartedOnce, Basics, Once, Join
  PROVE  Once'
  <1>1. ASSUME NEW v \in Workers PROVE OnceWorker(v)'
    BY DEF Basics, Once, OnceWorker, WorkerOK, WithSource, StartedOnce, Alive, Join
  <1>2. /\ Alive' /\ \A r \in Sources : dpc'[r] = "open" /\ ~closed'[r] /\ ~freed'[r]
        /\ \A f \in Frames \ unused' : frameSource'[f] \in Sources
    BY DEF Basics, Once, OnceWorker, WorkerOK, WithSource, StartedOnce, Alive, Join
  <1>3. /\ state' # "freed" => source' # NULL /\ properties'
        /\ state' = "freed" <=> cpc' \in {"closed", "done"}
        /\ cpc' \in {"dismiss", "destroy", "join"} => state' = "PAUSED"
        /\ cpc' \notin {"attach", "unref", "assign", "clone"}
    BY DEF Basics, Once, OnceWorker, WorkerOK, WithSource, StartedOnce, Alive, Join
  <1> QED
    BY <1>1, <1>2, <1>3 DEF Once, Workers

(* The client is gone and has no stream: what holds of a stream started once is kept. *)
LEMMA MarkForClosingNoStreamOnce ==
  ASSUME StartedOnce, Basics, Once, MarkForClosingNoStream
  PROVE  Once'
  <1>1. ASSUME NEW v \in Workers PROVE OnceWorker(v)'
    BY DEF Basics, Once, OnceWorker, WorkerOK, WithSource, StartedOnce, Alive, MarkForClosingNoStream
  <1>2. /\ Alive' /\ \A r \in Sources : dpc'[r] = "open" /\ ~closed'[r] /\ ~freed'[r]
        /\ \A f \in Frames \ unused' : frameSource'[f] \in Sources
    BY DEF Basics, Once, OnceWorker, WorkerOK, WithSource, StartedOnce, Alive, MarkForClosingNoStream
  <1>3. /\ state' # "freed" => source' # NULL /\ properties'
        /\ state' = "freed" <=> cpc' \in {"closed", "done"}
        /\ cpc' \in {"dismiss", "destroy", "join"} => state' = "PAUSED"
        /\ cpc' \notin {"attach", "unref", "assign", "clone"}
    BY DEF Basics, Once, OnceWorker, WorkerOK, WithSource, StartedOnce, Alive, MarkForClosingNoStream
  <1> QED
    BY <1>1, <1>2, <1>3 DEF Once, Workers

(* The peer disappears: what holds of a stream started once is kept. *)
LEMMA VanishOnce ==
  ASSUME StartedOnce, Basics, Once, Vanish
  PROVE  Once'
  <1>1. ASSUME NEW v \in Workers PROVE OnceWorker(v)'
    BY DEF Basics, Once, OnceWorker, WorkerOK, WithSource, StartedOnce, Alive, Vanish
  <1>2. /\ Alive' /\ \A r \in Sources : dpc'[r] = "open" /\ ~closed'[r] /\ ~freed'[r]
        /\ \A f \in Frames \ unused' : frameSource'[f] \in Sources
    BY DEF Basics, Once, OnceWorker, WorkerOK, WithSource, StartedOnce, Alive, Vanish
  <1>3. /\ state' # "freed" => source' # NULL /\ properties'
        /\ state' = "freed" <=> cpc' \in {"closed", "done"}
        /\ cpc' \in {"dismiss", "destroy", "join"} => state' = "PAUSED"
        /\ cpc' \notin {"attach", "unref", "assign", "clone"}
    BY DEF Basics, Once, OnceWorker, WorkerOK, WithSource, StartedOnce, Alive, Vanish
  <1> QED
    BY <1>1, <1>2, <1>3 DEF Once, Workers

(* A source delivers a frame: what holds of a stream started once is kept. *)
LEMMA ProvideOnce ==
  ASSUME StartedOnce, Basics, Once, NEW s \in Sources, Provide(s)
  PROVE  Once'
  <1>1. ASSUME NEW v \in Workers PROVE OnceWorker(v)'
    BY DEF Basics, Once, OnceWorker, WorkerOK, WithSource, StartedOnce, Alive, Provide, Wake, Client, Workers
  <1>2. /\ Alive' /\ \A r \in Sources : dpc'[r] = "open" /\ ~closed'[r] /\ ~freed'[r]
        /\ \A f \in Frames \ unused' : frameSource'[f] \in Sources
    BY DEF Basics, Once, OnceWorker, WorkerOK, WithSource, StartedOnce, Alive, Provide, Wake, Client, Workers
  <1>3. /\ state' # "freed" => source' # NULL /\ properties'
        /\ state' = "freed" <=> cpc' \in {"closed", "done"}
        /\ cpc' \in {"dismiss", "destroy", "join"} => state' = "PAUSED"
        /\ cpc' \notin {"attach", "unref", "assign", "clone"}
    BY DEF Basics, Once, OnceWorker, WorkerOK, WithSource, StartedOnce, Alive, Provide, Wake, Client, Workers
  <1> QED
    BY <1>1, <1>2, <1>3 DEF Once, Workers

(* The collector takes a frame back: what holds of a stream started once is kept. *)
LEMMA CollectFrameOnce ==
  ASSUME StartedOnce, Basics, Once, NEW g \in Frames, CollectFrame(g)
  PROVE  Once'
  <1>1. ASSUME NEW v \in Workers PROVE OnceWorker(v)'
    BY DEF Basics, Once, OnceWorker, WorkerOK, WithSource, StartedOnce, Alive, CollectFrame, Die
  <1>2. /\ Alive' /\ \A r \in Sources : dpc'[r] = "open" /\ ~closed'[r] /\ ~freed'[r]
        /\ \A f \in Frames \ unused' : frameSource'[f] \in Sources
    BY DEF Basics, Once, OnceWorker, WorkerOK, WithSource, StartedOnce, Alive, CollectFrame, Die
  <1>3. /\ state' # "freed" => source' # NULL /\ properties'
        /\ state' = "freed" <=> cpc' \in {"closed", "done"}
        /\ cpc' \in {"dismiss", "destroy", "join"} => state' = "PAUSED"
        /\ cpc' \notin {"attach", "unref", "assign", "clone"}
    BY DEF Basics, Once, OnceWorker, WorkerOK, WithSource, StartedOnce, Alive, CollectFrame, Die
  <1> QED
    BY <1>1, <1>2, <1>3 DEF Once, Workers

(* The worker has encoded its frame: what holds of a stream started once is kept. *)
LEMMA EncodedOnce ==
  ASSUME StartedOnce, Basics, Once, NEW w \in Workers, Encoded(w)
  PROVE  Once'
  <1>0. ~spoiled[w]
    BY DEF Once, OnceWorker
  <1>1. /\ wpc[w] = "encoding" /\ wpc' = [wpc EXCEPT ![w] = "send"]
        /\ spoiled' = [spoiled EXCEPT ![w] = FALSE]
        /\ UNCHANGED <<state, source, properties, worker, lock, held, arg, return, cpc,
                       sources, frames, others>>
    BY <1>0 DEF Encoded, Run, Goto
  <1>2. ASSUME NEW v \in Workers PROVE OnceWorker(v)'
    BY <1>1 DEF Basics, Once, OnceWorker, WithSource
  <1> QED
    BY <1>1, <1>2 DEF Once, Workers, Alive

(* A worker wakes the others that wait for the source:
   what holds of a stream started once is kept. *)
LEMMA DismissOnce ==
  ASSUME StartedOnce, Basics, Once, NEW w \in Workers, Dismiss(w)
  PROVE  Once'
  <1>0. source # NULL /\ ~freed[source]
    BY DEF Once, Basics, Dismiss, Run
  <1>1. /\ wpc[w] = "dismiss" /\ Wake(source, w, return[w]) /\ return[w] = "loop"
        /\ UNCHANGED <<stream, held, arg, return, spoiled, cpc, sources, frames, others>>
    BY <1>0 DEF Dismiss, Run, Once, OnceWorker
  <1>2. wpc'[w] = "loop"
    BY <1>1 DEF Wake
  <1>3. ASSUME NEW v \in Workers PROVE OnceWorker(v)'
    <2>1. v = w
      BY DEF Basics
    <2> QED
      BY <1>1, <1>2, <2>1 DEF Once, OnceWorker, WithSource
  <1> QED
    BY <1>1, <1>3 DEF Once, Workers, Alive

(* The client's thread wakes the workers that wait for the source:
   what holds of a stream started once is kept. *)
LEMMA ClientDismissOnce ==
  ASSUME StartedOnce, Basics, Once, ClientDismiss
  PROVE  Once'
  <1>0. source # NULL /\ ~freed[source]
    BY DEF Once, Basics, ClientDismiss
  <1>1. /\ cpc = "dismiss" /\ cpc' = return[Client] /\ Wake(source, Client, "none")
        /\ UNCHANGED <<stream, held, arg, return, spoiled, sources, frames, others>>
    BY <1>0 DEF ClientDismiss
  <1>2. cpc' \in {"reply", "destroy"} /\ state = "PAUSED"
    BY <1>1 DEF Basics, ClientOK, Once
  <1>3. ASSUME NEW v \in Workers PROVE OnceWorker(v)'
    <2>1. wpc'[v] = IF wpc[v] = "asleep" /\ arg[v] = source THEN "lock" ELSE wpc[v]
      BY <1>1 DEF Wake, Basics
    <2> QED
      BY <1>1, <2>1 DEF Once, OnceWorker, WithSource
  <1> QED
    BY <1>1, <1>2, <1>3 DEF Once, Workers, Alive

(* The steps that this stream does not see. *)
LEMMA NeverOnce ==
  ASSUME StartedOnce, Basics, Once
  PROVE  /\ \A w \in Workers : ~Detach(w) /\ ~Clear(w) /\ ~Notify(w) /\ ~Dangling(w)
         /\ ~RResize /\ ~RGetInfo /\ ~RefuseSource /\ ~AttachSource /\ ~UnrefSource
         /\ ~AssignSource /\ ~CloneProperties
         /\ \A s \in Sources : /\ ~RAttachSource(s) /\ ~MarkClosed(s)
                               /\ ~SourceStep(s)
  <1>1. ASSUME NEW w \in Workers PROVE ~Detach(w) /\ ~Clear(w) /\ ~Notify(w)
    BY DEF Once, OnceWorker, Detach, Clear, Notify, Run
  <1>2. ASSUME NEW w \in Workers PROVE ~Dangling(w)
    <2>1. wpc[w] \in {"lock", "sleep", "take"} => arg[w] \in Sources
      BY DEF Basics, WorkerOK, WithSource
    <2> QED
      BY <2>1 DEF Once, OnceWorker, Dangling
  <1>3. ~RResize /\ \A s \in Sources : ~RAttachSource(s)
    BY DEF StartedOnce, RResize, RAttachSource, Handle
  <1>6. /\ ~RefuseSource /\ ~AttachSource /\ ~UnrefSource /\ ~AssignSource
        /\ ~CloneProperties
    BY DEF Once, RefuseSource, AttachSource, UnrefSource, AssignSource, CloneProperties
  <1>4. ~RGetInfo
    BY DEF Once, RGetInfo, Handle
  <1>5. ASSUME NEW s \in Sources PROVE ~MarkClosed(s) /\ ~SourceStep(s)
    <2>1. dpc[s] = "open" /\ sourceRefs[s] # 0
      BY DEF Once, Basics
    <2> QED
      BY <2>1 DEF StartedOnce, MarkClosed, SourceStep, Remove, WakeUp, Release, CollectSource
  <1> QED
    BY <1>1, <1>2, <1>3, <1>4, <1>5, <1>6

(* Nothing is wrong with a stream that is not started. *)
LEMMA InitOnce == Init => Once
  BY ServerStreamAssumption DEF Init, Once, OnceWorker, WithSource, Alive

(* Nor does a step make it so. *)
LEMMA NextOnce == StartedOnce /\ IInv /\ Once /\ [Next]_vars => Once'
  <1> SUFFICES ASSUME StartedOnce, IInv, Once, [Next]_vars PROVE Once'
    OBVIOUS
  <1>0. Basics
    BY OnceBasics
  <1>1. ASSUME NEW w \in Workers, WorkerStep(w) PROVE Once'
    BY <1>0, <1>1, LoopOnce, CallOnce, CheckOnce, SleepOnce, TakeOnce, NoFrameOnce, GotOnce,
       EncodedOnce, SendChunkOnce, SendFailsOnce, AllSentOnce, PauseOnce, DismissOnce,
       ExitOnce, NeverOnce DEF WorkerStep
  <1>2. CASE ClientRequest
    BY <1>0, <1>2, RPauseOnce, RUnpauseOnce, RCloseOnce, NeverOnce DEF ClientRequest
  <1>3. CASE ClientStep
    BY <1>0, <1>3, ClientPauseOnce, ClientDismissOnce, ClientReplyOnce, DestroyOnce, JoinOnce,
       MarkForClosingOnce, MarkForClosingNoStreamOnce, NeverOnce DEF ClientStep
  <1>4. CASE Vanish
    BY <1>0, <1>4, VanishOnce
  <1>5. ASSUME NEW s \in Sources, Provide(s) \/ MarkClosed(s) \/ SourceStep(s) PROVE Once'
    BY <1>0, <1>5, ProvideOnce, NeverOnce
  <1>6. ASSUME NEW f \in Frames, CollectFrame(f) PROVE Once'
    BY <1>0, <1>6, CollectFrameOnce
  <1>7. CASE UNCHANGED vars
    <2>1. ASSUME NEW v \in Workers PROVE OnceWorker(v)'
      BY <1>7 DEF Once, OnceWorker, WithSource, vars
    <2> QED
      BY <1>7, <2>1 DEF Once, Workers, Alive, vars
  <1> QED
    BY <1>1, <1>2, <1>3, <1>4, <1>5, <1>6, <1>7 DEF Next

(* A stream that is started once, on a source that stays open, and neither resized nor
   attached anew never makes the server use a null or freed pointer, whatever the number
   of frame blocks and the length of a frame. *)
THEOREM StartedOnceNoFault ==
  ASSUME StartedOnce
  PROVE  Spec => []NoFault
  <1>1. IInv /\ Once /\ [Next]_vars => Once'
    BY NextOnce
  <1>2. Once => NoFault
    BY DEF Once, NoFault
  <1> QED
    BY <1>1, <1>2, InitOnce, StreamInvariant, PTL DEF Spec
=============================================================================
