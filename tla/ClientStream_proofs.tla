------------------------- MODULE ClientStream_proofs -------------------------
(***************************************************************************)
(* Proofs about ClientStream, for any number of starts, changes of format, *)
(* messages and frames: messages find the stream, the decoder and the      *)
(* format they were made for, and every image is in one place.             *)
(***************************************************************************)
EXTENDS ClientStream, FiniteSetTheorems, SequenceTheorems, TLAPS

(* A message of the kind is on its way to the client. *)
OnItsWay(kind) == \E i \in 1 .. Len(socket) : socket[i].kind = kind

(* The application waits for the reply to o. *)
Waits(o) == pc \in {"sent", "served"} /\ op = o

(* A request that was served has one reply, in the socket or handed over. *)
ReplyOK ==
  /\ pc = "served" => (answer = NULL <=> OnItsWay("reply"))
  /\ pc # "served" => answer = NULL /\ ~OnItsWay("reply")
  /\ \A i, j \in 1 .. Len(socket) : socket[i].kind = "reply" /\ socket[j].kind = "reply" => i = j

(* A worker of the server runs. *)
Working == \E w \in Workers : wpc[w] # "off"

(* Only as many workers run as were started. *)
WorkersOK ==
  /\ \A w \in Workers : wpc[w] # "off" => w <= server.worker
  /\ server.worker <= starts
  /\ pc = "redecode" \/ (pc = "sent" /\ op = "unpause") => server.worker < starts

(* Before the stream is in the dictionary, and after it left if it was started no more than
   once, nothing but replies comes. *)
ListedOK ==
  /\ ~known => /\ receiving = NULL
               /\ \/ pc \in {"new", "gone"}
                  \/ Waits("open") \/ Waits("attach") \/ Waits("getInfo")
               /\ starts <= 1 => ~Working /\ ~OnItsWay("data") /\ ~OnItsWay("orphaned")
  /\ known => /\ pc \notin {"new", "gone"} /\ op \notin {"open", "attach"}
              /\ server.state # "none"
  /\ pc \in {"sent", "served"} => (pc = "sent" /\ op = "open") \/ server.state # "none"
  /\ starts <= 1 => listLock = FALSE

(* The reply to Stream.close is the last message, of a stream that was started no more
   than once. *)
CloseOK ==
  /\ server.state = "destroying" => pc = "sent" /\ op = "close"
  /\ server.state = "closed" =>
       /\ pc = "gone" \/ (pc = "served" /\ op = "close")
       /\ starts <= 1 =>
            /\ ~Working
            /\ answer # NULL => socket = << >>
            /\ \A i \in 1 .. Len(socket) : socket[i].kind = "reply" => i = Len(socket)
  /\ pc = "served" /\ op = "close" => server.state = "closed"

(* The server has started the stream, or data is made, sent or received. *)
Active == server.state = "UNPAUSED" \/ Working \/ receiving # NULL \/ OnItsWay("data")

(* The decoder is that of the last start; data comes only after the first. *)
StartOK ==
  /\ pc = "redecode" => /\ op = "unpause" /\ decoder < starts /\ free = << >>
                        /\ dangling <=> decoder # 0
  /\ pc # "redecode" => /\ ~dangling /\ decoder \in {0, starts}
                        /\ pc # "gone" => decoder = starts
  /\ starts = 0 => ~Active
  /\ Waits("unpause") => starts # 0
  /\ starts = 1 /\ (pc = "redecode" \/ (pc = "sent" /\ op = "unpause")) => ~Active
  /\ starts <= 1 => ~fault

(* Who waits has nothing to wait for; the reader tests and falls asleep under the lock. *)
WaitingOK == /\ NoWakeUpMissed
             /\ pc = "falling" => current = NULL /\ state = "UNPAUSED" /\ receiving = NULL

(* What a reply tells of the format. *)
ReplyFits(m) == /\ op = "getInfo" => m.format = server.format
                /\ op = "set" /\ ~m.ok => format = server.format

(* Client and server agree on the format, except while a change is under way. *)
FormatOK ==
  /\ known /\ ~Waits("set") /\ ~Waits("getInfo") => format = server.format
  /\ pc = "sent" /\ op = "set" => format = server.format
  /\ answer # NULL => ReplyFits(answer)
  /\ \A i \in 1 .. Len(socket) : socket[i].kind = "reply" => ReplyFits(socket[i])
  /\ pc = "sent" /\ op = "unpause" => decFormat = format
  /\ starts = 1 /\ server.state = "UNPAUSED" =>
       /\ server.sends = decFormat /\ server.format = decFormat
       /\ receiving # NULL => receiving.format = decFormat
       /\ \A i \in 1 .. Len(socket) : socket[i].kind = "data" => socket[i].format = decFormat

(* The current frame is the newest. *)
FramesOK == NewestFrame /\ \A f \in held : f.frame <= done

(* The places of an image. *)
InFree(x)    == \E i \in 1 .. Len(free) : free[i] = x
InCurrent(x) == current # NULL /\ current.image = x
InHeld(x)    == \E f \in held : f.image = x

(* No image is in two places. *)
ImagesApart ==
  /\ \A i, j \in 1 .. Len(free) : i # j => free[i] # free[j]
  /\ \A x \in Image : /\ ~(InFree(x) /\ InCurrent(x))
                      /\ ~(InFree(x) /\ InHeld(x))
                      /\ ~(InCurrent(x) /\ InHeld(x))
  /\ \A f, g \in held : f # g => f.image # g.image

(* Images are those that the decoders have made, and those of the current one are all there. *)
ImagesMade ==
  /\ \A x \in Image : InFree(x) \/ InCurrent(x) \/ InHeld(x) =>
       /\ x[1] <= starts /\ (pc = "redecode" => x[1] < starts)
       /\ x[1] = decoder => x[2] \in 1 .. made
  /\ decoder # 0 /\ ~dangling => \A n \in 1 .. made : \/ InFree(<<decoder, n>>)
                                                      \/ InCurrent(<<decoder, n>>)
                                                      \/ InHeld(<<decoder, n>>)

IInv == /\ TypeOK /\ ReplyOK /\ WorkersOK /\ ListedOK /\ CloseOK /\ StartOK /\ FormatOK
        /\ WaitingOK /\ FramesOK /\ ImagesApart /\ ImagesMade

-----------------------------------------------------------------------------
USE DEF app, stream, global, dec, remote, bounds

(* The parts of the invariant that are about control. *)
Control == ReplyOK /\ WorkersOK /\ ListedOK /\ CloseOK /\ StartOK /\ FormatOK

(* A message is added at the end of the socket. *)
LEMMA Sending ==
  ASSUME TypeOK, NEW m \in Message, Send(m)
  PROVE  /\ socket' \in Seq(Message) /\ Len(socket') = Len(socket) + 1 /\ Len(socket) \in Nat
         /\ \A i \in 1 .. Len(socket) : socket'[i] = socket[i]
         /\ socket'[Len(socket) + 1] = m
         /\ \A k : OnItsWay(k)' <=> OnItsWay(k) \/ m.kind = k
  <1>1. socket \in Seq(Message)
    BY DEF TypeOK
  <1>2. PICK n \in Nat : n = Len(socket)
    BY <1>1, LenProperties
  <1>3. /\ socket' \in Seq(Message) /\ Len(socket') = n + 1
        /\ \A i \in 1 .. n : socket'[i] = socket[i]
        /\ socket'[n + 1] = m
    BY <1>1, <1>2, AppendProperties DEF Send
  <1>4. \A i \in 1 .. n + 1 : i \in 1 .. n \/ i = n + 1
    OBVIOUS
  <1>5. \A i \in 1 .. n : i \in 1 .. n + 1
    OBVIOUS
  <1>6. n + 1 \in 1 .. n + 1
    OBVIOUS
  <1>7. ASSUME NEW k PROVE OnItsWay(k)' <=> OnItsWay(k) \/ m.kind = k
    BY <1>2, <1>3, <1>4, <1>5, <1>6 DEF OnItsWay
  <1> QED
    BY <1>2, <1>3, <1>7

(* The first message is taken from the socket. *)
LEMMA Receiving ==
  ASSUME TypeOK, NEW k, Arrives(k)
  PROVE  /\ Head(socket) \in Message /\ Head(socket) = socket[1] /\ socket[1].kind = k
         /\ socket' \in Seq(Message) /\ Len(socket) \in Nat \ {0}
         /\ Len(socket') = Len(socket) - 1
         /\ 1 \in 1 .. Len(socket) /\ OnItsWay(k)
         /\ \A i \in 1 .. Len(socket) - 1 : socket'[i] = socket[i + 1] /\ i + 1 \in 1 .. Len(socket)
         /\ \A j : OnItsWay(j)' => OnItsWay(j)
         /\ ~fault /\ receiving = NULL
  <1>1. /\ socket \in Seq(Message) /\ socket # << >> /\ socket' = Tail(socket)
        /\ Head(socket).kind = k /\ ~fault /\ receiving = NULL
    BY DEF TypeOK, Arrives
  <1>2. PICK n \in Nat \ {0} : n = Len(socket)
    BY <1>1, EmptySeq
  <1>3. /\ Head(socket) \in Message /\ socket' \in Seq(Message) /\ Len(socket') = n - 1
        /\ \A i \in 1 .. n - 1 : socket'[i] = socket[i + 1]
    BY <1>1, <1>2, HeadTailProperties
  <1>4. Head(socket) = socket[1] /\ 1 \in 1 .. n
    BY <1>2
  <1>5. \A i \in 1 .. n - 1 : i + 1 \in 1 .. n
    OBVIOUS
  <1>6. ASSUME NEW j PROVE OnItsWay(j)' => OnItsWay(j)
    BY <1>2, <1>3, <1>5 DEF OnItsWay
  <1>7. OnItsWay(k)
    BY <1>1, <1>2, <1>4 DEF OnItsWay
  <1> QED
    BY <1>1, <1>2, <1>3, <1>4, <1>5, <1>6, <1>7

(* A step that touches no frame. *)
LEMMA FramesKept ==
  ASSUME FramesOK, UNCHANGED <<held, current, done>>
  PROVE  FramesOK'
  BY DEF FramesOK, NewestFrame

(* A step that moves no image, and makes none. *)
LEMMA ImagesKept ==
  ASSUME ImagesApart, ImagesMade, UNCHANGED <<free, held, current, decoder, made, starts>>,
         dangling' = dangling, pc' = "redecode" => pc = "redecode"
  PROVE  ImagesApart' /\ ImagesMade'
  <1>1. \A x : /\ InFree(x)' <=> InFree(x)
               /\ InCurrent(x)' <=> InCurrent(x)
               /\ InHeld(x)' <=> InHeld(x)
    BY DEF InFree, InCurrent, InHeld
  <1>2. ImagesApart'
    BY <1>1 DEF ImagesApart
  <1>3. ImagesMade'
    BY <1>1 DEF ImagesMade
  <1> QED
    BY <1>2, <1>3

(* The server's side of a stream. *)
ServerSide == [state : {"none", "PAUSED", "UNPAUSED", "destroying", "closed"},
               worker : 0 .. MaxStarts, attached : BOOLEAN, source : {"open", "closed"},
               format : Format, sends : Format]

(* Where a worker can be. *)
WorkerPlaces == {"off", "loop", "null", "pause", "detach", "clear", "notify"}

(* A stream that was started no more than once has no other worker than the last. *)
LEMMA LastJoined ==
  ASSUME TypeOK, WorkersOK, starts <= 1, server.worker # 0 => wpc[server.worker] = "off"
  PROVE  ~Working
  <1>1. server.worker \in Nat /\ starts \in Nat
    BY ClientStreamAssumption DEF TypeOK
  <1>2. ASSUME NEW w \in Workers, wpc[w] # "off" PROVE FALSE
    <2>1. w <= server.worker /\ server.worker <= starts
      BY <1>2 DEF WorkersOK
    <2>2. w \in Nat /\ w >= 1
      BY ClientStreamAssumption DEF Workers
    <2>3. server.worker = w /\ server.worker # 0
      BY <1>1, <2>1, <2>2
    <2> QED
      BY <1>2, <2>3
  <1> QED
    BY <1>2 DEF Working

(* A request is served, in whatever way fits the parts of the invariant. *)
LEMMA ServeKeeps ==
  ASSUME IInv, NEW o \in Ops, NEW s \in ServerSide, NEW ok \in BOOLEAN, Serve(o, s, ok),
         \/ wpc' = wpc /\ s.worker = server.worker
         \/ /\ o = "unpause" /\ s.worker = server.worker + 1
            /\ wpc' = [wpc EXCEPT ![s.worker] = "loop"],
         s.state \notin {"none", "destroying"}, s.state = "closed" <=> o = "close",
         o = "close" /\ s.worker # 0 => wpc[s.worker] = "off",
         s.format = server.format \/ (o = "set" /\ ok),
         s.state = "UNPAUSED" =>
           \/ server.state = "UNPAUSED" /\ s.sends = server.sends /\ s.format = server.format
           \/ o = "unpause" /\ s.sends = s.format
  PROVE  IInv'
  <1>1. /\ ~fault /\ pc = "sent" /\ op = o /\ server' = s /\ pc' = "served"
        /\ UNCHANGED <<op, held, stream, global, dec, receiving, answer, bounds, done, fault>>
    BY DEF Serve
  <1>2. PICK m : m = [kind |-> "reply", ok |-> ok, format |-> s.format]
    OBVIOUS
  <1>3. m \in Message /\ m.kind = "reply" /\ m.ok = ok /\ m.format = s.format /\ Send(m)
    BY <1>2 DEF ServerSide, Message, Reply, Serve
  <1>4. PICK n \in Nat : n = Len(socket)
    BY <1>3, Sending DEF IInv
  <1>5. /\ socket' \in Seq(Message) /\ Len(socket') = n + 1
        /\ \A i \in 1 .. n : socket'[i] = socket[i]
        /\ socket'[n + 1] = m
        /\ OnItsWay("data")' <=> OnItsWay("data")
        /\ OnItsWay("orphaned")' <=> OnItsWay("orphaned")
    BY <1>3, <1>4, Sending DEF IInv
  <1>6. \A i \in 1 .. n + 1 : i \in 1 .. n \/ i = n + 1
    OBVIOUS
  <1>7. answer = NULL /\ \A i \in 1 .. n : socket[i].kind # "reply"
    BY <1>1, <1>4 DEF IInv, ReplyOK, OnItsWay
  <1>w. /\ wpc' \in [Workers -> WorkerPlaces]
        /\ Working' => Working \/ o = "unpause"
    <2>1. wpc \in [Workers -> WorkerPlaces]
      BY DEF IInv, TypeOK, WorkerPlaces
    <2> QED
      BY <2>1 DEF Working, WorkerPlaces
  <1>8. TypeOK'
    <2>1. server' \in ServerSide /\ wpc' \in [Workers -> WorkerPlaces] /\ pc' = "served"
      BY <1>1, <1>w
    <2> QED
      BY <1>1, <1>5, <2>1 DEF IInv, TypeOK, ServerSide, WorkerPlaces
  <1>9. ReplyOK'
    <2>1. OnItsWay("reply")'
      BY <1>3, Sending DEF IInv
    <2>2. \A i \in 1 .. n + 1 : socket'[i].kind = "reply" => i = n + 1
      BY <1>5, <1>6, <1>7
    <2> QED
      BY <1>1, <1>5, <1>7, <2>1, <2>2 DEF ReplyOK
  <1>v. WorkersOK'
    <2>1. /\ server.worker \in Nat /\ s.worker \in Nat /\ starts \in Nat
          /\ \A w \in Workers : w \in Nat
      BY ClientStreamAssumption DEF IInv, TypeOK, ServerSide, Workers
    <2>2. wpc \in [Workers -> WorkerPlaces]
      BY DEF IInv, TypeOK, WorkerPlaces
    <2>3. /\ \A w \in Workers : wpc[w] # "off" => w <= server.worker
          /\ server.worker <= starts
          /\ o = "unpause" => server.worker < starts
      BY <1>1 DEF IInv, WorkersOK
    <2>4. CASE wpc' = wpc /\ s.worker = server.worker
      BY <1>1, <2>3, <2>4 DEF WorkersOK
    <2>5. CASE /\ o = "unpause" /\ s.worker = server.worker + 1
               /\ wpc' = [wpc EXCEPT ![s.worker] = "loop"]
      <3>1. s.worker <= starts /\ server.worker <= s.worker
        BY <2>1, <2>3, <2>5
      <3>2. ASSUME NEW w \in Workers, wpc'[w] # "off" PROVE w <= s.worker
        <4>1. w = s.worker \/ wpc[w] # "off"
          BY <2>2, <2>5, <3>2
        <4>2. w = s.worker \/ w <= server.worker
          BY <2>3, <4>1
        <4> QED
          BY <2>1, <3>1, <4>2
      <3> QED
        BY <1>1, <3>1, <3>2 DEF WorkersOK
    <2> QED
      BY <2>4, <2>5
  <1>10. ListedOK'
    <2>1. ASSUME ~known PROVE o # "unpause"
      BY <1>1, <2>1 DEF IInv, ListedOK, Waits
    <2> QED
      BY <1>1, <1>5, <1>w, <2>1 DEF IInv, ListedOK, Waits
  <1>11. CloseOK'
    <2>1. ASSUME o = "close", starts <= 1 PROVE ~Working'
      BY <1>w, <2>1, LastJoined DEF IInv
    <2> QED
      BY <1>1, <1>5, <1>6, <1>7, <2>1 DEF CloseOK
  <1>12. Active' => Active \/ o = "unpause"
    BY <1>1, <1>5, <1>w DEF Active
  <1>13. StartOK'
    <2>1. o = "unpause" => starts # 0
      BY <1>1 DEF IInv, StartOK, Waits
    <2> QED
      BY <1>1, <1>12, <2>1 DEF IInv, StartOK, Waits
  <1>14. FormatOK'
    <2>1. o # "set" /\ o # "getInfo" /\ known => format = s.format
      BY <1>1 DEF IInv, FormatOK, Waits
    <2>2. o = "set" /\ ~ok => format = s.format
      BY <1>1 DEF IInv, FormatOK
    <2>3. \A i \in 1 .. n + 1 : socket'[i].kind = "reply" => i = n + 1
      BY <1>5, <1>6, <1>7
    <2>4. ReplyFits(m)'
      BY <1>1, <1>3, <2>2 DEF ReplyFits
    <2>5. (\A i \in 1 .. Len(socket) : socket[i].kind = "reply" => ReplyFits(socket[i]))'
      BY <1>1, <1>3, <1>5, <2>2, <2>3 DEF ReplyFits
    <2>6. ASSUME starts = 1, s.state = "UNPAUSED"
          PROVE  /\ s.sends = decFormat /\ s.format = decFormat
                 /\ receiving # NULL => receiving.format = decFormat
                 /\ \A i \in 1 .. n + 1 : socket'[i].kind = "data" => socket'[i].format = decFormat
      <3>1. CASE server.state = "UNPAUSED" /\ s.sends = server.sends /\ s.format = server.format
        <4>1. \A i \in 1 .. n : socket[i].kind = "data" => socket[i].format = decFormat
          BY <1>4, <2>6, <3>1 DEF IInv, FormatOK
        <4> QED
          BY <1>3, <1>5, <1>6, <2>6, <3>1, <4>1 DEF IInv, FormatOK
      <3>2. CASE o = "unpause" /\ s.sends = s.format
        <4>1. ~Active
          BY <1>1, <2>6, <3>2 DEF IInv, StartOK
        <4>2. receiving = NULL /\ \A i \in 1 .. n : socket[i].kind # "data"
          BY <1>4, <4>1 DEF Active, OnItsWay
        <4>3. known
          BY <1>1, <3>2 DEF IInv, ListedOK, Waits
        <4>4. format = s.format /\ decFormat = format
          BY <1>1, <2>1, <3>2, <4>3 DEF IInv, FormatOK
        <4> QED
          BY <1>3, <1>5, <1>6, <3>2, <4>2, <4>4
      <3> QED
        BY <2>6, <3>1, <3>2
    <2> QED
      BY <1>1, <1>5, <1>7, <2>1, <2>5, <2>6 DEF FormatOK, Waits
  <1>15. WaitingOK'
    BY <1>1 DEF WaitingOK, NoWakeUpMissed
  <1>16. FramesOK' /\ ImagesApart' /\ ImagesMade'
    BY <1>1, FramesKept, ImagesKept DEF IInv
  <1> QED
    BY <1>8, <1>9, <1>v, <1>10, <1>11, <1>13, <1>14, <1>15, <1>16 DEF IInv

(* Every request that the server answers. *)
LEMMA ServingKeeps ==
  ASSUME IInv, \/ ServeOpen \/ ServeAttach \/ ServeGetInfo \/ ServeFormat \/ ServeRefusal
               \/ ServeOther \/ ServeUnpause \/ ServePause \/ ServeClose
  PROVE  IInv'
  <1>1. server \in ServerSide /\ sets \in Format /\ wpc \in [Workers -> WorkerPlaces]
    BY DEF IInv, TypeOK, ServerSide, Format, WorkerPlaces
  <1>2. ASSUME NEW o, NEW s, NEW ok, Serve(o, s, ok)
        PROVE  /\ o = "open" \/ server.state # "none"
               /\ server.state = "closed" => FALSE
               /\ server.state = "destroying" => o = "close"
    BY <1>2 DEF Serve, IInv, ListedOK, CloseOK
  <1>s. ASSUME NEW o \in Ops, NEW ok \in BOOLEAN, o \notin {"open", "close"},
               Serve(o, server, ok), wpc' = wpc
        PROVE  IInv'
    <2>1. PICK s \in ServerSide : s = server
      BY <1>1
    <2>2. Serve(o, s, ok) /\ s.state \notin {"none", "closed", "destroying"}
      BY <1>2, <1>s, <2>1
    <2>3. /\ s.worker = server.worker
          /\ s.state = "UNPAUSED" => server.state = "UNPAUSED"
          /\ s.sends = server.sends /\ s.format = server.format
      BY <2>1
    <2> QED
      BY <1>s, <2>2, <2>3, ServeKeeps
  <1>3. CASE ServeOpen
    <2> DEFINE s == [server EXCEPT !.state = "PAUSED"]
    <2>1. s \in ServerSide /\ s.state = "PAUSED" /\ s.worker = server.worker
          /\ s.format = server.format
      BY <1>1 DEF ServerSide
    <2>2. Serve("open", s, TRUE) /\ wpc' = wpc
      BY <1>3 DEF ServeOpen
    <2> HIDE DEF s
    <2> QED
      BY <2>1, <2>2, ServeKeeps DEF Ops
  <1>4. CASE ServeAttach
    <2>1. PICK ok \in BOOLEAN : ok = (server.source = "open")
      OBVIOUS
    <2>2. PICK s : s = [server EXCEPT !.attached = ok]
      OBVIOUS
    <2>3. /\ s \in ServerSide /\ s.state = server.state /\ s.worker = server.worker
          /\ s.format = server.format /\ s.sends = server.sends
      BY <1>1, <2>2 DEF ServerSide
    <2>4. Serve("attach", s, ok) /\ wpc' = wpc
      BY <1>4, <2>1, <2>2 DEF ServeAttach
    <2>5. s.state \notin {"none", "closed", "destroying"}
      BY <1>2, <2>3, <2>4
    <2> QED
      BY <2>3, <2>4, <2>5, ServeKeeps DEF Ops
  <1>5. CASE ServeGetInfo
    BY <1>5, <1>s DEF ServeGetInfo, Ops
  <1>6. CASE ServeFormat
    <2>1. PICK s : s = [server EXCEPT !.format = sets]
      OBVIOUS
    <2>2. /\ s \in ServerSide /\ s.state = server.state /\ s.worker = server.worker
          /\ server.state = "PAUSED"
      BY <1>1, <1>6, <2>1 DEF ServerSide, ServeFormat
    <2>3. Serve("set", s, TRUE) /\ wpc' = wpc
      BY <1>6, <2>1 DEF ServeFormat
    <2> QED
      BY <2>2, <2>3, ServeKeeps DEF Ops
  <1>7. CASE ServeRefusal
    BY <1>7, <1>s DEF ServeRefusal, Ops
  <1>8. CASE ServeOther
    BY <1>8, <1>s DEF ServeOther, Ops
  <1>9. CASE ServeUnpause
    <2>1. CASE server.state = "PAUSED" /\ server.attached
      <3>1. PICK s : s = [server EXCEPT !.state = "UNPAUSED", !.worker = server.worker + 1,
                                        !.sends = server.format]
        OBVIOUS
      <3>2. Serve("unpause", s, TRUE) /\ wpc' = [wpc EXCEPT ![server.worker + 1] = "loop"]
        BY <1>9, <2>1, <3>1 DEF ServeUnpause
      <3>3. server.worker + 1 \in 0 .. MaxStarts /\ server.format \in Format
        <4>1. server.worker < starts /\ starts \in 0 .. MaxStarts /\ server.worker \in 0 .. MaxStarts
          BY <1>1, <3>2 DEF Serve, IInv, WorkersOK, TypeOK, ServerSide
        <4> QED
          BY <1>1, <4>1, ClientStreamAssumption DEF ServerSide
      <3>4. /\ s \in ServerSide /\ s.state = "UNPAUSED" /\ s.format = server.format
            /\ s.sends = s.format /\ s.worker = server.worker + 1
        BY <1>1, <3>1, <3>3 DEF ServerSide
      <3>5. wpc' = [wpc EXCEPT ![s.worker] = "loop"]
        BY <3>2, <3>4
      <3> QED
        BY <3>2, <3>4, <3>5, ServeKeeps DEF Ops
    <2>2. CASE ~(server.state = "PAUSED" /\ server.attached)
      <3>1. Serve("unpause", server, TRUE) /\ wpc' = wpc
        BY <1>9, <2>2 DEF ServeUnpause
      <3> QED
        BY <3>1, <1>s DEF Ops
    <2> QED
      BY <2>1, <2>2
  <1>10. CASE ServePause
    <2>1. PICK s : s = [server EXCEPT !.state = "PAUSED"]
      OBVIOUS
    <2>2. s \in ServerSide /\ s.state = "PAUSED" /\ s.worker = server.worker
          /\ s.format = server.format
      BY <1>1, <2>1 DEF ServerSide
    <2>3. Serve("pause", s, TRUE) /\ wpc' = wpc
      BY <1>10, <2>1 DEF ServePause
    <2> QED
      BY <2>2, <2>3, ServeKeeps DEF Ops
  <1>11. CASE ServeClose
    <2>1. PICK s : s = [server EXCEPT !.state = "closed"]
      OBVIOUS
    <2>2. /\ s \in ServerSide /\ s.state = "closed" /\ s.worker = server.worker
          /\ s.format = server.format /\ (s.worker # 0 => wpc[s.worker] = "off")
      BY <1>1, <1>11, <2>1 DEF ServerSide, ServeClose
    <2>3. Serve("close", s, TRUE) /\ wpc' = wpc
      BY <1>11, <2>1 DEF ServeClose
    <2> QED
      BY <2>2, <2>3, ServeKeeps DEF Ops
  <1> QED
    BY <1>3, <1>4, <1>5, <1>6, <1>7, <1>8, <1>9, <1>10, <1>11

(* A worker goes on: it may end, but none starts. *)
LEMMA WorkerGoes ==
  ASSUME TypeOK, WorkersOK, NEW w \in Workers, NEW to \in WorkerPlaces, wpc[w] # "off",
         wpc' = [wpc EXCEPT ![w] = to]
  PROVE  /\ wpc' \in [Workers -> WorkerPlaces]
         /\ \A v \in Workers : wpc'[v] # "off" => wpc[v] # "off"
  <1>1. wpc \in [Workers -> WorkerPlaces]
    BY DEF TypeOK, WorkerPlaces
  <1> QED
    BY <1>1

(* The server goes on by itself and sends nothing: it closes the stream, a worker runs, or
   the source closes. *)
Alone == \/ ServeClosing \/ SourceCloses
         \/ \E w \in Workers : \/ WorkerEnds(w) \/ NoFrame(w) \/ Recheck(w) \/ PauseIt(w)
                               \/ Detach(w) \/ Clear(w)

(* What such a step does to the server's side. *)
AloneDoes ==
  /\ UNCHANGED <<app, stream, global, dec, receiving, answer, socket, bounds, done, fault>>
  /\ server' \in ServerSide /\ wpc' \in [Workers -> WorkerPlaces]
  /\ \A v \in Workers : wpc'[v] # "off" => wpc[v] # "off"
  /\ server'.worker = server.worker
  /\ server'.format = server.format /\ server'.sends = server.sends
  /\ \/ server'.state = server.state
     \/ server.state = "UNPAUSED" /\ server'.state = "PAUSED"
     \/ /\ server.state = "PAUSED" /\ server'.state = "destroying"
        /\ pc = "sent" /\ op = "close"

LEMMA AloneStep == IInv /\ Alone => AloneDoes
  <1> SUFFICES ASSUME IInv, Alone PROVE AloneDoes
    OBVIOUS
  <1>1. server \in ServerSide /\ wpc \in [Workers -> WorkerPlaces]
    BY DEF IInv, TypeOK, ServerSide, WorkerPlaces
  <1>2. CASE ServeClosing
    <2>1. PICK s \in {"PAUSED", "destroying"} :
            /\ server' = [server EXCEPT !.state = s]
            /\ server.state = "UNPAUSED" => s = "PAUSED"
            /\ server.state # "UNPAUSED" => s = "destroying"
      BY <1>1, <1>2 DEF ServeClosing
    <2>2. /\ server' \in ServerSide /\ server'.state = s /\ server'.worker = server.worker
          /\ server'.format = server.format /\ server'.sends = server.sends
      BY <1>1, <2>1 DEF ServerSide
    <2> QED
      BY <1>1, <1>2, <2>1, <2>2 DEF ServeClosing, AloneDoes
  <1>3. CASE SourceCloses
    BY <1>1, <1>3 DEF SourceCloses, ServerSide, AloneDoes
  <1>4. ASSUME NEW w \in Workers,
               \/ WorkerEnds(w) \/ NoFrame(w) \/ Recheck(w) \/ PauseIt(w) \/ Detach(w) \/ Clear(w)
        PROVE  AloneDoes
    <2>1. PICK from \in WorkerPlaces, to \in WorkerPlaces : Goto(w, from, to) /\ from # "off"
      <3>1. CASE WorkerEnds(w)
        BY <3>1 DEF WorkerEnds, WorkerPlaces
      <3>2. CASE NoFrame(w)
        BY <3>2 DEF NoFrame, WorkerPlaces
      <3>3. CASE Recheck(w)
        <4>1. Goto(w, "null", "pause") \/ Goto(w, "null", "off")
          BY <3>3 DEF Recheck
        <4> QED
          BY <4>1 DEF WorkerPlaces
      <3>4. CASE PauseIt(w)
        BY <3>4 DEF PauseIt, WorkerPlaces
      <3>5. CASE Detach(w)
        <4>1. Goto(w, "detach", "notify") \/ Goto(w, "detach", "clear")
          BY <3>5 DEF Detach
        <4> QED
          BY <4>1 DEF WorkerPlaces
      <3>6. CASE Clear(w)
        BY <3>6 DEF Clear, WorkerPlaces
      <3> QED
        BY <1>4, <3>1, <3>2, <3>3, <3>4, <3>5, <3>6
    <2>2. /\ wpc[w] # "off" /\ wpc' = [wpc EXCEPT ![w] = to]
          /\ UNCHANGED <<app, stream, global, dec, receiving, answer, bounds, done, fault>>
      BY <2>1 DEF Goto
    <2>3. /\ wpc' \in [Workers -> WorkerPlaces]
          /\ \A v \in Workers : wpc'[v] # "off" => wpc[v] # "off"
      BY <2>2, WorkerGoes DEF IInv
    <2>4. socket' = socket
      BY <1>4 DEF WorkerEnds, NoFrame, Recheck, PauseIt, Detach, Clear
    <2>5. \/ server' = server
          \/ server.state = "UNPAUSED" /\ server' = [server EXCEPT !.state = "PAUSED"]
          \/ server' = [server EXCEPT !.attached = FALSE]
      BY <1>4 DEF WorkerEnds, NoFrame, Recheck, PauseIt, Detach, Clear
    <2>6. /\ server' \in ServerSide /\ server'.worker = server.worker
          /\ server'.format = server.format /\ server'.sends = server.sends
          /\ server'.state = server.state
               \/ (server.state = "UNPAUSED" /\ server'.state = "PAUSED")
      BY <1>1, <2>5 DEF ServerSide
    <2> QED
      BY <2>2, <2>3, <2>4, <2>6 DEF AloneDoes
  <1> QED
    BY <1>2, <1>3, <1>4 DEF Alone

LEMMA ServerAloneKeeps == IInv /\ Alone => IInv'
  <1> SUFFICES ASSUME IInv, Alone PROVE IInv'
    OBVIOUS
  <1>1. AloneDoes
    BY AloneStep
  <1>2. TypeOK'
    BY <1>1 DEF AloneDoes, IInv, TypeOK, ServerSide, WorkerPlaces
  <1>3. \A k : OnItsWay(k)' <=> OnItsWay(k)
    BY <1>1 DEF AloneDoes, OnItsWay
  <1>4. \A o : Waits(o)' <=> Waits(o)
    BY <1>1 DEF AloneDoes, Waits
  <1>5. Working' => Working
    BY <1>1 DEF AloneDoes, Working
  <1>6. ReplyOK'
    BY <1>1, <1>3 DEF AloneDoes, IInv, ReplyOK
  <1>7. WorkersOK'
    BY <1>1 DEF AloneDoes, IInv, WorkersOK
  <1>8. ListedOK'
    BY <1>1, <1>3, <1>4, <1>5 DEF AloneDoes, IInv, ListedOK
  <1>9. CloseOK'
    BY <1>1, <1>5 DEF AloneDoes, IInv, CloseOK
  <1>10. Active' => Active
    BY <1>1, <1>3, <1>5 DEF AloneDoes, Active
  <1>11. StartOK'
    BY <1>1, <1>4, <1>10 DEF AloneDoes, IInv, StartOK
  <1>12. FormatOK'
    <2>1. \A m : ReplyFits(m)' <=> ReplyFits(m)
      BY <1>1 DEF AloneDoes, ReplyFits
    <2> QED
      BY <1>1, <1>4, <2>1 DEF AloneDoes, IInv, FormatOK
  <1>13. WaitingOK'
    BY <1>1 DEF AloneDoes, IInv, WaitingOK, NoWakeUpMissed
  <1>14. FramesOK' /\ ImagesApart' /\ ImagesMade'
    BY <1>1, FramesKept, ImagesKept DEF AloneDoes, IInv
  <1> QED
    BY <1>2, <1>6, <1>7, <1>8, <1>9, <1>11, <1>12, <1>13, <1>14 DEF IInv

(* A worker sends: data, or that the stream is orphaned. *)
LEMMA WorkerSendsKeeps ==
  ASSUME IInv, NEW w \in Workers, SendData(w) \/ Orphan(w)
  PROVE  IInv'
  <1>1. /\ UNCHANGED <<app, stream, global, dec, receiving, answer, server, starts, sets, done,
                       fault>>
        /\ wpc[w] # "off" /\ sent' \in 0 .. MaxData
        /\ wpc' \in [Workers -> WorkerPlaces]
        /\ \A v \in Workers : wpc'[v] # "off" => wpc[v] # "off"
    <2>1. wpc \in [Workers -> WorkerPlaces]
      BY DEF IInv, TypeOK, WorkerPlaces
    <2>2. CASE SendData(w)
      BY <2>1, <2>2, ClientStreamAssumption DEF SendData, IInv, TypeOK
    <2>3. CASE Orphan(w)
      <3>1. /\ wpc[w] # "off" /\ wpc' = [wpc EXCEPT ![w] = "off"] /\ server' = server
            /\ UNCHANGED <<app, stream, global, dec, receiving, answer, bounds, done, fault>>
        BY <2>3 DEF Orphan, Goto
      <3>2. "off" \in WorkerPlaces
        BY DEF WorkerPlaces
      <3> QED
        BY <3>1, <3>2, WorkerGoes DEF IInv, TypeOK
    <2> QED
      BY <2>2, <2>3
  <1>2. PICK m \in Message : /\ Send(m) /\ m.kind \in {"data", "orphaned"}
                             /\ m.kind = "data" => m.format \in {server.sends, server.format}
    <2>1. CASE SendData(w)
      <3>1. PICK n \in PerMessage, f \in {server.sends, server.format} :
              Send([kind |-> "data", frames |-> n, format |-> f])
        BY <2>1 DEF SendData
      <3>2. f \in Format
        BY <3>1 DEF IInv, TypeOK
      <3>3. [kind |-> "data", frames |-> n, format |-> f] \in Message
        BY <3>2 DEF Message, Data
      <3> QED
        BY <3>1, <3>3
    <2>2. CASE Orphan(w)
      <3>1. [kind |-> "orphaned"] \in Message
        BY DEF Message
      <3> QED
        BY <2>2, <3>1 DEF Orphan
    <2> QED
      BY <2>1, <2>2
  <1>3. PICK n \in Nat : n = Len(socket)
    BY <1>2, Sending DEF IInv
  <1>4. /\ socket' \in Seq(Message) /\ Len(socket') = n + 1
        /\ \A i \in 1 .. n : socket'[i] = socket[i]
        /\ socket'[n + 1] = m
        /\ OnItsWay("reply")' <=> OnItsWay("reply")
    BY <1>2, <1>3, Sending DEF IInv
  <1>5. /\ \A i \in 1 .. n + 1 : i \in 1 .. n \/ i = n + 1
        /\ \A i \in 1 .. n : i \in 1 .. n + 1 /\ i # n + 1
    OBVIOUS
  <1>6. Working /\ (Working' => Working)
    BY <1>1 DEF Working
  <1>k. starts <= 1 => known /\ server.state # "closed"
    BY <1>6 DEF IInv, ListedOK, CloseOK
  <1>7. Active
    BY <1>6 DEF Active
  <1>8. \A o : Waits(o)' <=> Waits(o)
    BY <1>1 DEF Waits
  <1>9. TypeOK'
    BY <1>1, <1>4 DEF IInv, TypeOK, WorkerPlaces
  <1>10. ReplyOK'
    <2>1. \A i \in 1 .. n + 1 : socket'[i].kind = "reply" => i \in 1 .. n
      BY <1>2, <1>4, <1>5
    <2>2. \A i, j \in 1 .. n : socket[i].kind = "reply" /\ socket[j].kind = "reply" => i = j
      BY <1>3 DEF IInv, ReplyOK
    <2> QED
      BY <1>1, <1>4, <2>1, <2>2 DEF IInv, ReplyOK
  <1>w. WorkersOK'
    BY <1>1 DEF IInv, WorkersOK
  <1>11. ListedOK'
    BY <1>1, <1>8, <1>k DEF IInv, ListedOK
  <1>12. CloseOK'
    BY <1>1, <1>k DEF IInv, CloseOK
  <1>13. StartOK'
    BY <1>1, <1>7, <1>8 DEF IInv, StartOK
  <1>14. FormatOK'
    <2>1. \A r : ReplyFits(r)' <=> ReplyFits(r)
      BY <1>1 DEF ReplyFits
    <2>2. (\A i \in 1 .. Len(socket) : socket[i].kind = "reply" => ReplyFits(socket[i]))'
      <3>1. \A i \in 1 .. n : socket[i].kind = "reply" => ReplyFits(socket[i])
        BY <1>3 DEF IInv, FormatOK
      <3>2. \A i \in 1 .. n + 1 : socket'[i].kind = "reply" => i \in 1 .. n
        BY <1>2, <1>4, <1>5
      <3> QED
        BY <1>1, <1>4, <3>1, <3>2 DEF ReplyFits
    <2>3. ASSUME starts = 1, server.state = "UNPAUSED"
          PROVE  \A i \in 1 .. n + 1 : socket'[i].kind = "data" => socket'[i].format = decFormat
      <3>1. /\ server.sends = decFormat /\ server.format = decFormat
            /\ \A i \in 1 .. n : socket[i].kind = "data" => socket[i].format = decFormat
        BY <1>3, <2>3 DEF IInv, FormatOK
      <3> QED
        BY <1>2, <1>4, <1>5, <3>1
    <2> QED
      BY <1>1, <1>4, <1>8, <2>1, <2>2, <2>3 DEF IInv, FormatOK
  <1>15. WaitingOK'
    BY <1>1 DEF IInv, WaitingOK, NoWakeUpMissed
  <1>16. FramesOK' /\ ImagesApart' /\ ImagesMade'
    BY <1>1, FramesKept, ImagesKept DEF IInv
  <1> QED
    BY <1>9, <1>10, <1>w, <1>11, <1>12, <1>13, <1>14, <1>15, <1>16 DEF IInv

-----------------------------------------------------------------------------
(* The application's thread. *)

(* What the function that waits for a reply finds when it has come. *)
LEMMA ReplyHere ==
  ASSUME IInv, NEW o, Answered(o)
  PROVE  /\ ~fault /\ pc = "served" /\ op = o /\ answer \in Reply /\ answer' = NULL
         /\ ~OnItsWay("reply") /\ ReplyFits(answer) /\ server.state # "none"
         /\ UNCHANGED <<held, orphaned, current, receiving, socket, remote, bounds, done, fault>>
         /\ \A k : OnItsWay(k)' <=> OnItsWay(k)
  <1>1. /\ ~fault /\ pc = "served" /\ op = o /\ answer # NULL /\ answer' = NULL
        /\ UNCHANGED <<held, orphaned, current, receiving, socket, remote, bounds, done, fault>>
    BY DEF Answered
  <1>2. answer \in Reply
    BY <1>1 DEF IInv, TypeOK
  <1>3. ~OnItsWay("reply") /\ ReplyFits(answer) /\ server.state # "none"
    BY <1>1 DEF IInv, ReplyOK, FormatOK, ListedOK
  <1>4. \A k : OnItsWay(k)' <=> OnItsWay(k)
    BY <1>1 DEF OnItsWay
  <1> QED
    BY <1>1, <1>2, <1>3, <1>4

(* The next request, or the end, of any function but SVR_Stream_destroy. *)
LEMMA AnsweredKeeps ==
  ASSUME IInv, OpenDone \/ AttachDone \/ InfoDone \/ SetDone \/ PauseDone \/ UnpauseDone
  PROVE  IInv'
  <1>1. PICK o \in Ops \ {"close"} :
          /\ Answered(o) /\ UNCHANGED <<global, dec>>
          /\ known' \in BOOLEAN /\ (known' <=> known \/ o = "getInfo")
          /\ state' \in {"PAUSED", "UNPAUSED"}
          /\ \/ /\ pc' = "sent" /\ UNCHANGED format
                /\ (o = "open" /\ op' = "attach") \/ (o \in {"attach", "set"} /\ op' = "getInfo")
             \/ /\ pc' = "idle" /\ op' = "none" /\ o \in {"getInfo", "set", "pause", "unpause"}
                /\ format' = IF o = "getInfo" THEN answer.format ELSE format
                /\ o = "set" => ~answer.ok
             \/ pc' = "gone" /\ op' = "none" /\ UNCHANGED format /\ o = "attach"
    <2>1. known \in BOOLEAN /\ state \in {"PAUSED", "UNPAUSED"}
      BY DEF IInv, TypeOK
    <2>2. ASSUME Answered("open") \/ Answered("attach") PROVE ~known /\ ~(known \/ FALSE)
      BY <2>2 DEF Answered, IInv, ListedOK
    <2>3. CASE OpenDone
      BY <2>1, <2>2, <2>3 DEF OpenDone, Call, Return, Ops
    <2>4. CASE AttachDone
      BY <2>1, <2>2, <2>4 DEF AttachDone, Call, Return, Ops
    <2>5. CASE InfoDone
      BY <2>1, <2>5 DEF InfoDone, Return, Ops
    <2>6. CASE SetDone
      BY <2>1, <2>6 DEF SetDone, Call, Return, Ops
    <2>7. CASE PauseDone
      BY <2>1, <2>7 DEF PauseDone, Return, Ops
    <2>8. CASE UnpauseDone
      BY <2>1, <2>8 DEF UnpauseDone, Return, Ops
    <2> QED
      BY <2>3, <2>4, <2>5, <2>6, <2>7, <2>8
  <1>2. /\ ~fault /\ pc = "served" /\ op = o /\ answer \in Reply /\ answer' = NULL
        /\ ~OnItsWay("reply") /\ ReplyFits(answer) /\ server.state # "none"
        /\ UNCHANGED <<held, orphaned, current, receiving, socket, remote, bounds, done, fault>>
        /\ \A k : OnItsWay(k)' <=> OnItsWay(k)
    BY <1>1, ReplyHere
  <1>3. TypeOK'
    <2>1. format' \in Format /\ op' \in Ops /\ known' \in BOOLEAN
      BY <1>1, <1>2 DEF Reply, IInv, TypeOK, Ops
    <2>2. pc' \in {"sent", "idle", "gone"}
      BY <1>1
    <2> QED
      BY <1>1, <1>2, <2>1, <2>2 DEF IInv, TypeOK
  <1>4. ReplyOK'
    BY <1>1, <1>2 DEF IInv, ReplyOK
  <1>w. WorkersOK'
    BY <1>1, <1>2 DEF IInv, WorkersOK
  <1>a. Working' <=> Working
    BY <1>2 DEF Working
  <1>5. ListedOK'
    <2>1. known => o \notin {"open", "attach"}
      BY <1>2 DEF IInv, ListedOK
    <2>2. ~known => o \in {"open", "attach", "getInfo"}
      BY <1>2 DEF IInv, ListedOK, Waits
    <2> QED
      BY <1>1, <1>2, <1>a, <2>1, <2>2 DEF IInv, ListedOK, Waits
  <1>6. CloseOK'
    BY <1>1, <1>2, <1>a DEF IInv, CloseOK
  <1>7. Active' <=> Active
    BY <1>2, <1>a DEF Active
  <1>8. StartOK'
    BY <1>1, <1>2, <1>7 DEF IInv, StartOK, Waits
  <1>9. FormatOK'
    <2>1. ~known => o \in {"open", "attach", "getInfo"}
      BY <1>2 DEF IInv, ListedOK, Waits
    <2>2. pc' = "idle" => format' = server.format
      BY <1>1, <1>2, <2>1 DEF IInv, FormatOK, ReplyFits, Waits
    <2>3. \A i \in 1 .. Len(socket) : socket[i].kind # "reply"
      BY <1>2 DEF OnItsWay
    <2>4. known' /\ pc' # "idle" => Waits("getInfo")'
      BY <1>1, <1>2 DEF IInv, ListedOK, Waits
    <2>5. /\ ~(pc' = "sent" /\ op' = "set") /\ ~(pc' = "sent" /\ op' = "unpause")
      BY <1>1
    <2>6. decFormat' = decFormat /\ starts' = starts
      BY <1>1, <1>2
    <2> QED
      BY <1>2, <2>2, <2>3, <2>4, <2>5, <2>6 DEF IInv, FormatOK
  <1>b. WaitingOK'
    BY <1>1, <1>2 DEF WaitingOK, NoWakeUpMissed
  <1>10. FramesOK' /\ ImagesApart' /\ ImagesMade'
    BY <1>1, <1>2, FramesKept, ImagesKept DEF IInv
  <1> QED
    BY <1>3, <1>4, <1>w, <1>5, <1>6, <1>8, <1>9, <1>b, <1>10 DEF IInv

(* The end of SVR_Stream_destroy: nothing is on its way any more. *)
LEMMA CloseDoneKeeps ==
  ASSUME IInv, CloseDone
  PROVE  IInv'
  <1>1. /\ Answered("close") /\ receiving = NULL /\ known' = FALSE
        /\ decoder' = 0 /\ free' = << >> /\ pc' = "gone"
        /\ op' = "none"
        /\ UNCHANGED <<state, format, global, decFormat, made, dangling>>
    BY DEF CloseDone, Return
  <1>2. /\ ~fault /\ pc = "served" /\ op = "close" /\ answer \in Reply /\ answer' = NULL
        /\ ~OnItsWay("reply") /\ server.state # "none" /\ answer # NULL
        /\ UNCHANGED <<held, orphaned, current, receiving, socket, remote, bounds, done, fault>>
        /\ \A k : OnItsWay(k)' <=> OnItsWay(k)
    BY <1>1, ReplyHere DEF Answered
  <1>3. /\ server.state = "closed"
        /\ starts <= 1 => ~Working /\ socket = << >>
    BY <1>2 DEF IInv, CloseOK
  <1>4. ASSUME starts <= 1 PROVE \A k : ~OnItsWay(k)
    BY <1>3, <1>4 DEF OnItsWay
  <1>a. Working' <=> Working
    BY <1>2 DEF Working
  <1>5. TypeOK'
    <2>1. free' \in Seq(Image) /\ decoder' \in 0 .. MaxStarts
      BY <1>1, EmptySeq, ClientStreamAssumption
    <2> QED
      BY <1>1, <1>2, <2>1 DEF IInv, TypeOK, Ops
  <1>6. ReplyOK'
    BY <1>1, <1>2 DEF IInv, ReplyOK
  <1>w. WorkersOK'
    BY <1>1, <1>2 DEF IInv, WorkersOK
  <1>7. ListedOK'
    BY <1>1, <1>2, <1>3, <1>4, <1>a DEF IInv, ListedOK
  <1>8. CloseOK'
    <2>1. ASSUME starts <= 1 PROVE 1 .. Len(socket) = {}
      BY <1>3, <2>1
    <2> QED
      BY <1>1, <1>2, <1>3, <1>a, <2>1 DEF CloseOK
  <1>9. (Active' <=> Active) /\ ~dangling
    BY <1>1, <1>2, <1>a DEF Active, IInv, StartOK
  <1>10. StartOK'
    BY <1>1, <1>2, <1>9 DEF IInv, StartOK, Waits
  <1>11. FormatOK'
    <2>1. \A i \in 1 .. Len(socket) : socket[i].kind # "reply"
      BY <1>2 DEF OnItsWay
    <2> QED
      BY <1>1, <1>2, <1>3, <2>1 DEF IInv, FormatOK
  <1>b. WaitingOK'
    BY <1>1 DEF WaitingOK, NoWakeUpMissed
  <1>12. FramesOK'
    BY <1>2, FramesKept DEF IInv
  <1>13. \A x : ~InFree(x)' /\ (InCurrent(x)' <=> InCurrent(x)) /\ (InHeld(x)' <=> InHeld(x))
    <2>1. 1 .. Len(free') = {}
      BY <1>1
    <2> QED
      BY <1>2, <2>1 DEF InFree, InCurrent, InHeld
  <1>14. ImagesApart'
    <2>1. 1 .. Len(free') = {}
      BY <1>1
    <2> QED
      BY <1>2, <1>13, <2>1 DEF IInv, ImagesApart
  <1>15. ImagesMade'
    <2>1. \A x \in Image : x[1] # 0
      BY DEF Image
    <2> QED
      BY <1>1, <1>2, <1>13, <2>1 DEF IInv, ImagesMade
  <1> QED
    BY <1>5, <1>6, <1>w, <1>7, <1>8, <1>10, <1>11, <1>b, <1>12, <1>14, <1>15 DEF IInv

(* A request is made. *)
LEMMA CallKeeps ==
  ASSUME IInv, New \/ Pause \/ Close \/ Set
  PROVE  IInv'
  <1>1. /\ ~fault /\ pc' = "sent"
        /\ \/ pc = "new" /\ op' = "open"
           \/ pc = "idle" /\ op' \in {"pause", "close", "set"}
        /\ UNCHANGED <<held, stream, global, dec, receiving, answer, socket, remote, starts, sent,
                       done, fault>>
        /\ sets' \in 0 .. MaxSets
    BY ClientStreamAssumption DEF New, Pause, Close, Set, Request, Idle, Call, IInv, TypeOK
  <1>2. \A k : OnItsWay(k)' <=> OnItsWay(k)
    BY <1>1 DEF OnItsWay
  <1>3. TypeOK'
    BY <1>1 DEF IInv, TypeOK, Ops
  <1>4. ReplyOK'
    BY <1>1, <1>2 DEF IInv, ReplyOK
  <1>w. WorkersOK'
    BY <1>1 DEF IInv, WorkersOK
  <1>a. Working' <=> Working
    BY <1>1 DEF Working
  <1>5. ListedOK'
    BY <1>1, <1>2, <1>a DEF IInv, ListedOK, Waits
  <1>6. CloseOK'
    BY <1>1, <1>a DEF IInv, CloseOK
  <1>7. StartOK'
    BY <1>1, <1>2, <1>a DEF IInv, StartOK, Waits, Active
  <1>8. FormatOK'
    <2>1. pc = "idle" => known
      BY <1>1 DEF IInv, ListedOK, Waits
    <2>2. pc = "new" => ~known
      BY <1>1 DEF IInv, ListedOK
    <2>3. answer = NULL /\ \A i \in 1 .. Len(socket) : socket[i].kind # "reply"
      BY <1>1 DEF IInv, ReplyOK, OnItsWay
    <2>4. pc = "idle" => format = server.format
      BY <2>1 DEF IInv, FormatOK, Waits
    <2> QED
      BY <1>1, <2>2, <2>3, <2>4 DEF IInv, FormatOK
  <1>b. WaitingOK'
    BY <1>1 DEF WaitingOK, NoWakeUpMissed
  <1>9. FramesOK' /\ ImagesApart' /\ ImagesMade'
    BY <1>1, FramesKept, ImagesKept DEF IInv
  <1> QED
    BY <1>3, <1>4, <1>w, <1>5, <1>6, <1>7, <1>8, <1>b, <1>9 DEF IInv

(* SVR_Stream_unpause destroys the decoder of the last start ... *)
LEMMA UnpauseKeeps ==
  ASSUME IInv, Unpause
  PROVE  IInv'
  <1>1. /\ ~fault /\ pc = "idle" /\ starts < MaxStarts /\ starts' = starts + 1
        /\ dangling' = (decoder # 0) /\ free' = << >> /\ op' = "unpause" /\ pc' = "redecode"
        /\ UNCHANGED <<held, stream, global, decoder, decFormat, made, receiving, answer, socket,
                       remote, sets, sent, done, fault>>
    BY DEF Unpause, Idle
  <1>2. starts \in Nat /\ decoder = starts /\ MaxStarts \in Nat
    BY <1>1, ClientStreamAssumption DEF IInv, StartOK, TypeOK
  <1>3. \A k : OnItsWay(k)' <=> OnItsWay(k)
    BY <1>1 DEF OnItsWay
  <1>4. known
    BY <1>1 DEF IInv, ListedOK, Waits
  <1>5. TypeOK'
    <2>1. starts' \in 0 .. MaxStarts /\ free' \in Seq(Image)
      BY <1>1, <1>2, EmptySeq
    <2>2. dangling' \in BOOLEAN
      BY <1>1
    <2> QED
      BY <1>1, <2>1, <2>2 DEF IInv, TypeOK, Ops
  <1>6. ReplyOK'
    BY <1>1, <1>3 DEF IInv, ReplyOK
  <1>w. WorkersOK'
    <2>1. server.worker <= starts /\ server.worker \in Nat
      BY ClientStreamAssumption DEF IInv, WorkersOK, TypeOK
    <2>2. server.worker < starts' /\ server.worker <= starts'
      BY <1>1, <1>2, <2>1
    <2> QED
      BY <1>1, <2>2 DEF IInv, WorkersOK
  <1>a. Working' <=> Working
    BY <1>1 DEF Working
  <1>c. starts' <= 1 => starts <= 1
    BY <1>1, <1>2
  <1>7. ListedOK'
    BY <1>1, <1>3, <1>4, <1>a, <1>c DEF IInv, ListedOK
  <1>8. CloseOK'
    BY <1>1, <1>a, <1>c DEF IInv, CloseOK
  <1>9. (Active' <=> Active) /\ (starts = 0 => ~Active)
    BY <1>1, <1>3, <1>a DEF Active, IInv, StartOK
  <1>10. StartOK'
    <2>1. starts' # 0 /\ decoder < starts' /\ (starts' = 1 => starts = 0)
      BY <1>1, <1>2
    <2>2. (dangling' <=> decoder # 0) /\ ~fault
      BY <1>1
    <2> QED
      BY <1>1, <1>9, <2>1, <2>2 DEF StartOK, Waits
  <1>11. FormatOK'
    <2>1. format = server.format
      BY <1>1, <1>4 DEF IInv, FormatOK, Waits
    <2>2. answer = NULL /\ \A i \in 1 .. Len(socket) : socket[i].kind # "reply"
      BY <1>1 DEF IInv, ReplyOK, OnItsWay
    <2>3. starts' = 1 => server.state # "UNPAUSED"
      <3>1. starts = 0 => server.state # "UNPAUSED"
        BY DEF IInv, StartOK, Active
      <3> QED
        BY <1>1, <1>2, <3>1
    <2> QED
      BY <1>1, <2>1, <2>2, <2>3 DEF FormatOK
  <1>b. WaitingOK'
    BY <1>1 DEF WaitingOK, NoWakeUpMissed
  <1>12. FramesOK'
    BY <1>1, FramesKept DEF IInv
  <1>13. \A x : ~InFree(x)' /\ (InCurrent(x)' <=> InCurrent(x)) /\ (InHeld(x)' <=> InHeld(x))
    <2>1. 1 .. Len(free') = {}
      BY <1>1
    <2> QED
      BY <1>1, <2>1 DEF InFree, InCurrent, InHeld
  <1>14. ImagesApart'
    <2>1. 1 .. Len(free') = {}
      BY <1>1
    <2> QED
      BY <1>1, <1>13, <2>1 DEF IInv, ImagesApart
  <1>15. ImagesMade'
    <2>1. ASSUME NEW x \in Image, x[1] <= starts PROVE x[1] < starts' /\ x[1] <= starts'
      BY <1>1, <1>2, <2>1 DEF Image
    <2> QED
      BY <1>1, <1>13, <2>1 DEF IInv, ImagesMade
  <1> QED
    BY <1>5, <1>6, <1>w, <1>7, <1>8, <1>10, <1>11, <1>b, <1>12, <1>14, <1>15 DEF IInv

(* ... and opens one for the format the stream has now. *)
LEMMA RedecodeKeeps ==
  ASSUME IInv, Redecode
  PROVE  IInv'
  <1>1. /\ ~fault /\ pc = "redecode" /\ decoder' = starts /\ decFormat' = format
        /\ made' = 0 /\ dangling' = FALSE /\ pc' = "sent"
        /\ UNCHANGED <<op, held, stream, global, free, receiving, answer, socket, remote, bounds,
                       done, fault>>
    BY DEF Redecode
  <1>2. /\ op = "unpause" /\ decoder < starts /\ starts \in Nat /\ decoder \in Nat /\ starts # 0
    BY <1>1 DEF IInv, StartOK, TypeOK
  <1>3. \A k : OnItsWay(k)' <=> OnItsWay(k)
    BY <1>1 DEF OnItsWay
  <1>4. known
    BY <1>1 DEF IInv, ListedOK, Waits
  <1>5. TypeOK'
    <2>1. /\ decoder' \in 0 .. MaxStarts /\ decFormat' \in Format /\ made' \in Nat
          /\ dangling' \in BOOLEAN
      BY <1>1 DEF IInv, TypeOK
    <2> QED
      BY <1>1, <2>1 DEF IInv, TypeOK
  <1>6. ReplyOK'
    BY <1>1, <1>3 DEF IInv, ReplyOK
  <1>w. WorkersOK'
    BY <1>1 DEF IInv, WorkersOK
  <1>a. Working' <=> Working
    BY <1>1 DEF Working
  <1>7. ListedOK'
    BY <1>1, <1>3, <1>4, <1>a DEF IInv, ListedOK
  <1>8. CloseOK'
    BY <1>1, <1>a DEF IInv, CloseOK
  <1>9. Active' <=> Active
    BY <1>1, <1>3, <1>a DEF Active
  <1>10. StartOK'
    BY <1>1, <1>2, <1>9 DEF IInv, StartOK, Waits
  <1>11. FormatOK'
    <2>1. format = server.format
      BY <1>1, <1>4 DEF IInv, FormatOK, Waits
    <2>2. answer = NULL /\ \A i \in 1 .. Len(socket) : socket[i].kind # "reply"
      BY <1>1 DEF IInv, ReplyOK, OnItsWay
    <2>3. starts = 1 => server.state # "UNPAUSED"
      BY <1>1 DEF IInv, StartOK, Active
    <2> QED
      BY <1>1, <2>1, <2>2, <2>3 DEF FormatOK
  <1>b. WaitingOK'
    BY <1>1 DEF WaitingOK, NoWakeUpMissed
  <1>12. FramesOK'
    BY <1>1, FramesKept DEF IInv
  <1>13. \A x : /\ InFree(x)' <=> InFree(x)
                /\ InCurrent(x)' <=> InCurrent(x)
                /\ InHeld(x)' <=> InHeld(x)
    BY <1>1 DEF InFree, InCurrent, InHeld
  <1>14. ImagesApart'
    BY <1>1, <1>13 DEF IInv, ImagesApart
  <1>15. ImagesMade'
    <2>1. \A x \in Image : InFree(x) \/ InCurrent(x) \/ InHeld(x) => x[1] < starts /\ x[1] # starts
      <3>1. \A x \in Image : x[1] \in Nat
        BY DEF Image
      <3> QED
        BY <1>1, <1>2, <3>1 DEF IInv, ImagesMade
    <2>2. \A x \in Image : x[1] < starts => x[1] <= starts
      BY <1>2 DEF Image
    <2>3. 1 .. made' = {}
      BY <1>1
    <2> QED
      BY <1>1, <1>13, <2>1, <2>2, <2>3 DEF ImagesMade
  <1> QED
    BY <1>5, <1>6, <1>w, <1>7, <1>8, <1>10, <1>11, <1>b, <1>12, <1>14, <1>15 DEF IInv

-----------------------------------------------------------------------------
(* Frames, for the application. *)

(* Places where no request is under way and the decoder is whole. *)
Quiet == {"idle", "falling", "asleep", "woken", "syncing", "synced"}

PcKept == pc' = pc \/ (pc \in Quiet /\ pc' \in Quiet)

(* A step of the application that makes no request and takes no reply, or of the receive
   thread that wakes it. *)
LEMMA ControlKept ==
  ASSUME IInv, PcKept, pc = "redecode" => free' = free, receiving' \in {receiving, NULL},
         UNCHANGED <<op, answer, socket, known, remote, listLock, decoder, starts, dangling, fault,
                     format, decFormat>>
  PROVE  Control'
  <1>1. \A k : OnItsWay(k)' <=> OnItsWay(k)
    BY DEF OnItsWay
  <1>2. \A o : Waits(o)' <=> Waits(o)
    BY DEF Waits, PcKept, Quiet
  <1>3. ReplyOK'
    BY <1>1 DEF IInv, ReplyOK, PcKept, Quiet
  <1>w. WorkersOK'
    BY DEF IInv, WorkersOK, PcKept, Quiet
  <1>a. Working' <=> Working
    BY DEF Working
  <1>4. ListedOK'
    BY <1>1, <1>2, <1>a DEF IInv, ListedOK, PcKept, Quiet
  <1>5. CloseOK'
    BY <1>a DEF IInv, CloseOK, PcKept, Quiet
  <1>6. Active' => Active
    BY <1>1, <1>a DEF Active
  <1>7. StartOK'
    BY <1>2, <1>6 DEF IInv, StartOK, PcKept, Quiet
  <1>8. FormatOK'
    <2>1. \A m : ReplyFits(m)' <=> ReplyFits(m)
      BY DEF ReplyFits
    <2> QED
      BY <1>2, <2>1 DEF IInv, FormatOK, PcKept, Quiet
  <1> QED
    BY <1>3, <1>w, <1>4, <1>5, <1>7, <1>8 DEF Control

(* SVR_Stream_sync *)
LEMMA SyncKeeps ==
  ASSUME IInv, Sync \/ Synced
  PROVE  IInv'
  <1>1. /\ UNCHANGED <<op, held, stream, listLock, dec, receiving, answer, socket, remote, bounds,
                       done, fault>>
        /\ newData' = FALSE /\ pc \in Quiet /\ pc' \in Quiet
    BY DEF Sync, Synced, Idle, Quiet
  <1>2. Control'
    BY <1>1, ControlKept DEF PcKept
  <1>3. TypeOK'
    <2>1. /\ newData' \in BOOLEAN
          /\ pc' \in {"new", "sent", "served", "idle", "falling", "asleep", "woken",
                     "syncing", "synced", "redecode", "gone"}
      BY <1>1 DEF Quiet
    <2> QED
      BY <1>1, <2>1 DEF IInv, TypeOK
  <1>b. WaitingOK'
    BY <1>1 DEF Sync, Synced, WaitingOK, NoWakeUpMissed
  <1>4. FramesOK' /\ ImagesApart' /\ ImagesMade'
    BY <1>1, FramesKept, ImagesKept DEF IInv, Quiet
  <1> QED
    BY <1>2, <1>3, <1>b, <1>4 DEF IInv, Control

(* SVR_Stream_getFrame is about to sleep, or takes the current frame if there is one. *)
LEMMA WaitOrTakeKeeps ==
  ASSUME IInv, NEW wait \in BOOLEAN, GetFrame(wait) \/ Woken \/ FallAsleep
  PROVE  IInv'
  <1>1. /\ UNCHANGED <<op, known, state, orphaned, format, global, dec, receiving, answer, socket,
                       remote, bounds, done, fault>>
        /\ pc \in Quiet /\ pc' \in Quiet
        /\ \/ UNCHANGED <<held, current>>
           \/ /\ held' = IF current = NULL THEN held ELSE held \cup {current}
              /\ current' = NULL
    BY DEF GetFrame, Woken, FallAsleep, WaitOrTake, Take, Idle, Quiet
  <1>2. Control'
    BY <1>1, ControlKept DEF PcKept
  <1>3. current \in Frame \cup {NULL} /\ held \subseteq Frame /\ done \in Nat
    BY DEF IInv, TypeOK
  <1>4. TypeOK'
    <2>1. held' \subseteq Frame /\ current' \in Frame \cup {NULL}
      BY <1>1, <1>3
    <2> QED
      BY <1>1, <2>1 DEF IInv, TypeOK, Quiet
  <1>b. WaitingOK'
    BY <1>1 DEF GetFrame, Woken, FallAsleep, WaitOrTake, Take, IInv, WaitingOK, NoWakeUpMissed
  <1>5. CASE UNCHANGED <<held, current>>
    BY <1>1, <1>2, <1>4, <1>5, <1>b, FramesKept, ImagesKept DEF IInv, Control, Quiet
  <1>6. CASE current' = NULL /\ current = NULL /\ held' = held
    BY <1>5, <1>6
  <1>7. CASE current' = NULL /\ current # NULL /\ held' = held \cup {current}
    <2>1. current.frame = done /\ current \in Frame /\ current.image \in Image
      BY <1>3, <1>7 DEF IInv, FramesOK, NewestFrame, Frame
    <2>2. FramesOK'
      BY <1>1, <1>3, <1>7, <2>1 DEF IInv, FramesOK, NewestFrame
    <2>3. \A x : /\ InFree(x)' <=> InFree(x)
                 /\ ~InCurrent(x)'
                 /\ InHeld(x)' <=> InHeld(x) \/ InCurrent(x)
      BY <1>1, <1>7 DEF InFree, InCurrent, InHeld
    <2>4. ImagesApart'
      <3>1. \A f \in held : f.image # current.image
        BY <1>7, <2>1 DEF IInv, ImagesApart, InCurrent, InHeld
      <3>2. \A f, g \in held' : f # g => f.image # g.image
        BY <1>7, <3>1 DEF IInv, ImagesApart
      <3> QED
        BY <1>1, <2>3, <3>2 DEF IInv, ImagesApart
    <2>5. ImagesMade'
      BY <1>1, <2>3 DEF IInv, ImagesMade, Quiet
    <2> QED
      BY <1>2, <1>4, <1>b, <2>2, <2>4, <2>5 DEF IInv, Control
  <1> QED
    BY <1>1, <1>5, <1>6, <1>7

(* SVR_Stream_returnFrame, also of a frame of an earlier decoder. *)
LEMMA ReturnFrameKeeps ==
  ASSUME IInv, NEW f \in held, ReturnFrame(f)
  PROVE  IInv'
  <1>1. /\ pc = "idle" /\ held' = held \ {f} /\ free' = Append(free, f.image)
        /\ UNCHANGED <<pc, op, stream, global, decoder, decFormat, made, dangling, receiving,
                       answer, socket, remote, bounds, done, fault>>
    BY DEF ReturnFrame, Idle
  <1>2. Control'
    BY <1>1, ControlKept DEF PcKept
  <1>3. free \in Seq(Image) /\ f.image \in Image
    BY DEF IInv, TypeOK, Frame
  <1>4. PICK k \in Nat : k = Len(free)
    BY <1>3, LenProperties
  <1>5. /\ free' \in Seq(Image) /\ Len(free') = k + 1
        /\ \A i \in 1 .. k : free'[i] = free[i]
        /\ free'[k + 1] = f.image
    BY <1>1, <1>3, <1>4, AppendProperties
  <1>6. TypeOK'
    BY <1>1, <1>5 DEF IInv, TypeOK
  <1>b. WaitingOK'
    BY <1>1 DEF WaitingOK, NoWakeUpMissed
  <1>7. FramesOK'
    BY <1>1 DEF IInv, FramesOK, NewestFrame
  <1>8. /\ \A i \in 1 .. k + 1 : i \in 1 .. k \/ i = k + 1
        /\ \A i \in 1 .. k : i \in 1 .. k + 1
        /\ k + 1 \in 1 .. k + 1
    OBVIOUS
  <1>9. \A x : /\ InFree(x)' <=> InFree(x) \/ x = f.image
               /\ InCurrent(x)' <=> InCurrent(x)
               /\ InHeld(x)' <=> InHeld(x) /\ x # f.image
    <2>1. \A x : InFree(x)' <=> InFree(x) \/ x = f.image
      BY <1>4, <1>5, <1>8 DEF InFree
    <2>2. \A x : InHeld(x)' <=> InHeld(x) /\ x # f.image
      <3>1. \A g \in held : g # f => g.image # f.image
        BY DEF IInv, ImagesApart
      <3> QED
        BY <1>1, <3>1 DEF InHeld
    <2> QED
      BY <1>1, <2>1, <2>2 DEF InCurrent
  <1>10. InHeld(f.image)
    BY DEF InHeld
  <1>11. ImagesApart'
    <2>1. \A i \in 1 .. k : free[i] # f.image
      BY <1>3, <1>4, <1>10 DEF IInv, ImagesApart, InFree
    <2>2. \A i, j \in 1 .. k : i # j => free[i] # free[j]
      BY <1>4 DEF IInv, ImagesApart
    <2>3. \A i, j \in 1 .. k + 1 : i # j => free'[i] # free'[j]
      BY <1>5, <1>8, <2>1, <2>2
    <2>4. \A g, h \in held' : g # h => g.image # h.image
      BY <1>1 DEF IInv, ImagesApart
    <2>5. \A x \in Image : /\ ~(InFree(x)' /\ InCurrent(x)')
                           /\ ~(InFree(x)' /\ InHeld(x)')
                           /\ ~(InCurrent(x)' /\ InHeld(x)')
      BY <1>9, <1>10 DEF IInv, ImagesApart
    <2> QED
      BY <1>5, <2>3, <2>4, <2>5 DEF ImagesApart
  <1>12. ImagesMade'
    BY <1>1, <1>9, <1>10 DEF IInv, ImagesMade
  <1> QED
    BY <1>2, <1>6, <1>b, <1>7, <1>11, <1>12 DEF IInv, Control

-----------------------------------------------------------------------------
(* The receive thread. *)

(* A reply is handed to the application. *)
LEMMA ReceiveReplyKeeps ==
  ASSUME IInv, ReceiveReply
  PROVE  IInv'
  <1>1. /\ Arrives("reply") /\ answer' = Head(socket)
        /\ UNCHANGED <<app, stream, global, dec, receiving, remote, bounds, done, fault>>
    BY DEF ReceiveReply
  <1>2. PICK n \in Nat \ {0} : n = Len(socket)
    BY <1>1, Receiving DEF IInv
  <1>3. /\ answer' \in Message /\ answer' = socket[1] /\ socket[1].kind = "reply"
        /\ socket' \in Seq(Message) /\ Len(socket') = n - 1 /\ 1 \in 1 .. n /\ OnItsWay("reply")
        /\ \A i \in 1 .. n - 1 : socket'[i] = socket[i + 1] /\ i + 1 \in 1 .. n
        /\ \A j : OnItsWay(j)' => OnItsWay(j)
    BY <1>1, <1>2, Receiving DEF IInv
  <1>4. answer' \in Reply /\ answer' # NULL
    BY <1>3, ClientStreamAssumption DEF Message, Reply, Data
  <1>5. pc = "served" /\ answer = NULL
    BY <1>3 DEF IInv, ReplyOK
  <1>6. \A i \in 1 .. n - 1 : socket'[i].kind # "reply"
    <2>1. \A i \in 1 .. n : socket[i].kind = "reply" => i = 1
      BY <1>2, <1>3 DEF IInv, ReplyOK
    <2>2. \A i \in 1 .. n - 1 : i + 1 # 1
      OBVIOUS
    <2> QED
      BY <1>3, <2>1, <2>2
  <1>7. TypeOK'
    BY <1>1, <1>3, <1>4 DEF IInv, TypeOK
  <1>8. ReplyOK'
    BY <1>1, <1>3, <1>4, <1>5, <1>6 DEF ReplyOK, OnItsWay
  <1>w. WorkersOK'
    BY <1>1 DEF IInv, WorkersOK
  <1>a. Working' <=> Working
    BY <1>1 DEF Working
  <1>9. ListedOK'
    BY <1>1, <1>3, <1>a DEF IInv, ListedOK, Waits
  <1>10. CloseOK'
    <2>1. ASSUME server.state = "closed", starts <= 1 PROVE socket' = << >>
      <3>1. n = 1
        BY <1>2, <1>3, <2>1 DEF IInv, CloseOK
      <3>2. Len(socket') = 0
        BY <1>3, <3>1
      <3> QED
        BY <1>3, <3>2, EmptySeq
    <2> QED
      BY <1>1, <1>3, <1>6, <1>a, <2>1 DEF IInv, CloseOK
  <1>11. Active' => Active
    BY <1>1, <1>3, <1>a DEF Active
  <1>12. StartOK'
    BY <1>1, <1>11 DEF IInv, StartOK, Waits
  <1>13. FormatOK'
    <2>1. ReplyFits(socket[1])
      BY <1>2, <1>3 DEF IInv, FormatOK
    <2>2. ReplyFits(answer)'
      BY <1>1, <1>3, <2>1 DEF ReplyFits
    <2>3. ASSUME starts = 1, server.state = "UNPAUSED"
          PROVE  \A i \in 1 .. n - 1 : socket'[i].kind = "data" => socket'[i].format = decFormat
      BY <1>2, <1>3, <2>3 DEF IInv, FormatOK
    <2> QED
      BY <1>1, <1>3, <1>6, <2>2, <2>3 DEF IInv, FormatOK, Waits
  <1>b. WaitingOK'
    BY <1>1 DEF IInv, WaitingOK, NoWakeUpMissed
  <1>14. FramesOK' /\ ImagesApart' /\ ImagesMade'
    BY <1>1, FramesKept, ImagesKept DEF IInv
  <1> QED
    BY <1>7, <1>8, <1>w, <1>9, <1>10, <1>12, <1>13, <1>b, <1>14 DEF IInv

(* A message from a worker is taken from the socket, and handled in place or kept for
   decoding. *)
LEMMA TakenKeeps ==
  ASSUME IInv, NEW k \in {"data", "orphaned"}, Arrives(k), PcKept,
         receiving' = NULL \/ (k = "data" /\ known /\ receiving' = Head(socket)),
         known => listLock' = listLock,
         UNCHANGED <<op, answer, known, remote, decoder, starts, dangling, free, fault,
                     format, decFormat>>
  PROVE  Control'
  <1>1. PICK n \in Nat \ {0} : n = Len(socket)
    BY Receiving DEF IInv
  <1>2. /\ Head(socket) = socket[1] /\ socket[1].kind = k
        /\ socket' \in Seq(Message) /\ Len(socket') = n - 1 /\ 1 \in 1 .. n /\ OnItsWay(k)
        /\ \A i \in 1 .. n - 1 : socket'[i] = socket[i + 1] /\ i + 1 \in 1 .. n
        /\ \A j : OnItsWay(j)' => OnItsWay(j)
    BY <1>1, Receiving DEF IInv
  <1>3. starts <= 1 => known
    BY <1>2 DEF IInv, ListedOK
  <1>w. WorkersOK'
    BY DEF IInv, WorkersOK, PcKept, Quiet
  <1>a. Working' <=> Working
    BY DEF Working
  <1>4. OnItsWay("reply")' <=> OnItsWay("reply")
    <2>1. ASSUME NEW j \in 1 .. n, socket[j].kind = "reply" PROVE OnItsWay("reply")'
      <3>1. j # 1
        BY <1>2, <2>1
      <3>2. j - 1 \in 1 .. n - 1 /\ (j - 1) + 1 = j
        BY <3>1
      <3>3. socket'[j - 1].kind = "reply"
        BY <1>2, <2>1, <3>2
      <3> QED
        BY <1>2, <3>2, <3>3 DEF OnItsWay
    <2> QED
      BY <1>1, <1>2, <2>1 DEF OnItsWay
  <1>5. \A o : Waits(o)' <=> Waits(o)
    BY DEF Waits, PcKept, Quiet
  <1>6. ReplyOK'
    <2>1. \A i, j \in 1 .. n : socket[i].kind = "reply" /\ socket[j].kind = "reply" => i = j
      BY <1>1 DEF IInv, ReplyOK
    <2>2. \A i, j \in 1 .. n - 1 : i + 1 = j + 1 => i = j
      OBVIOUS
    <2>3. \A i, j \in 1 .. n - 1 : socket'[i].kind = "reply" /\ socket'[j].kind = "reply" => i = j
      BY <1>2, <2>1, <2>2
    <2> QED
      BY <1>2, <1>4, <2>3 DEF IInv, ReplyOK, PcKept, Quiet
  <1>7. ListedOK'
    BY <1>3, <1>5, <1>a DEF IInv, ListedOK, PcKept, Quiet
  <1>8. CloseOK'
    <2>1. ASSUME server.state = "closed", starts <= 1
          PROVE  /\ answer = NULL
                 /\ \A i \in 1 .. n - 1 : socket'[i].kind = "reply" => i = n - 1
      <3>1. socket # << >>
        BY DEF Arrives
      <3>2. answer = NULL /\ \A i \in 1 .. n : socket[i].kind = "reply" => i = n
        BY <1>1, <2>1, <3>1 DEF IInv, CloseOK
      <3>3. \A i \in 1 .. n - 1 : i + 1 = n => i = n - 1
        OBVIOUS
      <3> QED
        BY <1>2, <3>2, <3>3
    <2> QED
      BY <1>2, <1>a, <2>1 DEF IInv, CloseOK, PcKept, Quiet
  <1>9. Active' => Active
    BY <1>2, <1>a DEF Active
  <1>10. StartOK'
    BY <1>5, <1>9 DEF IInv, StartOK, PcKept, Quiet
  <1>11. FormatOK'
    <2>1. \A m : ReplyFits(m)' <=> ReplyFits(m)
      BY DEF ReplyFits
    <2>2. (\A i \in 1 .. Len(socket) : socket[i].kind = "reply" => ReplyFits(socket[i]))'
      <3>1. \A i \in 1 .. n : socket[i].kind = "reply" => ReplyFits(socket[i])
        BY <1>1 DEF IInv, FormatOK
      <3>2. \A i \in 1 .. n - 1 : socket'[i].kind = "reply" => ReplyFits(socket[i + 1])
        BY <1>2, <3>1
      <3> QED
        BY <1>2, <3>2 DEF ReplyFits
    <2>3. ASSUME starts = 1, server.state = "UNPAUSED"
          PROVE  /\ \A i \in 1 .. n - 1 : socket'[i].kind = "data" => socket'[i].format = decFormat
                 /\ receiving' # NULL => receiving'.format = decFormat
      BY <1>1, <1>2, <2>3 DEF IInv, FormatOK
    <2> QED
      BY <1>2, <1>5, <2>1, <2>2, <2>3 DEF IInv, FormatOK, PcKept, Quiet
  <1> QED
    BY <1>6, <1>w, <1>7, <1>8, <1>10, <1>11 DEF Control

(* SVR_Stream_setOrphaned and the first part of SVR_Stream_provideData, whether or not they
   find the stream. *)
LEMMA HandlerKeeps ==
  ASSUME IInv, SetOrphaned \/ ProvideData
  PROVE  IInv'
  <1>1. ASSUME NEW k \in {"data", "orphaned"}, Arrives(k)
        PROVE  /\ Head(socket) \in Message /\ Head(socket).kind = k
               /\ socket' \in Seq(Message) /\ receiving = NULL
    BY <1>1, Receiving DEF IInv
  <1>2. PICK k \in {"data", "orphaned"} :
          /\ Arrives(k) /\ PcKept
          /\ receiving' = NULL \/ (k = "data" /\ known /\ receiving' = Head(socket))
          /\ known => listLock' = listLock
          /\ listLock' \in BOOLEAN
          /\ state' \in {"PAUSED", "UNPAUSED"} /\ orphaned' \in BOOLEAN /\ newData' \in BOOLEAN
          /\ UNCHANGED <<op, held, known, current, format, dec, answer, remote, bounds, done,
                         fault>>
    <2>1. CASE SetOrphaned
      <3>1. Arrives("orphaned") /\ receiving = NULL
        BY <1>1, <2>1 DEF SetOrphaned
      <3>2. CASE known
        BY <2>1, <3>1, <3>2 DEF SetOrphaned, Notify, PcKept, Quiet, IInv, TypeOK
      <3>3. CASE ~known
        BY <2>1, <3>1, <3>3 DEF SetOrphaned, Unknown, PcKept, IInv, TypeOK
      <3> QED
        BY <3>2, <3>3
    <2>2. CASE ProvideData
      <3>1. Arrives("data") /\ receiving = NULL
        BY <1>1, <2>2 DEF ProvideData
      <3>2. CASE known
        BY <2>2, <3>1, <3>2 DEF ProvideData, PcKept, IInv, TypeOK
      <3>3. CASE ~known
        BY <2>2, <3>1, <3>3 DEF ProvideData, Unknown, PcKept, IInv, TypeOK
      <3> QED
        BY <3>2, <3>3
    <2> QED
      BY <2>1, <2>2
  <1>3. Control'
    BY <1>2, TakenKeeps
  <1>4. TypeOK'
    <2>1. socket' \in Seq(Message) /\ receiving' \in Data \cup {NULL}
      BY <1>1, <1>2 DEF Message, Reply, Data
    <2>2. pc' \in {"new", "sent", "served", "idle", "falling", "asleep", "woken",
                   "syncing", "synced", "redecode", "gone"}
      BY <1>2 DEF PcKept, Quiet, IInv, TypeOK
    <2> QED
      BY <1>2, <2>1, <2>2 DEF IInv, TypeOK
  <1>b. WaitingOK'
    <2>1. CASE SetOrphaned
      BY <2>1 DEF SetOrphaned, Arrives, Locked, Unknown, Notify, IInv, WaitingOK, NoWakeUpMissed,
                  ListedOK
    <2>2. CASE ProvideData
      BY <2>2 DEF ProvideData, Arrives, Locked, Unknown, IInv, WaitingOK, NoWakeUpMissed, ListedOK
    <2> QED
      BY <2>1, <2>2
  <1>5. FramesOK' /\ ImagesApart' /\ ImagesMade'
    BY <1>2, FramesKept, ImagesKept DEF IInv, PcKept, Quiet
  <1> QED
    BY <1>3, <1>4, <1>b, <1>5 DEF IInv, Control

(* Only after a second start can data find no decoder. *)
LEMMA CrashKeeps ==
  ASSUME IInv, Crash
  PROVE  IInv'
  <1>1. /\ ~fault /\ receiving # NULL /\ (decoder = 0 \/ dangling \/ pc = "redecode")
        /\ fault' = TRUE
        /\ UNCHANGED <<app, stream, global, dec, receiving, answer, socket, remote, bounds, done>>
    BY DEF Crash
  <1>2. Active /\ starts \in Nat
    BY <1>1 DEF Active, IInv, TypeOK
  <1>3. ~(starts <= 1)
    <2>1. starts # 0
      BY <1>2 DEF IInv, StartOK
    <2>2. pc # "gone"
      BY <1>1 DEF IInv, ListedOK
    <2>3. pc # "redecode" => decoder = starts /\ ~dangling
      BY <2>2 DEF IInv, StartOK
    <2>4. pc = "redecode" => starts # 1
      BY <1>2 DEF IInv, StartOK
    <2> QED
      BY <1>1, <1>2, <2>1, <2>3, <2>4
  <1>4. \A k : OnItsWay(k)' <=> OnItsWay(k)
    BY <1>1 DEF OnItsWay
  <1>5. \A o : Waits(o)' <=> Waits(o)
    BY <1>1 DEF Waits
  <1>6. TypeOK'
    BY <1>1 DEF IInv, TypeOK
  <1>a. Working' <=> Working
    BY <1>1 DEF Working
  <1>7. ReplyOK' /\ WorkersOK' /\ ListedOK' /\ CloseOK'
    BY <1>1, <1>4, <1>5, <1>a DEF IInv, ReplyOK, WorkersOK, ListedOK, CloseOK
  <1>8. StartOK'
    BY <1>1, <1>3, <1>4, <1>5, <1>a DEF IInv, StartOK, Active
  <1>9. FormatOK'
    <2>1. \A m : ReplyFits(m)' <=> ReplyFits(m)
      BY <1>1 DEF ReplyFits
    <2> QED
      BY <1>1, <1>5, <2>1 DEF IInv, FormatOK
  <1>b. WaitingOK'
    BY <1>1 DEF IInv, WaitingOK, NoWakeUpMissed
  <1>10. FramesOK' /\ ImagesApart' /\ ImagesMade'
    BY <1>1, FramesKept, ImagesKept DEF IInv
  <1> QED
    BY <1>6, <1>7, <1>8, <1>9, <1>b, <1>10 DEF IInv

-----------------------------------------------------------------------------
(* Decoding: the lists of images. *)

In(s, x) == \E i \in 1 .. Len(s) : s[i] = x

Distinct(s) == \A i, j \in 1 .. Len(s) : i # j => s[i] # s[j]

(* What two lists hold together. *)
LEMMA Joined ==
  ASSUME NEW S, NEW a \in Seq(S), NEW b \in Seq(S)
  PROVE  /\ a \o b \in Seq(S)
         /\ \A x : In(a \o b, x) <=> In(a, x) \/ In(b, x)
         /\ Distinct(a) /\ Distinct(b) /\ (\A x \in S : ~(In(a, x) /\ In(b, x)))
              => Distinct(a \o b)
  <1>1. PICK m \in Nat : m = Len(a)
    BY LenProperties
  <1>2. PICK n \in Nat : n = Len(b)
    BY LenProperties
  <1>3. PICK c : c = a \o b
    OBVIOUS
  <1>4. /\ c \in Seq(S) /\ Len(c) = m + n
        /\ \A i \in 1 .. m + n : c[i] = IF i <= m THEN a[i] ELSE b[i - m]
    BY <1>1, <1>2, <1>3, ConcatProperties
  <1>5. \A i \in 1 .. m : i \in 1 .. m + n /\ c[i] = a[i]
    BY <1>4
  <1>6. \A i \in 1 .. n : m + i \in 1 .. m + n /\ c[m + i] = b[i]
    BY <1>4
  <1>7. \A i \in 1 .. m + n : \/ i \in 1 .. m /\ c[i] = a[i]
                              \/ i - m \in 1 .. n /\ c[i] = b[i - m]
    BY <1>4
  <1>8. ASSUME NEW x PROVE In(c, x) <=> In(a, x) \/ In(b, x)
    <2>1. In(a, x) => In(c, x)
      BY <1>1, <1>4, <1>5 DEF In
    <2>2. ASSUME NEW i \in 1 .. n, b[i] = x PROVE In(c, x)
      <3>1. m + i \in 1 .. Len(c) /\ c[m + i] = x
        BY <1>4, <1>6, <2>2
      <3> QED
        BY <3>1 DEF In
    <2>3. ASSUME NEW i \in 1 .. m + n, c[i] = x PROVE In(a, x) \/ In(b, x)
      BY <1>1, <1>2, <1>7, <2>3 DEF In
    <2> QED
      BY <1>2, <1>4, <2>1, <2>2, <2>3 DEF In
  <1>9. ASSUME Distinct(a), Distinct(b), \A x \in S : ~(In(a, x) /\ In(b, x))
        PROVE  Distinct(c)
    <2>1. \A i \in 1 .. m, j \in 1 .. n : a[i] # b[j]
      BY <1>1, <1>2, <1>9, ElementOfSeq DEF In
    <2>2. ASSUME NEW i \in 1 .. m + n, NEW j \in 1 .. m + n, i # j
          PROVE  c[i] # c[j]
      BY <1>1, <1>2, <1>7, <1>9, <2>1, <2>2 DEF Distinct
    <2> QED
      BY <1>4, <2>2 DEF Distinct
  <1> QED
    BY <1>3, <1>4, <1>8, <1>9

(* A list without the first n, and the first n of it. *)
LEMMA Parts ==
  ASSUME NEW S, NEW p \in Seq(S), NEW n \in Nat, n <= Len(p)
  PROVE  LET rest == SubSeq(p, n + 1, Len(p))
             used == [i \in 1 .. n |-> p[i]]
         IN  /\ rest \in Seq(S) /\ used \in Seq(S)
             /\ \A x : In(p, x) <=> In(rest, x) \/ In(used, x)
             /\ Distinct(p) => /\ Distinct(rest) /\ Distinct(used)
                               /\ \A x : ~(In(rest, x) /\ In(used, x))
  <1> DEFINE rest == SubSeq(p, n + 1, Len(p))
             used == [i \in 1 .. n |-> p[i]]
  <1>1. PICK m \in Nat : m = Len(p)
    BY LenProperties
  <1>2. \A i \in 1 .. m : p[i] \in S
    BY <1>1, ElementOfSeq
  <1>3. /\ rest \in Seq(S) /\ Len(rest) = m - n
        /\ \A i \in 1 .. m - n : rest[i] = p[n + i]
    <2>1. n + 1 \in 1 .. m + 1 /\ m \in n .. m
      BY <1>1
    <2>2. \A i \in n + 1 .. m : p[i] \in S
      BY <1>2
    <2> QED
      BY <1>1, <1>2, <2>1, <2>2, SubSeqProperties
  <1>4. used \in Seq(S) /\ Len(used) = n /\ \A i \in 1 .. n : used[i] = p[i]
    BY <1>1, <1>2
  <1> HIDE DEF rest, used
  <1>5. /\ \A i \in 1 .. n : i \in 1 .. m
        /\ \A i \in 1 .. m - n : n + i \in 1 .. m
        /\ \A i \in 1 .. m : i \in 1 .. n \/ (i - n \in 1 .. m - n /\ n + (i - n) = i)
        /\ \A i \in 1 .. n, j \in 1 .. m - n : i # n + j
        /\ \A i, j \in 1 .. m - n : i # j => n + i # n + j
    BY <1>1
  <1>6. ASSUME NEW x PROVE In(p, x) <=> In(rest, x) \/ In(used, x)
    <2>1. In(used, x) => In(p, x)
      BY <1>1, <1>4, <1>5 DEF In
    <2>2. In(rest, x) => In(p, x)
      BY <1>1, <1>3, <1>5 DEF In
    <2>3. ASSUME NEW i \in 1 .. m, p[i] = x PROVE In(rest, x) \/ In(used, x)
      <3>1. CASE i \in 1 .. n
        BY <1>4, <2>3, <3>1 DEF In
      <3>2. CASE i - n \in 1 .. m - n /\ n + (i - n) = i
        <4>1. rest[i - n] = x
          BY <1>3, <2>3, <3>2
        <4> QED
          BY <1>3, <3>2, <4>1 DEF In
      <3> QED
        BY <1>5, <3>1, <3>2
    <2> QED
      BY <1>1, <2>1, <2>2, <2>3 DEF In
  <1>7. ASSUME Distinct(p)
        PROVE  Distinct(rest) /\ Distinct(used) /\ \A x : ~(In(rest, x) /\ In(used, x))
    BY <1>1, <1>3, <1>4, <1>5, <1>7 DEF In, Distinct
  <1> QED
    BY <1>3, <1>4, <1>6, <1>7 DEF rest, used

(* The images that decoder d has ready after m, when k are needed. *)
LEMMA NewImages ==
  ASSUME NEW d \in 1 .. MaxStarts, NEW m \in Nat, NEW k \in Nat
  PROVE  LET new == [i \in 1 .. k |-> <<d, m + i>>]
         IN  /\ new \in Seq(Image) /\ Distinct(new) /\ Len(new) = k
             /\ \A x \in Image : In(new, x) <=> x[1] = d /\ x[2] \in m + 1 .. m + k
  <1> DEFINE new == [i \in 1 .. k |-> <<d, m + i>>]
  <1>1. \A i \in 1 .. k : <<d, m + i>> \in Image
    BY DEF Image
  <1>2. new \in Seq(Image) /\ Len(new) = k /\ \A i \in 1 .. k : new[i] = <<d, m + i>>
    BY <1>1
  <1> HIDE DEF new
  <1>3. Distinct(new)
    BY <1>2 DEF Distinct
  <1>4. ASSUME NEW x \in Image PROVE In(new, x) <=> x[1] = d /\ x[2] \in m + 1 .. m + k
    <2>1. PICK a \in 1 .. MaxStarts, n \in Nat : x = <<a, n>>
      BY DEF Image
    <2>2. ASSUME a = d, n \in m + 1 .. m + k PROVE In(new, x)
      <3>1. n - m \in 1 .. k /\ m + (n - m) = n
        BY <2>2
      <3>2. new[n - m] = x
        BY <1>2, <2>1, <2>2, <3>1
      <3> QED
        BY <1>2, <3>1, <3>2 DEF In
    <2>3. ASSUME NEW i \in 1 .. k, new[i] = x PROVE a = d /\ n \in m + 1 .. m + k
      <3>1. <<d, m + i>> = <<a, n>>
        BY <1>2, <2>1, <2>3
      <3>2. a = d /\ n = m + i
        BY <3>1
      <3> QED
        BY <3>2
    <2> QED
      BY <1>2, <2>1, <2>2, <2>3 DEF In
  <1> QED
    BY <1>2, <1>3, <1>4 DEF new

(* The images after the n-th becomes current: the free list and the others. *)
LEMMA KeepsLast ==
  ASSUME NEW pool \in Seq(Image), Distinct(pool), NEW n \in Nat \ {0}, n <= Len(pool),
         NEW c \in Frame \cup {NULL}, c # NULL => ~In(pool, c.image)
  PROVE  LET all == SubSeq(pool, n + 1, Len(pool))
                      \o (IF c = NULL THEN << >> ELSE <<c.image>>)
                      \o [i \in 1 .. n - 1 |-> pool[i]]
         IN  /\ all \in Seq(Image) /\ Distinct(all)
             /\ \A x : In(all, x) <=> (In(pool, x) /\ x # pool[n]) \/ (c # NULL /\ x = c.image)
  <1> DEFINE rest == SubSeq(pool, n + 1, Len(pool))
             mid  == IF c = NULL THEN << >> ELSE <<c.image>>
             used == [i \in 1 .. n - 1 |-> pool[i]]
             upto == [i \in 1 .. n |-> pool[i]]
  <1>1. PICK m \in Nat : m = Len(pool)
    BY LenProperties
  <1>2. /\ rest \in Seq(Image) /\ Distinct(rest)
        /\ upto \in Seq(Image) /\ Distinct(upto)
        /\ \A x : In(pool, x) <=> In(rest, x) \/ In(upto, x)
        /\ \A x : ~(In(rest, x) /\ In(upto, x))
    BY Parts
  <1>3. \A i \in 1 .. n - 1 : i \in 1 .. m /\ pool[i] \in Image
    BY <1>1, ElementOfSeq
  <1>4. /\ used \in Seq(Image) /\ Len(used) = n - 1 /\ n - 1 \in Nat
        /\ \A i \in 1 .. n - 1 : used[i] = pool[i]
    BY <1>3
  <1>5. Len(upto) = n /\ \A i \in 1 .. n : upto[i] = pool[i]
    OBVIOUS
  <1>6. /\ mid \in Seq(Image) /\ Distinct(mid)
        /\ \A x : In(mid, x) <=> c # NULL /\ x = c.image
    <2>1. CASE c = NULL
      <3>1. mid = << >> /\ Len(mid) = 0 /\ mid \in Seq(Image)
        BY <2>1
      <3> QED
        BY <2>1, <3>1 DEF In, Distinct
    <2>2. CASE c # NULL
      <3>1. c.image \in Image
        BY <2>2 DEF Frame
      <3>2. mid = <<c.image>> /\ Len(mid) = 1 /\ mid \in Seq(Image) /\ mid[1] = c.image
        BY <2>2, <3>1
      <3> HIDE DEF mid
      <3>3. \A i \in 1 .. 1 : i = 1
        OBVIOUS
      <3>4. 1 \in 1 .. 1
        OBVIOUS
      <3> QED
        BY <2>2, <3>2, <3>3, <3>4 DEF In, Distinct
    <2> QED
      BY <2>1, <2>2
  <1> HIDE DEF rest, mid, used, upto
  <1>7. /\ \A i \in 1 .. n - 1 : i \in 1 .. n /\ i # n
        /\ \A i \in 1 .. n : i \in 1 .. n - 1 \/ i = n
        /\ n \in 1 .. n /\ n \in 1 .. m
    BY <1>1
  <1>8. Distinct(used)
    BY <1>1, <1>3, <1>4 DEF Distinct
  <1>9. ASSUME NEW x PROVE In(used, x) <=> In(upto, x) /\ x # pool[n]
    <2>1. In(used, x) => In(upto, x)
      BY <1>4, <1>5, <1>7 DEF In
    <2>2. \A i \in 1 .. n - 1 : used[i] # pool[n]
      BY <1>1, <1>3, <1>4, <1>7 DEF Distinct
    <2>3. ASSUME In(upto, x), x # pool[n] PROVE In(used, x)
      BY <1>4, <1>5, <1>7, <2>3 DEF In
    <2> QED
      BY <1>4, <2>1, <2>2, <2>3 DEF In
  <1>10. In(upto, pool[n]) /\ ~In(rest, pool[n])
    BY <1>2, <1>5, <1>7 DEF In
  <1>11. PICK two : two = rest \o mid
    OBVIOUS
  <1>12. /\ two \in Seq(Image) /\ Distinct(two)
         /\ \A x : In(two, x) <=> In(rest, x) \/ In(mid, x)
    <2>1. \A x \in Image : ~(In(rest, x) /\ In(mid, x))
      BY <1>2, <1>6
    <2> QED
      BY <1>2, <1>6, <1>11, <2>1, Joined
  <1>13. PICK all : all = two \o used
    OBVIOUS
  <1>14. /\ all \in Seq(Image) /\ Distinct(all)
         /\ \A x : In(all, x) <=> In(two, x) \/ In(used, x)
    <2>1. \A x \in Image : ~(In(two, x) /\ In(used, x))
      BY <1>2, <1>6, <1>9, <1>12
    <2> QED
      BY <1>4, <1>8, <1>12, <1>13, <2>1, Joined
  <1>15. ASSUME NEW x
         PROVE  In(all, x) <=> (In(pool, x) /\ x # pool[n]) \/ (c # NULL /\ x = c.image)
    BY <1>2, <1>6, <1>9, <1>10, <1>12, <1>14
  <1> QED
    BY <1>11, <1>13, <1>14, <1>15 DEF rest, mid, used

(* SVR_Stream_provideData decodes: the images needed are there or made, the newest of
   those completed becomes current and the rest are free. *)
LEMMA DecodeKeeps ==
  ASSUME IInv, Decode
  PROVE  IInv'
  <1>1. /\ ~fault /\ receiving # NULL /\ decoder # 0 /\ ~dangling /\ receiving' = NULL
        /\ UNCHANGED <<op, held, known, state, orphaned, format, listLock, decoder, decFormat,
                       dangling, answer, socket, remote, bounds, fault>>
    BY DEF Decode
  <1>2. /\ free \in Seq(Image) /\ made \in Nat /\ done \in Nat /\ decoder \in 1 .. MaxStarts
        /\ held \subseteq Frame /\ current \in Frame \cup {NULL} /\ starts \in Nat
    BY <1>1, ClientStreamAssumption DEF IInv, TypeOK
  <1>3. pc # "redecode" /\ decoder <= starts
    <2>1. pc # "redecode" /\ decoder = starts
      BY <1>1 DEF IInv, StartOK
    <2> QED
      BY <1>2, <2>1
  <1>4. PICK n \in Nat : n = receiving.frames
    BY <1>1, ClientStreamAssumption DEF IInv, TypeOK, Data
  <1>5. PICK need \in {n, n + 1} \ {0} :
          LET short == IF Len(free) < need THEN need - Len(free) ELSE 0
              pool  == free \o [i \in 1 .. short |-> <<decoder, made + i>>]
          IN  made' = made + short /\ Deliver(pool, n)
    BY <1>4 DEF Decode
  <1>6. PICK l \in Nat : l = Len(free)
    BY <1>2, LenProperties
  <1>6a. need \in Nat /\ n <= need
    OBVIOUS
  <1>7. PICK short \in Nat : short = IF l < need THEN need - l ELSE 0
    <2>1. CASE l < need
      BY <1>6a, <2>1
    <2>2. CASE ~(l < need)
      BY <2>2
    <2> QED
      BY <2>1, <2>2
  <1>8. n <= l + short
    BY <1>6a, <1>7
  <1>9. PICK d \in 1 .. MaxStarts : d = decoder
    BY <1>2
  <1>10. PICK m \in Nat : m = made
    BY <1>2
  <1>11. PICK new : new = [i \in 1 .. short |-> <<d, m + i>>]
    OBVIOUS
  <1>12. /\ new \in Seq(Image) /\ Distinct(new) /\ Len(new) = short
         /\ \A x \in Image : In(new, x) <=> x[1] = d /\ x[2] \in m + 1 .. m + short
    BY <1>11, NewImages
  <1>13. PICK pool : pool = free \o new
    OBVIOUS
  <1>14. made' = m + short /\ Deliver(pool, n)
    BY <1>5, <1>6, <1>7, <1>9, <1>10, <1>11, <1>13
  <1>15. Distinct(free) /\ \A x : In(free, x) <=> InFree(x)
    BY DEF IInv, ImagesApart, Distinct, In, InFree
  <1>16. \A x \in Image : In(new, x) => ~InFree(x) /\ ~InCurrent(x) /\ ~InHeld(x)
    <2>1. \A y \in m + 1 .. m + short : y \notin 1 .. m
      OBVIOUS
    <2> QED
      BY <1>9, <1>10, <1>12, <2>1 DEF IInv, ImagesMade
  <1>17. /\ pool \in Seq(Image) /\ Distinct(pool)
         /\ \A x : In(pool, x) <=> InFree(x) \/ In(new, x)
    BY <1>2, <1>12, <1>13, <1>15, <1>16, Joined
  <1>18. Len(pool) = l + short
    BY <1>2, <1>6, <1>12, <1>13, ConcatProperties
  <1>19. newData' = TRUE /\ PcKept
    BY <1>14 DEF Deliver, Notify, PcKept, Quiet
  <1>20. Control'
    BY <1>1, <1>3, <1>19, ControlKept
  <1>21. /\ done' = done + n /\ done' \in Nat /\ done' >= done
         /\ n = 0 => current' = current
         /\ n # 0 => /\ current' \in Frame /\ current' # NULL
                     /\ current'.frame = done' /\ current'.image = pool[n]
         /\ n # 0 => n \in 1 .. l + short /\ pool[n] \in Image
    <2>1. done' = done + n
      BY <1>14 DEF Deliver
    <2>2. n = 0 => current' = current
      BY <1>14 DEF Deliver
    <2>3. ASSUME n # 0
          PROVE  /\ current' \in Frame /\ current' # NULL
                 /\ current'.frame = done' /\ current'.image = pool[n]
                 /\ n \in 1 .. l + short /\ pool[n] \in Image
      <3>1. n \in 1 .. l + short
        BY <1>8, <2>3
      <3>2. pool[n] \in Image
        BY <1>17, <1>18, <3>1, ElementOfSeq
      <3>3. PICK ready : ready = [i \in 1 .. n |-> [image |-> pool[i], frame |-> done + i]]
        OBVIOUS
      <3>4. current' = Last(ready)
        BY <1>14, <2>3, <3>3 DEF Deliver, KeepLast
      <3>5. Len(ready) = n /\ n \in 1 .. n
        BY <2>3, <3>3
      <3>6. Last(ready) = ready[n]
        BY <3>5 DEF Last
      <3>7. current' = [image |-> pool[n], frame |-> done + n]
        BY <3>3, <3>4, <3>5, <3>6
      <3>8. current' \in Frame
        BY <1>2, <3>2, <3>7 DEF Frame
      <3> QED
        BY <2>1, <3>1, <3>2, <3>7, <3>8, ClientStreamAssumption
    <2>4. done' \in Nat /\ done' >= done
      BY <1>2, <2>1
    <2> QED
      BY <2>1, <2>2, <2>3, <2>4
  <1>22. \A x \in Image : InCurrent(x) => ~In(pool, x)
    BY <1>16, <1>17 DEF IInv, ImagesApart
  <1>23. /\ free' \in Seq(Image) /\ Distinct(free')
         /\ n = 0 => \A x : InFree(x)' <=> In(pool, x)
         /\ n # 0 => \A x : InFree(x)' <=> (In(pool, x) /\ x # pool[n]) \/ InCurrent(x)
    <2>1. CASE n = 0
      <3>1. free' = SubSeq(pool, 1, Len(pool))
        BY <1>14, <2>1 DEF Deliver
      <3>2. free' = pool
        BY <1>17, <3>1
      <3> QED
        BY <1>17, <2>1, <3>2 DEF InFree, In
    <2>2. CASE n # 0
      <3>1. free' = SubSeq(pool, n + 1, Len(pool))
                      \o (IF current = NULL THEN << >> ELSE <<current.image>>)
                      \o [i \in 1 .. n - 1 |-> pool[i]]
        <4>1. PICK ready : ready = [i \in 1 .. n |-> [image |-> pool[i], frame |-> done + i]]
          OBVIOUS
        <4>2. free' = SubSeq(pool, n + 1, Len(pool))
                        \o (IF current = NULL THEN << >> ELSE <<current.image>>)
                        \o [i \in 1 .. Len(ready) - 1 |-> ready[i].image]
          <5>1. KeepLast(ready, SubSeq(pool, n + 1, Len(pool)))
            BY <1>14, <2>2, <4>1 DEF Deliver
          <5> QED
            BY <5>1 DEF KeepLast
        <4>3. Len(ready) = n /\ \A i \in 1 .. n - 1 : ready[i].image = pool[i]
          BY <2>2, <4>1
        <4>4. [i \in 1 .. Len(ready) - 1 |-> ready[i].image] = [i \in 1 .. n - 1 |-> pool[i]]
          BY <4>3
        <4> QED
          BY <4>2, <4>4
      <3>2. PICK c \in Frame \cup {NULL} : c = current
        BY <1>2
      <3>3. c # NULL => ~In(pool, c.image)
        BY <1>22, <3>2 DEF InCurrent, Frame
      <3>4. n \in Nat \ {0} /\ n <= Len(pool)
        BY <1>8, <1>18, <2>2
      <3>5. PICK all : all = SubSeq(pool, n + 1, Len(pool))
                               \o (IF c = NULL THEN << >> ELSE <<c.image>>)
                               \o [i \in 1 .. n - 1 |-> pool[i]]
        OBVIOUS
      <3>6. /\ all \in Seq(Image) /\ Distinct(all)
            /\ \A x : In(all, x) <=> (In(pool, x) /\ x # pool[n]) \/ (c # NULL /\ x = c.image)
        BY <1>17, <3>3, <3>4, <3>5, KeepsLast
      <3>7. free' = all
        BY <3>1, <3>2, <3>5
      <3>8. \A x : InFree(x)' <=> In(all, x)
        BY <3>7 DEF InFree, In
      <3>9. \A x : InCurrent(x) <=> c # NULL /\ x = c.image
        BY <3>2 DEF InCurrent
      <3> QED
        BY <2>2, <3>6, <3>7, <3>8, <3>9
    <2> QED
      BY <2>1, <2>2
  <1>24. TypeOK'
    <2>1. current' \in Frame \cup {NULL}
      BY <1>2, <1>21
    <2>2. pc' \in {"new", "sent", "served", "idle", "falling", "asleep", "woken",
                   "syncing", "synced", "redecode", "gone"}
      BY <1>19 DEF PcKept, Quiet, IInv, TypeOK
    <2>3. made' \in Nat
      BY <1>14
    <2> QED
      BY <1>1, <1>19, <1>21, <1>23, <2>1, <2>2, <2>3 DEF IInv, TypeOK
  <1>w. WaitingOK'
    <2>1. pc # "falling"
      BY <1>1 DEF IInv, WaitingOK
    <2>2. /\ pc' # "falling" /\ pc' # "syncing"
          /\ pc' = "asleep" => pc = "asleep" /\ ~(n > 0)
      BY <1>14, <2>1 DEF Deliver, Notify
    <2>3. pc' = "asleep" => n = 0
      BY <2>2
    <2> QED
      BY <1>1, <1>21, <2>2, <2>3 DEF IInv, WaitingOK, NoWakeUpMissed
  <1>25. FramesOK'
    <2>1. n = 0 => done' = done
      BY <1>2, <1>21
    <2>2. ASSUME n # 0, NEW f \in held PROVE f.frame < done'
      <3>1. f.frame <= done /\ f.frame \in Nat
        BY <1>2 DEF IInv, FramesOK, Frame
      <3> QED
        BY <1>2, <1>21, <2>2, <3>1
    <2>3. \A f \in held : n # 0 => f.frame <= done'
      <3> SUFFICES ASSUME NEW f \in held, n # 0 PROVE f.frame <= done'
        OBVIOUS
      <3>1. f.frame < done' /\ f.frame \in Nat
        BY <1>2, <2>2 DEF Frame
      <3> QED
        BY <1>21, <3>1
    <2> QED
      BY <1>1, <1>21, <2>1, <2>2, <2>3 DEF IInv, FramesOK, NewestFrame
  <1>26. \A x : /\ InHeld(x)' <=> InHeld(x)
                /\ n = 0 => (InCurrent(x)' <=> InCurrent(x))
                /\ n # 0 => (InCurrent(x)' <=> x = pool[n])
    BY <1>1, <1>21 DEF InHeld, InCurrent
  <1>27. ImagesApart'
    <2>1. ASSUME NEW x \in Image
          PROVE  /\ ~(InFree(x)' /\ InCurrent(x)') /\ ~(InFree(x)' /\ InHeld(x)')
                 /\ ~(InCurrent(x)' /\ InHeld(x)')
      <3>1. /\ ~(InFree(x) /\ InCurrent(x)) /\ ~(InFree(x) /\ InHeld(x))
            /\ ~(InCurrent(x) /\ InHeld(x))
        BY DEF IInv, ImagesApart
      <3>2. In(pool, x) => ~InCurrent(x) /\ ~InHeld(x)
        BY <1>16, <1>17, <3>1
      <3>3. n # 0 => In(pool, pool[n])
        BY <1>18, <1>21 DEF In
      <3> QED
        BY <1>23, <1>26, <3>1, <3>2, <3>3
    <2>2. \A f, g \in held' : f # g => f.image # g.image
      BY <1>1 DEF IInv, ImagesApart
    <2> QED
      BY <1>23, <2>1, <2>2 DEF ImagesApart, Distinct
  <1>28. ImagesMade'
    <2>1. ASSUME NEW x \in Image
          PROVE  InFree(x)' \/ InCurrent(x)' \/ InHeld(x)'
                   <=> InFree(x) \/ InCurrent(x) \/ InHeld(x) \/ In(new, x)
      <3>1. n # 0 => In(pool, pool[n])
        BY <1>18, <1>21 DEF In
      <3> QED
        BY <1>17, <1>23, <1>26, <3>1
    <2>2. ASSUME NEW x \in Image, InFree(x)' \/ InCurrent(x)' \/ InHeld(x)'
          PROVE  x[1] <= starts /\ (x[1] = decoder => x[2] \in 1 .. m + short)
      <3>1. CASE In(new, x)
        <4>1. x[1] = d /\ x[2] \in m + 1 .. m + short
          BY <1>12, <3>1
        <4>2. \A y \in m + 1 .. m + short : y \in 1 .. m + short
          OBVIOUS
        <4> QED
          BY <1>3, <1>9, <4>1, <4>2
      <3>2. CASE InFree(x) \/ InCurrent(x) \/ InHeld(x)
        <4>1. x[1] <= starts /\ (x[1] = decoder => x[2] \in 1 .. m)
          BY <1>10, <3>2 DEF IInv, ImagesMade
        <4>2. \A y \in 1 .. m : y \in 1 .. m + short
          OBVIOUS
        <4> QED
          BY <4>1, <4>2
      <3> QED
        BY <2>1, <2>2, <3>1, <3>2
    <2>3. ASSUME NEW y \in 1 .. m + short
          PROVE  InFree(<<d, y>>)' \/ InCurrent(<<d, y>>)' \/ InHeld(<<d, y>>)'
      <3>1. PICK x \in Image : x = <<d, y>>
        <4>1. y \in Nat
          OBVIOUS
        <4> QED
          BY <4>1 DEF Image
      <3>2. x[1] = d /\ x[2] = y
        BY <3>1
      <3>3. CASE y \in 1 .. m
        BY <1>1, <1>9, <1>10, <2>1, <3>1, <3>3 DEF IInv, ImagesMade
      <3>4. CASE y \in m + 1 .. m + short
        BY <1>12, <2>1, <3>1, <3>2, <3>4
      <3> QED
        BY <3>3, <3>4
    <2>4. pc' # "redecode"
      BY <1>3, <1>19 DEF PcKept, Quiet
    <2> QED
      BY <1>1, <1>9, <1>14, <2>2, <2>3, <2>4 DEF ImagesMade
  <1> QED
    BY <1>20, <1>24, <1>w, <1>25, <1>27, <1>28 DEF IInv, Control

-----------------------------------------------------------------------------
(* The invariant, and what follows from it. *)

(* A stream that is not open yet has no messages, frames or images. *)
LEMMA InitOK == Init => IInv
  <1> SUFFICES ASSUME Init PROVE IInv
    OBVIOUS
  <1>1. TypeOK
    <2>1. server \in ServerSide
      BY ClientStreamAssumption DEF Init, ServerSide, Format
    <2>2. 0 \in 0 .. MaxStarts /\ 0 \in Format /\ 0 \in 0 .. MaxData
      BY ClientStreamAssumption DEF Format
    <2>3. socket \in Seq(Message) /\ free \in Seq(Image)
      BY DEF Init
    <2>4. sets \in 0 .. MaxSets
      BY <2>2 DEF Init, Format
    <2>5. wpc \in [Workers -> WorkerPlaces]
      BY DEF Init, WorkerPlaces
    <2> QED
      BY <2>1, <2>2, <2>3, <2>4, <2>5 DEF Init, TypeOK, ServerSide, Ops, WorkerPlaces
  <1>2. Len(socket) = 0 /\ Len(free) = 0 /\ made = 0
    BY DEF Init
  <1>3. \A i \in 1 .. 0 : FALSE
    OBVIOUS
  <1>4. \A k : ~OnItsWay(k)
    BY <1>2, <1>3 DEF OnItsWay
  <1>w. \A w \in Workers : wpc[w] = "off"
    BY DEF Init
  <1>5. ReplyOK /\ WorkersOK /\ ListedOK /\ CloseOK /\ WaitingOK
    BY <1>2, <1>3, <1>4, <1>w
    DEF Init, ReplyOK, WorkersOK, ListedOK, CloseOK, WaitingOK, NoWakeUpMissed, Working
  <1>6. StartOK
    BY <1>4, <1>w DEF Init, StartOK, Active, Waits, Working
  <1>7. FormatOK
    BY <1>2, <1>3 DEF Init, FormatOK
  <1>8. FramesOK
    BY DEF Init, FramesOK, NewestFrame
  <1>9. \A x : ~InFree(x) /\ ~InCurrent(x) /\ ~InHeld(x)
    BY <1>2, <1>3 DEF Init, InFree, InCurrent, InHeld
  <1>10. ImagesApart
    BY <1>2, <1>3, <1>9 DEF Init, ImagesApart
  <1>11. ImagesMade
    BY <1>2, <1>3, <1>9 DEF ImagesMade
  <1> QED
    BY <1>1, <1>5, <1>6, <1>7, <1>8, <1>10, <1>11 DEF IInv

(* Every step keeps the invariant. *)
LEMMA NextOK == IInv /\ [Next]_vars => IInv'
  <1> SUFFICES ASSUME IInv, [Next]_vars PROVE IInv'
    OBVIOUS
  <1>1. CASE AppStep
    <2>1. CASE OpenDone \/ AttachDone \/ InfoDone \/ SetDone \/ PauseDone \/ UnpauseDone
      BY <2>1, AnsweredKeeps
    <2>2. CASE CloseDone
      BY <2>2, CloseDoneKeeps
    <2>3. CASE Redecode
      BY <2>3, RedecodeKeeps
    <2>4. CASE Woken \/ FallAsleep
      BY <2>4, WaitOrTakeKeeps
    <2>5. CASE Synced
      BY <2>5, SyncKeeps
    <2> QED
      BY <1>1, <2>1, <2>2, <2>3, <2>4, <2>5 DEF AppStep
  <1>2. CASE AppCall
    <2>1. CASE New \/ Pause \/ Close \/ Set
      BY <2>1, CallKeeps
    <2>2. CASE Unpause
      BY <2>2, UnpauseKeeps
    <2>3. CASE Sync
      BY <2>3, SyncKeeps
    <2>4. CASE \E wait \in BOOLEAN : GetFrame(wait)
      BY <2>4, WaitOrTakeKeeps
    <2>5. CASE \E f \in held : ReturnFrame(f)
      BY <2>5, ReturnFrameKeeps
    <2> QED
      BY <1>2, <2>1, <2>2, <2>3, <2>4, <2>5 DEF AppCall
  <1>3. CASE Receive
    BY <1>3, ReceiveReplyKeeps, HandlerKeeps, DecodeKeeps, CrashKeeps DEF Receive
  <1>4. CASE ServerStep
    BY <1>4, ServingKeeps, ServerAloneKeeps DEF ServerStep, Alone
  <1>5. CASE \E w \in Workers : WorkerStep(w)
    <2>1. PICK w \in Workers : WorkerStep(w)
      BY <1>5
    <2>2. CASE SendData(w) \/ Orphan(w)
      BY <2>2, WorkerSendsKeeps
    <2>3. CASE \/ WorkerEnds(w) \/ NoFrame(w) \/ Recheck(w) \/ PauseIt(w)
               \/ Detach(w) \/ Clear(w)
      BY <2>3, ServerAloneKeeps DEF Alone
    <2> QED
      BY <2>1, <2>2, <2>3 DEF WorkerStep
  <1>6. CASE SourceCloses
    BY <1>6, ServerAloneKeeps DEF Alone
  <1>7. CASE UNCHANGED vars
    <2>1. UNCHANGED <<pc, op, held, known, state, orphaned, current, format, newData, listLock,
                      decoder, decFormat, free, made, dangling, receiving, answer, socket,
                      server, wpc, starts, sets, sent, done, fault>>
      BY <1>7 DEF vars
    <2>2. TypeOK'
      BY <2>1 DEF IInv, TypeOK
    <2>3. Control'
      BY <2>1, ControlKept DEF PcKept
    <2>4. FramesOK' /\ ImagesApart' /\ ImagesMade'
      BY <2>1, FramesKept, ImagesKept DEF IInv
    <2>5. WaitingOK'
      BY <2>1 DEF IInv, WaitingOK, NoWakeUpMissed
    <2> QED
      BY <2>2, <2>3, <2>4, <2>5 DEF IInv, Control
  <1> QED
    BY <1>1, <1>2, <1>3, <1>4, <1>5, <1>6, <1>7 DEF Next

(* Replies, workers, registration, the close, the decoder, formats, sleepers, frames and
   images are as the parts of the invariant say, in every state of the two threads and the
   server, whose close waits for the last worker only. *)
THEOREM ClientStreamInvariant == Spec => []IInv
  BY InitOK, NextOK, PTL DEF Spec

(* Every variable of the client's stream keeps its type, with any number of starts,
   messages and frames. *)
THEOREM ClientStreamTypes == Spec => []TypeOK
  <1>1. IInv => TypeOK
    BY DEF IInv
  <1> QED
    BY <1>1, ClientStreamInvariant, PTL

(* SVR_Stream_getFrame: the frame that is offered is the last one completed, and newer than
   all that the application holds. *)
THEOREM OffersNewest == Spec => []NewestFrame
  <1>1. IInv => NewestFrame
    BY DEF IInv, FramesOK
  <1> QED
    BY <1>1, ClientStreamInvariant, PTL

(* SVR_Stream_provideData finds a decoder, and SVR_Stream_unpause destroys none in use, as
   long as the stream was started no more than once. *)
THEOREM StartedOnceNoFault == Spec => []NoFault
  <1>1. IInv => NoFault
    BY DEF IInv, StartOK, NoFault
  <1> QED
    BY <1>1, ClientStreamInvariant, PTL

(* Of a stream that was started no more than once, no message comes before it is in the
   dictionary or after it left, so the handlers that return with stream_list_lock held
   never do.  Nothing is said of a second start: its worker alone is joined. *)
THEOREM HandlersFindStream == Spec => []ListUnlocked
  <1>1. IInv => ListUnlocked
    BY DEF IInv, ListedOK, ListUnlocked
  <1> QED
    BY <1>1, ClientStreamInvariant, PTL

(* SVR_Stream_getFrame and SVR_Stream_sync: who sleeps has nothing to take, whatever the
   receive thread does between the test and the wait. *)
THEOREM NoSleepPastNews == Spec => []NoWakeUpMissed
  <1>1. IInv => NoWakeUpMissed
    BY DEF IInv, WaitingOK
  <1> QED
    BY <1>1, ClientStreamInvariant, PTL

(* While a stream that was started once runs, its decoder has the format of the data. *)
THEOREM DecodesItsFormat == Spec => []DataInFormat
  <1>1. IInv => DataInFormat
    BY DEF IInv, FormatOK, DataInFormat
  <1> QED
    BY <1>1, ClientStreamInvariant, PTL

(* Each image of the decoder is free, current or with the application: in one entry of one
   of these, whichever messages, takes, returns and restarts came before. *)
THEOREM ImagesOnce == Spec => []ImageOnce
  <1>1. ASSUME IInv PROVE ImageOnce
    <2> SUFFICES ASSUME decoder # 0, ~dangling, NEW n \in 1 .. made
                 PROVE  Cardinality(Places(<<decoder, n>>)) = 1
      BY DEF ImageOnce
    <2>1. PICK x : x = <<decoder, n>>
      OBVIOUS
    <2>2. x \in Image
      BY <1>1, <2>1 DEF IInv, TypeOK, Image
    <2>3. InFree(x) \/ InCurrent(x) \/ InHeld(x)
      BY <1>1, <2>1 DEF IInv, ImagesMade
    <2>4. /\ ~(InFree(x) /\ InCurrent(x)) /\ ~(InFree(x) /\ InHeld(x))
          /\ ~(InCurrent(x) /\ InHeld(x))
          /\ \A i, j \in 1 .. Len(free) : i # j => free[i] # free[j]
          /\ \A f, g \in held : f # g => f.image # g.image
      BY <1>1, <2>2 DEF IInv, ImagesApart
    <2>5. \E p : Places(x) = {p}
      <3>1. CASE InFree(x)
        <4>1. PICK k \in 1 .. Len(free) : free[k] = x
          BY <3>1 DEF InFree
        <4>2. {j \in 1 .. Len(free) : free[j] = x} = {k}
          BY <2>4, <4>1
        <4>3. {j \in {current} : j # NULL /\ j.image = x} = {}
          BY <2>4, <3>1 DEF InCurrent
        <4>4. {f \in held : f.image = x} = {}
          BY <2>4, <3>1 DEF InHeld
        <4>5. Places(x) = {<<"free", k>>}
          BY <4>2, <4>3, <4>4 DEF Places
        <4> QED
          BY <4>5
      <3>2. CASE InCurrent(x)
        <4>1. {j \in 1 .. Len(free) : free[j] = x} = {}
          BY <2>4, <3>2 DEF InFree
        <4>2. {j \in {current} : j # NULL /\ j.image = x} = {current}
          BY <3>2 DEF InCurrent
        <4>3. {f \in held : f.image = x} = {}
          BY <2>4, <3>2 DEF InHeld
        <4>4. Places(x) = {<<"current", 0>>}
          BY <4>1, <4>2, <4>3 DEF Places
        <4> QED
          BY <4>4
      <3>3. CASE InHeld(x)
        <4>1. PICK f \in held : f.image = x
          BY <3>3 DEF InHeld
        <4>2. {g \in held : g.image = x} = {f}
          BY <2>4, <4>1
        <4>3. {j \in 1 .. Len(free) : free[j] = x} = {}
          BY <2>4, <3>3 DEF InFree
        <4>4. {j \in {current} : j # NULL /\ j.image = x} = {}
          BY <2>4, <3>3 DEF InCurrent
        <4>5. Places(x) = {<<"held", f.frame>>}
          BY <4>2, <4>3, <4>4 DEF Places
        <4> QED
          BY <4>5
      <3> QED
        BY <2>3, <3>1, <3>2, <3>3
    <2> QED
      BY <2>1, <2>5, FS_Singleton
  <1> QED
    BY <1>1, ClientStreamInvariant, PTL
=============================================================================
