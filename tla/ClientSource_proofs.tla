------------------------- MODULE ClientSource_proofs -------------------------
(***************************************************************************)
(* Proofs about ClientSource, for frames, jpegs and payloads of any size,  *)
(* when the first frame sent fits: both ends agree on the encoding, and    *)
(* the frames come out as they went in.                                    *)
(***************************************************************************)
EXTENDS ClientSource, Integers, SequenceTheorems, TLAPS

(* The messages on their way are Data, but for the request the client waits for. *)
DataCount == IF pc = "waiting" /\ reply = NULL THEN Len(wire) - 1 ELSE Len(wire)

WireOK ==
  /\ \A i \in 1 .. DataCount : wire[i].kind = "data"
  /\ pc = "waiting" /\ reply = NULL => /\ wire # << >> /\ wire[Len(wire)] = request
  /\ reply # NULL => pc = "waiting" /\ wire = << >> /\ data = << >>
  /\ reply = "NAMECLASH" => request.kind = "open"
  /\ reply = "INVALIDSTATE" => request.kind \in {"setEncoding", "setFrameProperties"} /\ Started

(* The frame that is being sent. *)
PendingOK ==
  /\ pc = "draining" <=> buffered # << >>
  /\ pc = "ready" => /\ pending # NULL
                     /\ encoder = NULL => frame_properties = pending
  /\ pc \notin {"ready", "waiting"} => pending = NULL
  /\ pending # NULL => Len(sent) < MaxFrames /\ encoding # NULL
  /\ pc = "waiting" /\ pending # NULL =>
       request = [kind |-> "setFrameProperties", arg |-> pending] /\ frame_properties = NULL
  /\ pc = "ready" => frame_properties # NULL

(* What a request that was accepted has changed at the server only, so far. *)
Settled(kind) == ~(pc = "waiting" /\ request.kind = kind /\ reply = "SUCCESS")

(* Both ends have the same encoding and properties, but for what is being settled. *)
AgreeOK ==
  /\ pc = "new" \/ (pc = "waiting" /\ request.kind = "open") =>
       encoding = NULL /\ sProperties = NULL /\ frame_properties = NULL
  /\ encoding = NULL => \/ pc \in {"new", "gone"}
                        \/ pc = "waiting" /\ request.kind \in {"open", "setEncoding"}
  /\ encoding = NULL => encoder = NULL
  /\ encoding # NULL /\ Settled("setEncoding") => encoding = sEncoding
  /\ Settled("setFrameProperties") => frame_properties = sProperties
  /\ ~Settled("setEncoding") => sEncoding = request.arg
  /\ ~Settled("setFrameProperties") => sProperties = request.arg

(* The encoder has what is agreed, and so has the decoder once there is data for it. *)
CodingOK ==
  /\ encoder # NULL => /\ encoder = [encoding |-> encoding, props |-> frame_properties]
                       /\ frame_properties # NULL
                       /\ Settled("setEncoding") /\ Settled("setFrameProperties")
  /\ decoder # NULL => decoder = encoder
  /\ encoder # NULL /\ decoder = NULL => pc = "draining" \/ DataCount > 0
  /\ DataCount > 0 \/ pc = "draining" \/ sent # << >> => encoder # NULL
  /\ data # << >> => decoder # NULL

(* The frames sent. *)
SentOK ==
  /\ Len(sent) <= MaxFrames
  /\ \A k \in 1 .. Len(sent) :
       /\ sent[k].coding = encoder
       /\ encoder.encoding = "raw" => sent[k].size = encoder.props
       /\ encoder.encoding = "jpeg" => sent[k].size > LengthBytes

(* Of frames s, encoded as e: a piece of one of them, with the length before a jpeg whole
   or not at all. *)
Piece(c, s, e) ==
  /\ c # << >> /\ c[1][1] \in 1 .. Len(s) /\ c[1][2] \in Nat \ {0}
  /\ \A i \in 1 .. Len(c) : c[i] = <<c[1][1], c[1][2] + i - 1>>
  /\ c[1][2] + Len(c) - 1 <= s[c[1][1]].size
  /\ e.encoding = "jpeg" => (c[1][2] = 1 /\ Len(c) >= LengthBytes) \/ c[1][2] > LengthBytes

(* The byte after a piece. *)
After(c, s) == IF c[1][2] + Len(c) - 1 = s[c[1][1]].size
                 THEN <<c[1][1] + 1, 1>> ELSE <<c[1][1], c[1][2] + Len(c)>>

(* The byte that the decoder expects, and the one after the message it is at. *)
Expected  == <<Len(decoded) + 1,
               1 + Len(image) + IF bytes_needed > 0 THEN LengthBytes ELSE 0>>
Unhandled == IF data = << >> THEN Expected ELSE After(data, sent)
EndOfWire == IF DataCount = 0 THEN Unhandled ELSE After(wire[DataCount].payload, sent)

(* The bytes on their way, from the decoder back to the encoder, follow one another. *)
FlowOK ==
  /\ data # << >> => Piece(data, sent, encoder) /\ data[1] = Expected
  /\ \A i \in 1 .. DataCount : Piece(wire[i].payload, sent, encoder)
  /\ DataCount > 0 => wire[1].payload[1] = Unhandled
  /\ \A i \in 1 .. DataCount - 1 : wire[i + 1].payload[1] = After(wire[i].payload, sent)
  /\ buffered = << >> => EndOfWire = <<Len(sent) + 1, 1>>
  /\ buffered # << >> => /\ Piece(buffered, sent, encoder) /\ buffered[1] = EndOfWire
                         /\ After(buffered, sent) = <<Len(sent) + 1, 1>>

(* What comes before the image itself. *)
Skip == IF encoder.encoding = "jpeg" THEN LengthBytes ELSE 0

(* The frame that is being received, and those that were. *)
DecoderOK ==
  /\ decoder = NULL => decoded = << >> /\ image = << >> /\ bytes_needed = 0
  /\ bytes_needed > 0 => /\ decoder # NULL /\ decoder.encoding = "jpeg"
                         /\ Len(decoded) < Len(sent)
                         /\ bytes_needed = sent[Len(decoded) + 1].size - LengthBytes
                         /\ bytes_received = Len(image) /\ bytes_received < bytes_needed
                         /\ bytes_needed <= buffer_size
  /\ image # << >> => /\ bytes_needed > 0 \/ decoder.encoding = "raw"
                      /\ Len(decoded) < Len(sent)
                      /\ Skip + Len(image) < sent[Len(decoded) + 1].size
  /\ \A i \in 1 .. Len(image) : image[i] = <<Len(decoded) + 1, Skip + i>>
  /\ Len(decoded) <= Len(sent) /\ FramesInOrder /\ NoOverrun

IInv == /\ TypeOK /\ WireOK /\ PendingOK /\ AgreeOK /\ CodingOK /\ SentOK /\ FlowOK /\ DecoderOK

-----------------------------------------------------------------------------
USE DEF client, jpeg, server

Frames == Seq([coding : Coding, size : Nat])

(* Pieces. *)

(* The numbers of a piece: its frame, its first byte, its length and the frame's size. *)
LEMMA PieceNumbers ==
  ASSUME NEW c \in Seq(Byte), NEW s \in Frames, NEW e, Piece(c, s, e)
  PROVE  /\ c[1][1] \in Nat \ {0} /\ c[1][1] \in 1 .. Len(s) /\ Len(s) \in Nat
         /\ c[1][2] \in Nat \ {0} /\ Len(c) \in Nat \ {0}
         /\ s[c[1][1]].size \in Nat
         /\ c[1] = <<c[1][1], c[1][2]>>
         /\ 1 \in 1 .. Len(c)
  <1>1. c # << >> /\ c[1][1] \in 1 .. Len(s) /\ c[1][2] \in Nat \ {0}
    BY DEF Piece
  <1>2. Len(c) \in Nat \ {0} /\ Len(s) \in Nat
    BY <1>1, EmptySeq, LenProperties DEF Frames
  <1>3. c[1] \in Byte
    BY <1>2, ElementOfSeq
  <1>4. s[c[1][1]] \in [coding : Coding, size : Nat]
    BY <1>1, ElementOfSeq DEF Frames
  <1>5. c[1] = <<c[1][1], c[1][2]>>
    BY <1>3 DEF Byte
  <1> QED
    BY <1>1, <1>2, <1>4, <1>5

(* What a piece gives that is cut after m bytes: one or two pieces. *)
CutsInTwo(c, m, s, e) ==
  LET a == SubSeq(c, 1, m)
      b == SubSeq(c, m + 1, Len(c))
  IN  /\ a \in Seq(Byte) /\ b \in Seq(Byte) /\ a # << >> /\ a[1] = c[1] /\ Piece(a, s, e)
      /\ m = Len(c) => a = c /\ b = << >>
      /\ m # Len(c) => /\ b # << >> /\ b[1] = <<c[1][1], c[1][2] + m>> /\ Piece(b, s, e)
                       /\ b[1] = After(a, s) /\ After(b, s) = After(c, s)

(* A piece is cut in two, of which the first holds a length if there is one. *)
LEMMA SplitPiece ==
  ASSUME NEW c \in Seq(Byte), NEW s \in Frames, NEW e, Piece(c, s, e), NEW m \in 1 .. Len(c),
         e.encoding = "jpeg" /\ c[1][2] = 1 => m >= LengthBytes
  PROVE  CutsInTwo(c, m, s, e)
  <1>1. PICK k \in Nat \ {0} : k = c[1][1]
    BY PieceNumbers
  <1>2. PICK o \in Nat \ {0} : o = c[1][2]
    BY PieceNumbers
  <1>3. PICK l \in Nat \ {0} : l = Len(c)
    BY PieceNumbers
  <1>4. PICK z \in Nat : z = s[k].size
    BY <1>1, PieceNumbers
  <1>5. /\ k \in 1 .. Len(s) /\ c[1] = <<k, o>> /\ o + l - 1 <= z
        /\ \A i \in 1 .. l : c[i] = <<k, o + i - 1>>
        /\ e.encoding = "jpeg" => (o = 1 /\ l >= LengthBytes) \/ o > LengthBytes
    BY <1>1, <1>2, <1>3, <1>4, PieceNumbers DEF Piece
  <1>6. PICK a : a = SubSeq(c, 1, m)
    OBVIOUS
  <1>7. PICK b : b = SubSeq(c, m + 1, Len(c))
    OBVIOUS
  <1>7a. m \in Nat /\ m >= 1 /\ m <= l /\ LengthBytes \in Nat \ {0}
    BY <1>3, ClientSourceAssumption
  <1>8. /\ a \in Seq(Byte) /\ Len(a) = m
        /\ \A i \in 1 .. m : a[i] = c[i] /\ i \in 1 .. l
    BY <1>3, <1>6, <1>7a, SubSeqProperties
  <1>9. /\ b \in Seq(Byte) /\ Len(b) = l - m
        /\ \A i \in 1 .. l - m : b[i] = c[m + i] /\ m + i \in 1 .. l
    <2>1. PICK n \in Nat : n = m + 1
      BY <1>7a
    <2>2. \A i \in n .. l : c[i] \in Byte
      BY <1>3, <1>7a, <2>1, ElementOfSeq
    <2>3. /\ b \in Seq(Byte) /\ Len(b) = IF n <= l THEN l - n + 1 ELSE 0
          /\ \A i \in 1 .. l - n + 1 : b[i] = c[n + i - 1]
      BY <1>3, <1>7, <2>1, <2>2, SubSeqProperties
    <2>4. l - n + 1 = l - m /\ (~(n <= l) => l - m = 0)
      BY <1>7a, <2>1
    <2>5. \A i \in 1 .. l - m : n + i - 1 = m + i /\ m + i \in 1 .. l
      BY <1>7a, <2>1
    <2> QED
      BY <2>3, <2>4, <2>5
  <1>10. a # << >> /\ a[1] = <<k, o>> /\ a[1][1] = k /\ a[1][2] = o /\ 1 \in 1 .. m
    <2>1. 1 \in 1 .. m
      BY <1>7a
    <2>2. a # << >>
      BY <1>8, <1>7a, EmptySeq
    <2>3. a[1] = <<k, o>>
      BY <1>5, <1>8, <2>1
    <2> QED
      BY <2>1, <2>2, <2>3
  <1>11. Piece(a, s, e)
    <2>1. \A i \in 1 .. m : a[i] = <<k, o + i - 1>>
      BY <1>5, <1>8
    <2>2. o + m - 1 <= z
      BY <1>5, <1>7a
    <2>3. e.encoding = "jpeg" => (o = 1 /\ m >= LengthBytes) \/ o > LengthBytes
      BY <1>2, <1>5, <1>7a
    <2> QED
      BY <1>4, <1>5, <1>8, <1>10, <2>1, <2>2, <2>3 DEF Piece
  <1>12. ASSUME m = l PROVE a = c /\ b = << >>
    <2>1. Len(b) = 0
      BY <1>9, <1>12, <1>7a
    <2>2. a = c
      BY <1>3, <1>8, <1>12, SeqEqual
    <2> QED
      BY <1>9, <2>1, <2>2, EmptySeq
  <1>13. ASSUME m # l
         PROVE  /\ b # << >> /\ b[1] = <<k, o + m>> /\ Piece(b, s, e)
                /\ b[1] = After(a, s) /\ After(b, s) = After(c, s)
    <2>1. 1 \in 1 .. l - m /\ l - m \in Nat \ {0}
      BY <1>7a, <1>13
    <2>2. b # << >>
      BY <1>9, <2>1, EmptySeq
    <2>3. \A i \in 1 .. l - m : b[i] = <<k, o + m + i - 1>>
      <3>1. \A i \in 1 .. l - m : o + (m + i) - 1 = o + m + i - 1
        BY <1>7a
      <3> QED
        BY <1>5, <1>9, <3>1
    <2>4. b[1] = <<k, o + m>>
      BY <1>7a, <2>1, <2>3
    <2>5. b[1][1] = k /\ b[1][2] = o + m
      BY <2>4
    <2>6. Piece(b, s, e)
      <3>1. o + m + (l - m) - 1 <= z /\ o + m \in Nat \ {0}
        BY <1>5, <1>7a
      <3>2. e.encoding = "jpeg" => o + m > LengthBytes
        BY <1>2, <1>5, <1>7a
      <3> QED
        BY <1>4, <1>5, <1>9, <2>2, <2>3, <2>5, <3>1, <3>2 DEF Piece
    <2>7. After(a, s) = <<k, o + m>>
      <3>1. o + m - 1 # z
        BY <1>5, <1>7a, <1>13
      <3> QED
        BY <1>4, <1>8, <1>10, <3>1 DEF After
    <2>8. After(b, s) = After(c, s)
      <3>1. o + m + (l - m) - 1 = o + l - 1 /\ o + m + (l - m) = o + l
        BY <1>7a
      <3> QED
        BY <1>1, <1>2, <1>3, <1>9, <2>5, <3>1 DEF After
    <2> QED
      BY <2>2, <2>4, <2>6, <2>7, <2>8
  <1> QED
    BY <1>1, <1>2, <1>3, <1>5, <1>6, <1>7, <1>8, <1>9, <1>10, <1>11, <1>12, <1>13 DEF CutsInTwo

(* A piece stays one when another frame is sent. *)
LEMMA PieceStays ==
  ASSUME NEW s \in Frames, NEW f \in [coding : Coding, size : Nat], NEW e, NEW c \in Seq(Byte),
         Piece(c, s, e)
  PROVE  Piece(c, Append(s, f), e) /\ After(c, Append(s, f)) = After(c, s)
  <1>1. PICK n \in Nat : n = Len(s)
    BY LenProperties DEF Frames
  <1>2. PICK t : t = Append(s, f)
    OBVIOUS
  <1>3. Len(t) = n + 1 /\ \A i \in 1 .. n : t[i] = s[i] /\ i \in 1 .. n + 1
    BY <1>1, <1>2, AppendProperties DEF Frames
  <1>4. c[1][1] \in 1 .. n
    BY <1>1 DEF Piece
  <1>5. t[c[1][1]] = s[c[1][1]] /\ c[1][1] \in 1 .. Len(t)
    BY <1>3, <1>4
  <1>6. Piece(c, t, e)
    BY <1>5 DEF Piece
  <1>7. After(c, t) = After(c, s)
    BY <1>5 DEF After
  <1> QED
    BY <1>2, <1>6, <1>7

-----------------------------------------------------------------------------
(* Steps that leave the bytes on their way alone. *)

(* The Data messages are as many as there are, and their number is one. *)
LEMMA Counted ==
  ASSUME TypeOK, WireOK
  PROVE  /\ DataCount \in Nat /\ Len(wire) \in Nat
         /\ DataCount = Len(wire) - 1 \/ DataCount = Len(wire)
         /\ \A i \in 1 .. DataCount : /\ i \in 1 .. Len(wire)
                                      /\ wire[i] \in [kind : {"data"}, payload : Seq(Byte)]
                                      /\ wire[i].payload \in Seq(Byte)
  <1>1. wire \in Seq(Message)
    BY DEF TypeOK
  <1>2. PICK n \in Nat : n = Len(wire)
    BY <1>1, LenProperties
  <1>3. wire # << >> => n # 0
    BY <1>1, <1>2, EmptySeq
  <1>4. DataCount \in Nat /\ (DataCount = n - 1 \/ DataCount = n)
    BY <1>2, <1>3 DEF WireOK, DataCount
  <1>5. ASSUME NEW i \in 1 .. DataCount
        PROVE  /\ i \in 1 .. n
               /\ wire[i] \in [kind : {"data"}, payload : Seq(Byte)]
               /\ wire[i].payload \in Seq(Byte)
    <2>1. i \in 1 .. n
      BY <1>4
    <2>2. wire[i] \in Message /\ wire[i].kind = "data"
      BY <1>1, <1>2, <2>1, ElementOfSeq DEF WireOK
    <2>3. wire[i] \in [kind : {"data"}, payload : Seq(Byte)]
      BY <2>2 DEF Message, Request
    <2> QED
      BY <2>1, <2>3
  <1> QED
    BY <1>2, <1>4, <1>5

(* The same bytes are on their way. *)
LEMMA FlowKept ==
  ASSUME TypeOK, WireOK, FlowOK,
         UNCHANGED <<data, buffered, sent, encoder, decoded, image, bytes_needed>>,
         DataCount' = DataCount, \A i \in 1 .. DataCount : wire'[i] = wire[i]
  PROVE  FlowOK'
  <1>1. PICK n \in Nat : n = DataCount
    BY Counted
  <1>2. /\ \A i \in 1 .. n - 1 : i \in 1 .. n /\ i + 1 \in 1 .. n
        /\ n > 0 => 1 \in 1 .. n /\ n \in 1 .. n
        /\ n # 0 => n \in 1 .. n
    OBVIOUS
  <1>3. Unhandled' = Unhandled
    BY DEF Unhandled, Expected
  <1>4. EndOfWire' = EndOfWire
    BY <1>1, <1>2, <1>3 DEF EndOfWire
  <1> QED
    BY <1>1, <1>2, <1>3, <1>4 DEF FlowOK, Expected

(* The same frames were sent and received. *)
LEMMA DecoderKept ==
  ASSUME SentOK, DecoderOK,
         UNCHANGED <<sent, encoder, decoder, decoded, image, jpeg, fault>>
  PROVE  SentOK' /\ DecoderOK'
  <1>1. SentOK'
    BY DEF SentOK
  <1>2. Skip' = Skip /\ FramesInOrder' = FramesInOrder /\ NoOverrun' = NoOverrun
    BY DEF Skip, FramesInOrder, Body, NoOverrun
  <1>3. DecoderOK'
    BY <1>2 DEF DecoderOK
  <1> QED
    BY <1>1, <1>3

-----------------------------------------------------------------------------
(* Requests of the client. *)

(* A request is made, by an application that waits for none. *)
LEMMA AskKeeps ==
  ASSUME IInv, NEW r \in Request, Ask(r), reply = NULL,
         \/ pc = "new" /\ r.kind = "open"
         \/ pc = "idle" /\ r.kind # "open",
         \/ pending' = NULL
         \/ /\ pending' \in Props /\ r = [kind |-> "setFrameProperties", arg |-> pending']
            /\ frame_properties = NULL /\ Len(sent) < MaxFrames /\ pc = "idle",
         UNCHANGED <<encoding, frame_properties, encoder, buffered, sent>>,
         sets' \in 0 .. MaxSets
  PROVE  IInv'
  <1>1. /\ request' = r /\ pc' = "waiting" /\ wire' = Append(wire, r)
        /\ UNCHANGED <<reply, open, sEncoding, sProperties, decoder, data, bytes_needed,
                       bytes_received, buffer_size, image, fault, decoded>>
    BY DEF Ask
  <1>2. wire \in Seq(Message) /\ r \in Message
    BY DEF IInv, TypeOK, Message
  <1>3. PICK n \in Nat : n = Len(wire)
    BY <1>2, LenProperties
  <1>4. /\ wire' \in Seq(Message) /\ Len(wire') = n + 1 /\ wire'[n + 1] = r
        /\ \A i \in 1 .. n : wire'[i] = wire[i]
    BY <1>1, <1>2, <1>3, AppendProperties
  <1>5. DataCount = n /\ DataCount' = n
    BY <1>1, <1>3, <1>4 DEF DataCount
  <1>6. TypeOK'
    BY <1>1, <1>4 DEF IInv, TypeOK
  <1>7. WireOK'
    <2>1. wire' # << >>
      BY <1>4, EmptySeq
    <2>2. \A i \in 1 .. n : wire'[i].kind = "data"
      BY <1>4, <1>5 DEF IInv, WireOK
    <2>3. reply' = NULL /\ NULL \notin ReturnCode
      BY <1>1, ClientSourceAssumption
    <2> QED
      BY <1>1, <1>4, <1>5, <2>1, <2>2, <2>3 DEF WireOK, ReturnCode
  <1>8. PendingOK'
    <2>1. buffered = << >> /\ (pending' # NULL => encoding # NULL)
      BY DEF IInv, PendingOK, AgreeOK
    <2> QED
      BY <1>1, <2>1, ClientSourceAssumption DEF PendingOK
  <1>9. /\ Settled("setEncoding") /\ Settled("setFrameProperties")
        /\ Settled("setEncoding")' /\ Settled("setFrameProperties")'
    BY <1>1, ClientSourceAssumption DEF Settled, ReturnCode
  <1>10. AgreeOK'
    BY <1>1, <1>9 DEF IInv, AgreeOK
  <1>11. CodingOK'
    BY <1>1, <1>5, <1>9 DEF IInv, CodingOK
  <1>12. FlowOK'
    BY <1>1, <1>4, <1>5, FlowKept DEF IInv
  <1>13. SentOK' /\ DecoderOK'
    BY <1>1, DecoderKept DEF IInv
  <1> QED
    BY <1>6, <1>7, <1>8, <1>10, <1>11, <1>12, <1>13 DEF IInv

(* New, SetEncoding, SetFrameProperties, Destroy. *)
LEMMA CallKeeps ==
  ASSUME IInv, \/ New \/ Destroy \/ \E e \in Encoding : SetEncoding(e)
               \/ \E p \in Props : SetFrameProperties(p)
  PROVE  IInv'
  <1>1. PICK r \in Request :
          /\ Ask(r)
          /\ (pc = "new" /\ r.kind = "open") \/ (pc = "idle" /\ r.kind # "open")
          /\ sets' \in {sets, sets + 1} /\ (sets' = sets \/ sets < MaxSets)
          /\ UNCHANGED <<encoding, frame_properties, encoder, pending, buffered, sent>>
    <2>1. CASE New
      BY <2>1 DEF New, Request
    <2>2. CASE Destroy
      BY <2>2 DEF Destroy, Request
    <2>3. CASE \E e \in Encoding : SetEncoding(e)
      <3>1. PICK e \in Encoding : SetEncoding(e)
        BY <2>3
      <3>2. PICK r : r = [kind |-> "setEncoding", arg |-> e]
        OBVIOUS
      <3>3. r \in Request /\ r.kind # "open"
        BY <3>2 DEF Request
      <3> QED
        BY <3>1, <3>2, <3>3 DEF SetEncoding
    <2>4. CASE \E p \in Props : SetFrameProperties(p)
      <3>1. PICK p \in Props : SetFrameProperties(p)
        BY <2>4
      <3>2. PICK r : r = [kind |-> "setFrameProperties", arg |-> p]
        OBVIOUS
      <3>3. r \in Request /\ r.kind # "open"
        BY <3>2 DEF Request
      <3> QED
        BY <3>1, <3>2, <3>3 DEF SetFrameProperties
    <2> QED
      BY <2>1, <2>2, <2>3, <2>4
  <1>2. reply = NULL /\ pending = NULL
    BY <1>1 DEF IInv, WireOK, PendingOK
  <1>3. sets' \in 0 .. MaxSets
    BY <1>1, ClientSourceAssumption DEF IInv, TypeOK
  <1> QED
    BY <1>1, <1>2, <1>3, AskKeeps

(* SVR_Source_sendFrame asks for the properties, or goes on to encode the frame. *)
LEMMA SendFrameKeeps ==
  ASSUME IInv, ~EarlyMisfit, NEW p \in Props, SendFrame(p)
  PROVE  IInv'
  <1>1. /\ pc = "idle" /\ encoding # NULL /\ Len(sent) < MaxFrames /\ pending' = p
        /\ encoder # NULL \/ frame_properties \in {NULL, p}
        /\ UNCHANGED <<encoding, frame_properties, encoder, buffered, sent, sets>>
    BY DEF SendFrame
  <1>2. reply = NULL /\ p # NULL /\ buffered = << >>
    BY <1>1, ClientSourceAssumption DEF IInv, WireOK, PendingOK
  <1>3. CASE frame_properties = NULL
    <2>1. PICK r : r = [kind |-> "setFrameProperties", arg |-> p]
      OBVIOUS
    <2>2. r \in Request /\ r.kind # "open" /\ Ask(r)
      BY <1>3, <2>1 DEF Request, SendFrame
    <2>3. sets' \in 0 .. MaxSets
      BY <1>1 DEF IInv, TypeOK
    <2> QED
      BY <1>1, <1>2, <1>3, <2>1, <2>2, <2>3, AskKeeps
  <1>4. CASE frame_properties # NULL
    <2>1. /\ pc' = "ready"
          /\ UNCHANGED <<request, wire, reply, open, sEncoding, sProperties, decoder, data,
                         bytes_needed, bytes_received, buffer_size, image, fault, decoded>>
      BY <1>4 DEF SendFrame
    <2>2. DataCount' = DataCount
      BY <1>1, <1>2, <2>1 DEF DataCount
    <2>3. TypeOK'
      BY <1>1, <2>1 DEF IInv, TypeOK
    <2>4. WireOK'
      BY <1>1, <1>2, <2>1, <2>2 DEF IInv, WireOK, Started
    <2>5. PendingOK'
      BY <1>1, <1>2, <1>4, <2>1 DEF PendingOK
    <2>6. \A k : Settled(k)' /\ Settled(k)
      BY <1>1, <2>1 DEF Settled
    <2>7. AgreeOK'
      BY <1>1, <2>1, <2>6 DEF IInv, AgreeOK
    <2>8. CodingOK'
      BY <1>1, <2>1, <2>2, <2>6 DEF IInv, CodingOK
    <2>9. FlowOK'
      BY <1>1, <2>1, <2>2, FlowKept DEF IInv
    <2>10. SentOK' /\ DecoderOK'
      BY <1>1, <2>1, DecoderKept DEF IInv
    <2> QED
      BY <2>3, <2>4, <2>5, <2>7, <2>8, <2>9, <2>10 DEF IInv
  <1> QED
    BY <1>3, <1>4

(* What the client knows when a reply has come: it is the only thing on its way. *)
LEMMA ReplyHere ==
  ASSUME IInv, NEW kind, Answered(kind)
  PROVE  /\ pc = "waiting" /\ reply # NULL /\ reply \in ReturnCode /\ request.kind = kind
         /\ reply' = NULL /\ wire = << >> /\ data = << >> /\ Len(wire) = 0 /\ DataCount = 0
         /\ buffered = << >>
         /\ reply = "INVALIDSTATE" => decoder # NULL
         /\ encoder # NULL => decoder = encoder
         /\ UNCHANGED <<encoder, buffered, sent, sets, open, sEncoding, sProperties, decoder, data,
                        bytes_needed, bytes_received, buffer_size, image, fault, decoded>>
  <1>1. /\ pc = "waiting" /\ reply # NULL /\ request.kind = kind /\ reply' = NULL
        /\ UNCHANGED <<encoder, buffered, sent, sets, open, sEncoding, sProperties, decoder, data,
                       bytes_needed, bytes_received, buffer_size, image, fault, decoded>>
    BY DEF Answered
  <1>2. reply \in ReturnCode
    BY <1>1 DEF IInv, TypeOK
  <1>3. wire = << >> /\ data = << >> /\ (reply = "INVALIDSTATE" => decoder # NULL)
    BY <1>1 DEF IInv, WireOK, Started
  <1>4. Len(wire) = 0
    BY <1>3
  <1>5. DataCount = 0
    BY <1>1, <1>4 DEF DataCount
  <1>6. buffered = << >>
    BY <1>1 DEF IInv, PendingOK
  <1>7. encoder # NULL => decoder = encoder
    BY <1>1, <1>5 DEF IInv, CodingOK
  <1> QED
    BY <1>1, <1>2, <1>3, <1>4, <1>5, <1>6, <1>7

(* A reply ends a request, and what it settled is the same at both ends. *)
LEMMA AnsweredKeeps ==
  ASSUME IInv, \/ SetEncodingDone \/ SetFramePropertiesDone \/ DestroyDone
               \/ (NewDone /\ reply # "SUCCESS")
  PROVE  IInv'
  <1>1. PICK kind \in {"open", "close", "setEncoding", "setFrameProperties"} : Answered(kind)
    BY DEF SetEncodingDone, SetFramePropertiesDone, DestroyDone, NewDone
  <1>2. /\ pc = "waiting" /\ reply \in ReturnCode /\ reply # NULL /\ request.kind = kind
        /\ reply' = NULL /\ wire = << >> /\ data = << >> /\ Len(wire) = 0 /\ DataCount = 0
        /\ buffered = << >>
        /\ reply = "INVALIDSTATE" => decoder # NULL
        /\ encoder # NULL => decoder = encoder
        /\ UNCHANGED <<encoder, buffered, sent, sets, open, sEncoding, sProperties, decoder, data,
                       bytes_needed, bytes_received, buffer_size, image, fault, decoded>>
    BY <1>1, ReplyHere
  <1>3. request \in Request /\ pending \in Props \cup {NULL} /\ encoding \in Encoding \cup {NULL}
        /\ frame_properties \in Props \cup {NULL}
    BY DEF IInv, TypeOK
  <1>4. /\ UNCHANGED <<request, wire>> /\ pc' \in {"idle", "ready", "gone"}
        /\ encoding' = IF kind = "setEncoding" /\ reply = "SUCCESS" THEN request.arg ELSE encoding
        /\ frame_properties' = IF kind = "setFrameProperties" /\ reply = "SUCCESS" THEN request.arg
                               ELSE frame_properties
        /\ pc' = "gone" <=> kind \in {"open", "close"}
        /\ pc' = "ready" <=> pending # NULL /\ reply = "SUCCESS" /\ kind = "setFrameProperties"
        /\ pending' = IF pc' = "ready" THEN pending ELSE NULL
    <2>1. pending # NULL => request.kind = "setFrameProperties"
      BY <1>2 DEF IInv, PendingOK
    <2>2. CASE SetEncodingDone
      BY <1>2, <2>1, <2>2 DEF SetEncodingDone, Answered
    <2>3. CASE SetFramePropertiesDone
      BY <1>2, <2>1, <2>3 DEF SetFramePropertiesDone, Answered
    <2>4. CASE DestroyDone
      BY <1>2, <2>1, <2>4 DEF DestroyDone, Answered
    <2>5. CASE NewDone /\ reply # "SUCCESS"
      BY <1>2, <2>1, <2>5 DEF NewDone, Answered
    <2> QED
      BY <2>2, <2>3, <2>4, <2>5
  <1>5. /\ kind = "setEncoding" => request.arg \in Encoding
        /\ kind = "setFrameProperties" => request.arg \in Props
    BY <1>2, <1>3 DEF Request
  <1>6. DataCount' = 0
    BY <1>2, <1>4 DEF DataCount
  <1>7. TypeOK'
    <2>1. encoding' \in Encoding \cup {NULL} /\ frame_properties' \in Props \cup {NULL}
          /\ pending' \in Props \cup {NULL}
      BY <1>3, <1>4, <1>5
    <2> QED
      BY <1>2, <1>4, <2>1 DEF IInv, TypeOK
  <1>8. WireOK'
    BY <1>2, <1>4, <1>6, ClientSourceAssumption DEF WireOK, ReturnCode
  <1>9. PendingOK'
    <2>1. pc' = "ready" => frame_properties' = pending /\ Len(sent) < MaxFrames /\ encoding # NULL
      BY <1>2, <1>4 DEF IInv, PendingOK
    <2>2. pc' = "ready" => encoding' = encoding
      BY <1>4
    <2> QED
      BY <1>2, <1>4, <2>1, <2>2 DEF PendingOK
  <1>10. \A k : Settled(k)'
    BY <1>4 DEF Settled
  <1>11. /\ kind \notin {"open"} => encoding' # NULL /\ encoding' = sEncoding
         /\ frame_properties' = sProperties
         /\ encoding = NULL => encoder = NULL
         /\ kind = "open" => encoding' = NULL
    <2>1. /\ encoding = NULL => kind \in {"open", "setEncoding"} /\ encoder = NULL
          /\ kind = "open" => encoding = NULL
      BY <1>2 DEF IInv, AgreeOK
    <2>2. ASSUME kind = "setEncoding", reply = "SUCCESS"
          PROVE  sEncoding = request.arg /\ frame_properties = sProperties
      BY <1>2, <2>2 DEF IInv, AgreeOK, Settled
    <2>3. ASSUME kind = "setFrameProperties", reply = "SUCCESS"
          PROVE  sProperties = request.arg /\ encoding = sEncoding
      BY <1>2, <2>1, <2>3 DEF IInv, AgreeOK, Settled
    <2>4. ASSUME reply # "SUCCESS" \/ kind \in {"open", "close"}
          PROVE  frame_properties = sProperties /\ (encoding # NULL => encoding = sEncoding)
      BY <1>2, <2>4 DEF IInv, AgreeOK, Settled
    <2>5. ASSUME kind = "setEncoding", reply # "SUCCESS" PROVE encoding # NULL
      <3>1. reply = "INVALIDSTATE"
        BY <1>2, <2>5 DEF IInv, WireOK, ReturnCode
      <3>2. encoder # NULL
        BY <1>2, <3>1 DEF IInv, CodingOK
      <3> QED
        BY <2>1, <3>2
    <2> QED
      BY <1>2, <1>4, <1>5, <2>1, <2>2, <2>3, <2>4, <2>5, ClientSourceAssumption
  <1>12. AgreeOK'
    BY <1>2, <1>4, <1>10, <1>11 DEF IInv, AgreeOK
  <1>13. CodingOK'
    <2>1. encoder # NULL => /\ encoding' = encoding /\ frame_properties' = frame_properties
      BY <1>2, <1>4 DEF IInv, CodingOK, Settled
    <2> QED
      BY <1>2, <1>4, <1>6, <1>10, <2>1 DEF IInv, CodingOK
  <1>14. FlowOK'
    BY <1>2, <1>4, <1>6, FlowKept DEF IInv
  <1>15. SentOK' /\ DecoderOK'
    BY <1>2, DecoderKept DEF IInv
  <1> QED
    BY <1>7, <1>8, <1>9, <1>12, <1>13, <1>14, <1>15 DEF IInv

(* SVR_Source_new goes on to set the encoding. *)
LEMMA NewDoneKeeps ==
  ASSUME IInv, NewDone, reply = "SUCCESS"
  PROVE  IInv'
  <1>1. /\ pc = "waiting" /\ request.kind = "open" /\ pending = NULL
        /\ reply' = NULL /\ wire = << >> /\ data = << >> /\ Len(wire) = 0 /\ DataCount = 0
        /\ buffered = << >>
        /\ UNCHANGED <<encoder, buffered, sent, sets, open, sEncoding, sProperties, decoder, data,
                       bytes_needed, bytes_received, buffer_size, image, fault, decoded>>
    <2>1. Answered("open")
      BY DEF NewDone
    <2>2. pc = "waiting" /\ request.kind = "open"
      BY <2>1, ReplyHere
    <2>3. pending = NULL
      BY <2>2 DEF IInv, PendingOK
    <2> QED
      BY <2>1, <2>3, ReplyHere
  <1>2. PICK r : r = [kind |-> "setEncoding", arg |-> "jpeg"]
    OBVIOUS
  <1>3. /\ request' = r /\ wire' = Append(wire, r)
        /\ UNCHANGED <<pc, encoding, frame_properties, pending>>
    BY <1>2 DEF NewDone
  <1>4. r \in Request /\ r \in Message /\ r.kind = "setEncoding" /\ r.arg = "jpeg"
    BY <1>2 DEF Request, Message, Encoding
  <1>5. wire' \in Seq(Message) /\ Len(wire') = 1 /\ wire'[1] = r
    BY <1>1, <1>3, <1>4
  <1>6. DataCount' = 0
    BY <1>1, <1>3, <1>5 DEF DataCount
  <1>7. TypeOK'
    BY <1>1, <1>3, <1>4, <1>5 DEF IInv, TypeOK
  <1>8. WireOK'
    <2>1. wire' # << >>
      BY <1>5
    <2> QED
      BY <1>1, <1>3, <1>5, <1>6, <2>1, ClientSourceAssumption DEF WireOK, ReturnCode
  <1>9. PendingOK'
    BY <1>1, <1>3 DEF IInv, PendingOK
  <1>10. \A k : Settled(k)'
    BY <1>1, ClientSourceAssumption DEF Settled, ReturnCode
  <1>11. encoding = NULL /\ sProperties = NULL /\ frame_properties = NULL /\ encoder = NULL
    BY <1>1 DEF IInv, AgreeOK
  <1>12. AgreeOK'
    BY <1>1, <1>3, <1>4, <1>10, <1>11 DEF AgreeOK
  <1>13. CodingOK'
    BY <1>1, <1>3, <1>6, <1>11 DEF IInv, CodingOK
  <1>14. FlowOK'
    BY <1>1, <1>6, FlowKept DEF IInv
  <1>15. SentOK' /\ DecoderOK'
    BY <1>1, DecoderKept DEF IInv
  <1> QED
    BY <1>7, <1>8, <1>9, <1>12, <1>13, <1>14, <1>15 DEF IInv

-----------------------------------------------------------------------------
(* Encoding. *)

(* A frame that is refused comes after one that was accepted: the encoder is there. *)
LEMMA RefuseKeeps ==
  ASSUME IInv, Refuse
  PROVE  IInv'
  <1>1. /\ pc = "ready" /\ pending # frame_properties /\ pc' = "idle" /\ pending' = NULL
        /\ UNCHANGED <<request, encoding, frame_properties, buffered, wire, reply, sent, sets,
                       open, sEncoding, sProperties, decoder, data, bytes_needed,
                       bytes_received, buffer_size, image, fault, decoded>>
    BY DEF Refuse
  <1>2. encoder # NULL /\ encoder' = encoder
    <2>1. encoder # NULL
      BY <1>1 DEF IInv, PendingOK
    <2> QED
      BY <2>1 DEF Refuse, OpenEncoder
  <1>3. reply = NULL /\ DataCount' = DataCount
    BY <1>1 DEF DataCount, IInv, WireOK
  <1>4. TypeOK'
    BY <1>1, <1>2 DEF IInv, TypeOK
  <1>5. WireOK'
    BY <1>1, <1>3 DEF IInv, WireOK, Started
  <1>6. PendingOK'
    BY <1>1, <1>2 DEF IInv, PendingOK
  <1>7. \A k : Settled(k)' /\ Settled(k)
    BY <1>1 DEF Settled
  <1>8. AgreeOK' /\ CodingOK'
    BY <1>1, <1>2, <1>3, <1>7 DEF IInv, AgreeOK, CodingOK
  <1>9. FlowOK'
    BY <1>1, <1>2, <1>3, FlowKept DEF IInv
  <1>10. SentOK' /\ DecoderOK'
    BY <1>1, <1>2, DecoderKept DEF IInv
  <1> QED
    BY <1>4, <1>5, <1>6, <1>8, <1>9, <1>10 DEF IInv

(* A frame is encoded, as a whole piece after all that was sent before. *)
LEMMA EncodeKeeps ==
  ASSUME IInv, Encode
  PROVE  IInv'
  <1>1. /\ pc = "ready" /\ pending = frame_properties /\ OpenEncoder
        /\ pc' = "draining" /\ pending' = NULL
        /\ UNCHANGED <<request, encoding, frame_properties, wire, reply, sets, open, sEncoding,
                       sProperties, decoder, data, bytes_needed, bytes_received, buffer_size,
                       image, fault, decoded>>
    BY DEF Encode
  <1>2. /\ pending \in Props /\ encoding \in Encoding /\ Len(sent) < MaxFrames
        /\ buffered = << >> /\ reply = NULL
    <2>1. pending # NULL /\ Len(sent) < MaxFrames /\ encoding # NULL /\ buffered = << >>
      BY <1>1 DEF IInv, PendingOK
    <2> QED
      BY <1>1, <2>1 DEF IInv, TypeOK, WireOK
  <1>3. encoder # NULL => encoder = [encoding |-> encoding, props |-> frame_properties]
    BY DEF IInv, CodingOK
  <1>4. PICK e : e = encoder'
    OBVIOUS
  <1>5. e \in Coding /\ e # NULL /\ e = [encoding |-> encoding, props |-> frame_properties]
        /\ (encoder # NULL => e = encoder) /\ e.props = pending /\ e.encoding \in {"jpeg", "raw"}
    <2>1. e = [encoding |-> encoding, props |-> frame_properties]
      BY <1>1, <1>3, <1>4 DEF OpenEncoder
    <2>2. e \in Coding
      BY <1>1, <1>2, <2>1 DEF Coding
    <2> QED
      BY <1>1, <1>2, <1>3, <2>1, <2>2, ClientSourceAssumption DEF Encoding
  <1>6. PICK z : /\ z \in IF e.encoding = "raw" THEN {pending} ELSE {LengthBytes + j : j \in JpegSizes}
                 /\ buffered' = buffered \o Encoded(z)
                 /\ sent' = Append(sent, [coding |-> e, size |-> z])
    BY <1>4 DEF Encode
  <1>7. /\ z \in Nat \ {0}
        /\ e.encoding = "raw" => z = e.props
        /\ e.encoding = "jpeg" => z > LengthBytes
    <2>1. CASE e.encoding = "raw"
      BY <1>2, <1>5, <1>6, <2>1, ClientSourceAssumption
    <2>2. CASE e.encoding # "raw"
      <3>1. PICK j \in JpegSizes : z = LengthBytes + j
        BY <1>6, <2>2
      <3>2. j \in Nat \ {0} /\ LengthBytes \in Nat \ {0}
        BY ClientSourceAssumption
      <3> QED
        BY <2>2, <3>1, <3>2
    <2> QED
      BY <2>1, <2>2
  <1>8. sent \in Frames
    BY DEF IInv, TypeOK, Frames
  <1>9. PICK n \in Nat : n = Len(sent)
    BY <1>8, LenProperties DEF Frames
  <1>10. PICK f \in [coding : Coding, size : Nat] : f = [coding |-> e, size |-> z]
    BY <1>5, <1>7
  <1>11. /\ sent' = Append(sent, f) /\ sent' \in Frames /\ Len(sent') = n + 1
         /\ \A k \in 1 .. n : sent'[k] = sent[k]
         /\ sent'[n + 1] = f /\ f.coding = e /\ f.size = z
    BY <1>6, <1>8, <1>9, <1>10, AppendProperties DEF Frames
  <1>12. PICK c : c = Encoded(z)
    OBVIOUS
  <1>13. /\ c \in Seq(Byte) /\ Len(c) = z /\ \A i \in 1 .. z : c[i] = <<n + 1, i>>
    <2>1. n + 1 \in 1 .. MaxFrames
      BY <1>2, <1>9, ClientSourceAssumption
    <2>2. \A i \in 1 .. z : <<n + 1, i>> \in Byte
      BY <2>1 DEF Byte
    <2>3. c = [i \in 1 .. z |-> <<n + 1, i>>]
      BY <1>9, <1>12 DEF Encoded
    <2> QED
      BY <1>7, <2>2, <2>3
  <1>14. buffered' = c
    BY <1>2, <1>6, <1>12, <1>13, ConcatEmptySeq
  <1>15. c # << >> /\ c[1] = <<n + 1, 1>> /\ c[1][1] = n + 1 /\ c[1][2] = 1
    <2>1. c # << >> /\ 1 \in 1 .. z
      BY <1>7, <1>13, EmptySeq
    <2>2. c[1] = <<n + 1, 1>>
      BY <1>13, <2>1
    <2> QED
      BY <2>1, <2>2
  <1>16. Piece(c, sent', e) /\ After(c, sent') = <<n + 2, 1>>
    <2>1. n + 1 \in 1 .. n + 1 /\ \A i \in 1 .. z : 1 + i - 1 = i
      OBVIOUS
    <2>2. 1 + z - 1 = z /\ n + 1 + 1 = n + 2 /\ (e.encoding = "jpeg" => z >= LengthBytes)
      BY <1>7, ClientSourceAssumption
    <2> QED
      BY <1>7, <1>11, <1>13, <1>15, <2>1, <2>2 DEF Piece, After
  <1>17. ASSUME NEW d \in Seq(Byte), Piece(d, sent, encoder), encoder # NULL
         PROVE  Piece(d, sent', e) /\ After(d, sent') = After(d, sent)
    BY <1>5, <1>8, <1>11, <1>17, PieceStays
  <1>18. DataCount' = DataCount
    BY <1>1, <1>2 DEF DataCount
  <1>19. TypeOK'
    BY <1>1, <1>4, <1>5, <1>11, <1>13, <1>14 DEF IInv, TypeOK, Frames
  <1>20. WireOK'
    BY <1>1, <1>2, <1>18 DEF IInv, WireOK, Started
  <1>21. PendingOK'
    BY <1>1, <1>14, <1>15 DEF PendingOK
  <1>22. \A k : Settled(k)' /\ Settled(k)
    BY <1>1 DEF Settled
  <1>23. AgreeOK'
    BY <1>1, <1>22, <1>2, ClientSourceAssumption DEF IInv, AgreeOK
  <1>24. CodingOK'
    BY <1>1, <1>2, <1>4, <1>5, <1>18, <1>22, ClientSourceAssumption DEF IInv, CodingOK
  <1>25. SentOK'
    <2>1. n + 1 <= MaxFrames
      BY <1>2, <1>9, ClientSourceAssumption
    <2>2. \A k \in 1 .. n : /\ sent[k].coding = e
                            /\ e.encoding = "raw" => sent[k].size = e.props
                            /\ e.encoding = "jpeg" => sent[k].size > LengthBytes
      <3>1. n # 0 => sent # << >>
        BY <1>9
      <3>2. n # 0 => encoder = e
        BY <1>5, <3>1 DEF IInv, CodingOK
      <3> QED
        BY <1>9, <3>2 DEF IInv, SentOK
    <2>3. \A k \in 1 .. n + 1 : k \in 1 .. n \/ k = n + 1
      OBVIOUS
    <2>4. ASSUME NEW k \in 1 .. n + 1
          PROVE  /\ sent'[k].coding = e
                 /\ e.encoding = "raw" => sent'[k].size = e.props
                 /\ e.encoding = "jpeg" => sent'[k].size > LengthBytes
      <3>1. CASE k \in 1 .. n
        <4>1. sent'[k] = sent[k]
          BY <1>11, <3>1
        <4>2. /\ sent[k].coding = e
              /\ e.encoding = "raw" => sent[k].size = e.props
              /\ e.encoding = "jpeg" => sent[k].size > LengthBytes
          BY <2>2, <3>1, Zenon
        <4> QED
          BY <4>1, <4>2
      <3>2. CASE k = n + 1
        BY <1>7, <1>11, <3>2
      <3> QED
        BY <2>3, <3>1, <3>2
    <2> QED
      BY <1>4, <1>11, <2>1, <2>4 DEF SentOK
  <1>26. FlowOK'
    <2>1. PICK m \in Nat : m = DataCount
      BY Counted DEF IInv
    <2>2. /\ \A i \in 1 .. m - 1 : i \in 1 .. m /\ i + 1 \in 1 .. m
          /\ m # 0 => m \in 1 .. m /\ m > 0
      OBVIOUS
    <2>3. data \in Seq(Byte) /\ \A i \in 1 .. m : wire[i].payload \in Seq(Byte)
      BY <2>1, Counted DEF IInv, TypeOK
    <2>4. m # 0 \/ data # << >> => encoder # NULL
      BY <2>1 DEF IInv, CodingOK
    <2>5. data # << >> => Piece(data, sent', e) /\ After(data, sent') = After(data, sent)
      BY <1>17, <2>3, <2>4 DEF IInv, FlowOK
    <2>6. \A i \in 1 .. m : /\ Piece(wire[i].payload, sent', e)
                            /\ After(wire[i].payload, sent') = After(wire[i].payload, sent)
      <3> SUFFICES ASSUME NEW i \in 1 .. m
                   PROVE  /\ Piece(wire[i].payload, sent', e)
                          /\ After(wire[i].payload, sent') = After(wire[i].payload, sent)
        OBVIOUS
      <3>1. Piece(wire[i].payload, sent, encoder) /\ m # 0
        BY <2>1 DEF IInv, FlowOK
      <3> QED
        BY <1>17, <2>3, <2>4, <3>1
    <2>7. Expected' = Expected
      BY <1>1 DEF Expected
    <2>8. Unhandled' = Unhandled
      BY <1>1, <2>5, <2>7 DEF Unhandled
    <2>9. EndOfWire' = EndOfWire
      BY <1>1, <1>18, <2>1, <2>2, <2>6, <2>8 DEF EndOfWire
    <2>10. EndOfWire = <<n + 1, 1>>
      BY <1>2, <1>9 DEF IInv, FlowOK
    <2>11. n + 1 + 1 = n + 2
      OBVIOUS
    <2>12. /\ DataCount > 0 => wire[1].payload[1] = Unhandled
           /\ \A i \in 1 .. m - 1 : wire[i + 1].payload[1] = After(wire[i].payload, sent)
           /\ data # << >> => data[1] = Expected
      BY <2>1 DEF IInv, FlowOK
    <2>13. /\ DataCount' > 0 => wire'[1].payload[1] = Unhandled'
           /\ \A i \in 1 .. m - 1 : wire'[i + 1].payload[1] = After(wire'[i].payload, sent')
           /\ data' # << >> => data'[1] = Expected' /\ Piece(data', sent', encoder')
           /\ \A i \in 1 .. m : Piece(wire'[i].payload, sent', encoder')
      BY <1>1, <1>4, <1>18, <2>2, <2>5, <2>6, <2>7, <2>8, <2>12
    <2> QED
      BY <1>4, <1>11, <1>14, <1>15, <1>16, <1>18, <2>1, <2>9, <2>10, <2>11, <2>13 DEF FlowOK
  <1>27. DecoderOK'
    <2>1. PICK d \in Nat : d = Len(decoded)
      BY LenProperties DEF IInv, TypeOK
    <2>2. d <= n /\ (d < n => d + 1 \in 1 .. n)
      BY <1>9, <2>1 DEF IInv, DecoderOK
    <2>3. image # << >> \/ bytes_needed > 0 => d < n /\ Skip' = Skip
      <3>1. image # << >> \/ bytes_needed > 0 => encoder # NULL
        BY DEF IInv, DecoderOK, CodingOK
      <3> QED
        BY <1>4, <1>5, <1>9, <2>1, <3>1 DEF IInv, DecoderOK, Skip
    <2>4. d < n => sent'[d + 1] = sent[d + 1]
      BY <1>11, <2>2
    <2>5. FramesInOrder'
      <3>1. \A k \in 1 .. d : k \in 1 .. n
        BY <2>2
      <3>2. \A k \in 1 .. d : Body(k)' = Body(k)
        BY <1>11, <3>1 DEF Body
      <3> QED
        BY <1>1, <2>1, <3>2 DEF IInv, DecoderOK, FramesInOrder
    <2>6. image \in Seq(Byte)
      BY DEF IInv, TypeOK
    <2>7. \A i \in 1 .. Len(image) : image[i] = <<d + 1, Skip' + i>>
      <3>1. image = << >> => \A i \in 1 .. Len(image) : FALSE
        OBVIOUS
      <3> QED
        BY <2>1, <2>3, <3>1 DEF IInv, DecoderOK
    <2>8. d < n => d < n + 1
      BY <2>2
    <2>9. d <= n + 1
      BY <2>2
    <2> QED
      BY <1>1, <1>9, <1>11, <2>1, <2>3, <2>4, <2>5, <2>7, <2>8, <2>9 DEF IInv, DecoderOK, NoOverrun
  <1> QED
    BY <1>19, <1>20, <1>21, <1>23, <1>24, <1>25, <1>26, <1>27 DEF IInv

(* A payload goes from the encoder's buffer to the end of what is on its way. *)
LEMMA DrainKeeps ==
  ASSUME IInv, Drain
  PROVE  IInv'
  <1>1. /\ pc = "draining" /\ buffered # << >>
        /\ wire' = Append(wire, [kind |-> "data", payload |-> SubSeq(buffered, 1, Chunk)])
        /\ buffered' = SubSeq(buffered, Chunk + 1, Len(buffered))
        /\ pc' = IF buffered' = << >> THEN "idle" ELSE "draining"
        /\ UNCHANGED <<request, encoding, frame_properties, encoder, pending, reply, sent, sets,
                       open, sEncoding, sProperties, decoder, data, bytes_needed,
                       bytes_received, buffer_size, image, fault, decoded>>
    BY DEF Drain
  <1>2. /\ buffered \in Seq(Byte) /\ sent \in Frames /\ wire \in Seq(Message)
        /\ reply = NULL /\ pending = NULL
    BY <1>1 DEF IInv, TypeOK, Frames, WireOK, PendingOK
  <1>3. PICK c \in Seq(Byte) : c = buffered
    BY <1>2
  <1>4. Piece(c, sent, encoder) /\ c[1] = EndOfWire /\ After(c, sent) = <<Len(sent) + 1, 1>>
    BY <1>1, <1>3 DEF IInv, FlowOK
  <1>5. PICK l \in Nat \ {0} : l = Len(c)
    BY <1>2, <1>4, PieceNumbers
  <1>6. PICK m \in 1 .. l : m = Chunk
    <2>1. PayloadSize \in Nat \ {0}
      BY ClientSourceAssumption
    <2> QED
      BY <1>3, <1>5, <2>1 DEF Chunk
  <1>7. encoder.encoding = "jpeg" /\ c[1][2] = 1 => m >= LengthBytes
    <2>1. LengthBytes \in Nat \ {0} /\ PayloadSize \in Nat /\ LengthBytes <= PayloadSize
      BY ClientSourceAssumption
    <2>2. encoder.encoding = "jpeg" /\ c[1][2] = 1 => l >= LengthBytes
      BY <1>4, <1>5, <2>1 DEF Piece
    <2> QED
      BY <1>3, <1>5, <1>6, <2>1, <2>2 DEF Chunk
  <1>8. PICK a : a = SubSeq(c, 1, m)
    OBVIOUS
  <1>9. PICK b : b = SubSeq(c, m + 1, Len(c))
    OBVIOUS
  <1>10. /\ a \in Seq(Byte) /\ b \in Seq(Byte) /\ a # << >> /\ a[1] = c[1]
         /\ Piece(a, sent, encoder)
         /\ m = l => a = c /\ b = << >>
         /\ m # l => /\ b # << >> /\ Piece(b, sent, encoder)
                     /\ b[1] = After(a, sent) /\ After(b, sent) = After(c, sent)
    <2>1. PICK s \in Frames : s = sent
      BY <1>2
    <2>2. PICK e : e = encoder
      OBVIOUS
    <2>3. m \in 1 .. Len(c) /\ Piece(c, s, e) /\ (e.encoding = "jpeg" /\ c[1][2] = 1 => m >= LengthBytes)
      BY <1>4, <1>5, <1>7, <2>1, <2>2
    <2>4. CutsInTwo(c, m, s, e)
      BY <2>3, SplitPiece
    <2>5. /\ a \in Seq(Byte) /\ b \in Seq(Byte) /\ a # << >> /\ a[1] = c[1]
          /\ Piece(a, s, e)
          /\ m = Len(c) => a = c /\ b = << >>
          /\ m # Len(c) => /\ b # << >> /\ Piece(b, s, e)
                           /\ b[1] = After(a, s) /\ After(b, s) = After(c, s)
      BY <1>8, <1>9, <2>4 DEF CutsInTwo
    <2> QED
      BY <1>5, <2>1, <2>2, <2>5
  <1>11. PICK x : x = [kind |-> "data", payload |-> a]
    OBVIOUS
  <1>12. x \in Message /\ x.kind = "data" /\ x.payload = a
    BY <1>10, <1>11 DEF Message
  <1>13. wire' = Append(wire, x) /\ buffered' = b
    BY <1>1, <1>3, <1>6, <1>8, <1>9, <1>11
  <1>14. PICK n \in Nat : n = Len(wire)
    BY <1>2, LenProperties
  <1>15. /\ wire' \in Seq(Message) /\ Len(wire') = n + 1 /\ wire'[n + 1] = x
         /\ \A i \in 1 .. n : wire'[i] = wire[i]
    BY <1>2, <1>12, <1>13, <1>14, AppendProperties
  <1>16. DataCount = n /\ DataCount' = n + 1
    BY <1>1, <1>2, <1>14, <1>15 DEF DataCount
  <1>17. /\ \A i \in 1 .. n + 1 : i \in 1 .. n \/ i = n + 1
         /\ \A i \in 1 .. n : i \in 1 .. n + 1
         /\ n + 1 \in 1 .. n + 1 /\ n + 1 > 0 /\ n + 1 # 0
    OBVIOUS
  <1>18. TypeOK'
    BY <1>1, <1>10, <1>13, <1>15 DEF IInv, TypeOK
  <1>19. WireOK'
    <2>1. \A i \in 1 .. n + 1 : wire'[i].kind = "data"
      BY <1>12, <1>15, <1>16, <1>17 DEF IInv, WireOK
    <2> QED
      BY <1>1, <1>2, <1>16, <2>1, ClientSourceAssumption DEF WireOK, ReturnCode
  <1>20. PendingOK'
    BY <1>1, <1>2 DEF IInv, PendingOK
  <1>21. \A k : Settled(k)' /\ Settled(k)
    BY <1>1 DEF Settled
  <1>22. AgreeOK'
    BY <1>1, <1>21 DEF IInv, AgreeOK
  <1>23. CodingOK'
    BY <1>1, <1>16, <1>17, <1>21 DEF IInv, CodingOK
  <1>24. SentOK' /\ DecoderOK'
    BY <1>1, DecoderKept DEF IInv
  <1>25. FlowOK'
    <2>1. /\ data # << >> => Piece(data, sent, encoder) /\ data[1] = Expected
          /\ \A i \in 1 .. n : Piece(wire[i].payload, sent, encoder)
          /\ n > 0 => wire[1].payload[1] = Unhandled
          /\ \A i \in 1 .. n - 1 : wire[i + 1].payload[1] = After(wire[i].payload, sent)
      BY <1>16 DEF IInv, FlowOK
    <2>2. Expected' = Expected /\ Unhandled' = Unhandled
      BY <1>1 DEF Expected, Unhandled
    <2>3. EndOfWire = IF n = 0 THEN Unhandled ELSE After(wire[n].payload, sent)
      BY <1>16 DEF EndOfWire
    <2>4. EndOfWire' = After(a, sent)
      BY <1>1, <1>12, <1>15, <1>16, <1>17 DEF EndOfWire
    <2>5. \A i \in 1 .. n + 1 : Piece(wire'[i].payload, sent, encoder)
      BY <1>10, <1>12, <1>15, <1>17, <2>1
    <2>6. wire'[1].payload[1] = Unhandled
      <3>1. CASE n = 0
        BY <1>4, <1>10, <1>12, <1>15, <2>3, <3>1
      <3>2. CASE n > 0
        <4>1. 1 \in 1 .. n
          BY <3>2
        <4> QED
          BY <1>15, <2>1, <3>2, <4>1
      <3> QED
        BY <3>1, <3>2
    <2>7. ASSUME NEW i \in 1 .. n
          PROVE  wire'[i + 1].payload[1] = After(wire'[i].payload, sent)
      <3>1. CASE i = n
        <4>1. n # 0
          BY <3>1
        <4> QED
          BY <1>4, <1>10, <1>12, <1>15, <2>3, <3>1, <4>1
      <3>2. CASE i # n
        <4>1. i \in 1 .. n - 1 /\ i + 1 \in 1 .. n
          BY <3>2
        <4> QED
          BY <1>15, <2>1, <4>1
      <3> QED
        BY <3>1, <3>2
    <2>8. \A i \in 1 .. (n + 1) - 1 : i \in 1 .. n
      OBVIOUS
    <2>9. b = << >> => m = l /\ a = c
      BY <1>10
    <2> QED
      BY <1>1, <1>4, <1>10, <1>13, <1>16, <2>1, <2>2, <2>4, <2>5, <2>6, <2>7, <2>8, <2>9 DEF FlowOK
  <1> QED
    BY <1>18, <1>19, <1>20, <1>22, <1>23, <1>24, <1>25 DEF IInv

-----------------------------------------------------------------------------
(* The server. *)

(* A request is handled when everything before it was. *)
LEMMA RequestHere ==
  ASSUME IInv, NEW kind \in {"open", "close", "setEncoding", "setFrameProperties"}, Receive(kind)
  PROVE  /\ pc = "waiting" /\ reply = NULL /\ request.kind = kind /\ Arg = request.arg
         /\ DataCount = 0 /\ data = << >> /\ buffered = << >> /\ wire' = << >> /\ Len(wire') = 0
         /\ encoder # NULL => decoder = encoder
         /\ UNCHANGED <<pc, request, encoding, frame_properties, encoder, pending, buffered,
                        sent, sets>>
  <1>1. /\ data = << >> /\ wire # << >> /\ Head(wire).kind = kind /\ wire' = Tail(wire)
        /\ UNCHANGED <<pc, request, encoding, frame_properties, encoder, pending, buffered,
                       sent, sets>>
    BY DEF Receive
  <1>2. wire \in Seq(Message)
    BY DEF IInv, TypeOK
  <1>3. PICK n \in Nat \ {0} : n = Len(wire)
    BY <1>1, <1>2, EmptySeq
  <1>4. Head(wire) = wire[1]
    BY <1>1, <1>2
  <1>5. DataCount = 0
    <2>1. 1 \notin 1 .. DataCount
      BY <1>1, <1>4 DEF IInv, WireOK
    <2>2. DataCount \in Nat
      BY Counted DEF IInv
    <2> QED
      BY <2>1, <2>2
  <1>6. pc = "waiting" /\ reply = NULL /\ n = 1
    BY <1>3, <1>5 DEF DataCount
  <1>7. request = wire[1]
    BY <1>3, <1>6 DEF IInv, WireOK
  <1>8. wire' = << >>
    <2>1. Tail(wire) \in Seq(Message) /\ Len(Tail(wire)) = Len(wire) - 1
      BY <1>1, <1>2, HeadTailProperties
    <2>2. Len(wire) - 1 = 0
      BY <1>3, <1>6
    <2> QED
      BY <1>1, <2>1, <2>2, EmptySeq
  <1>9. buffered = << >>
    BY <1>6 DEF IInv, PendingOK
  <1>10. encoder # NULL => decoder = encoder
    BY <1>5, <1>6 DEF IInv, CodingOK
  <1> QED
    BY <1>1, <1>4, <1>5, <1>6, <1>7, <1>8, <1>9, <1>10 DEF Arg

(* Each handler replies, and accepts a change only before the decoder exists. *)
LEMMA HandlerKeeps ==
  ASSUME IInv, ROpen \/ RSetEncoding \/ RSetFrameProperties \/ RClose
  PROVE  IInv'
  <1>1. PICK kind \in {"open", "close", "setEncoding", "setFrameProperties"} : Receive(kind)
    BY DEF ROpen, RSetEncoding, RSetFrameProperties, RClose
  <1>2. /\ pc = "waiting" /\ reply = NULL /\ request.kind = kind /\ Arg = request.arg
        /\ DataCount = 0 /\ data = << >> /\ buffered = << >> /\ wire' = << >> /\ Len(wire') = 0
        /\ encoder # NULL => decoder = encoder
        /\ UNCHANGED <<pc, request, encoding, frame_properties, encoder, pending, buffered,
                       sent, sets>>
    BY <1>1, RequestHere
  <1>3. Head(wire).kind = kind
    BY <1>1 DEF Receive
  <1>4. /\ kind = "setEncoding" => request.arg \in Encoding
        /\ kind = "setFrameProperties" => request.arg \in Props
    BY <1>2 DEF IInv, TypeOK, Request
  <1>5. /\ UNCHANGED <<decoder, data, bytes_needed, bytes_received, buffer_size, image, fault,
                       decoded>>
        /\ open' \in BOOLEAN /\ reply' \in ReturnCode
        /\ reply' = "NAMECLASH" => kind = "open"
        /\ reply' = "INVALIDSTATE" <=> kind \in {"setEncoding", "setFrameProperties"} /\ decoder # NULL
        /\ kind # "open" =>
             sEncoding' = IF kind = "setEncoding" /\ reply' = "SUCCESS" THEN request.arg ELSE sEncoding
        /\ sProperties' = IF kind = "setFrameProperties" /\ reply' = "SUCCESS" THEN request.arg
                          ELSE sProperties
        /\ kind = "open" => sEncoding' \in {sEncoding, "jpeg"}
    <2>1. CASE ROpen
      BY <1>2, <1>3, <2>1 DEF ROpen, Receive, ReturnCode, IInv, TypeOK
    <2>2. CASE RSetEncoding
      BY <1>2, <1>3, <2>2 DEF RSetEncoding, Receive, ReturnCode, Started, IInv, TypeOK
    <2>3. CASE RSetFrameProperties
      BY <1>2, <1>3, <2>3 DEF RSetFrameProperties, Receive, ReturnCode, Started, IInv, TypeOK
    <2>4. CASE RClose
      BY <1>2, <1>3, <2>4 DEF RClose, Receive, ReturnCode, IInv, TypeOK
    <2> QED
      BY <2>1, <2>2, <2>3, <2>4
  <1>6. reply' # NULL /\ DataCount' = 0
    BY <1>2, <1>5, ClientSourceAssumption DEF DataCount
  <1>7. TypeOK'
    <2>1. /\ sEncoding' \in Encoding \cup {NULL} /\ sProperties' \in Props \cup {NULL}
          /\ wire' \in Seq(Message)
      BY <1>2, <1>4, <1>5 DEF IInv, TypeOK, Encoding
    <2> QED
      BY <1>2, <1>5, <2>1 DEF IInv, TypeOK
  <1>8. WireOK'
    BY <1>2, <1>5, <1>6 DEF WireOK, Started
  <1>9. PendingOK'
    BY <1>2 DEF IInv, PendingOK
  <1>10. Settled("setEncoding") /\ Settled("setFrameProperties")
    BY <1>2, ClientSourceAssumption DEF Settled, ReturnCode
  <1>11. /\ Settled("setEncoding")' <=> ~(kind = "setEncoding" /\ reply' = "SUCCESS")
         /\ Settled("setFrameProperties")' <=> ~(kind = "setFrameProperties" /\ reply' = "SUCCESS")
    BY <1>2 DEF Settled
  <1>12. AgreeOK'
    BY <1>2, <1>5, <1>10, <1>11 DEF IInv, AgreeOK
  <1>13. CodingOK'
    BY <1>2, <1>5, <1>6, <1>11 DEF IInv, CodingOK
  <1>14. FlowOK'
    BY <1>2, <1>5, <1>6, FlowKept DEF IInv
  <1>15. SentOK' /\ DecoderOK'
    BY <1>2, <1>5, DecoderKept DEF IInv
  <1> QED
    BY <1>7, <1>8, <1>9, <1>12, <1>13, <1>14, <1>15 DEF IInv

(* A Data message is taken to the decoder, which is opened as the encoder was. *)
LEMMA RDataKeeps ==
  ASSUME IInv, RData
  PROVE  IInv'
  <1>1. /\ data = << >> /\ wire # << >> /\ Head(wire).kind = "data" /\ wire' = Tail(wire)
        /\ UNCHANGED <<pc, request, encoding, frame_properties, encoder, pending, buffered,
                       sent, sets, reply, open, sEncoding, sProperties, bytes_needed,
                       bytes_received, buffer_size, image, fault, decoded>>
    BY DEF RData, Receive
  <1>2. wire \in Seq(Message)
    BY DEF IInv, TypeOK
  <1>3. PICK n \in Nat \ {0} : n = Len(wire)
    BY <1>1, <1>2, EmptySeq
  <1>4. Head(wire) = wire[1]
    BY <1>1, <1>2
  <1>5. reply = NULL
    BY <1>1 DEF IInv, WireOK
  <1>6. PICK w \in Nat : w = DataCount
    BY Counted DEF IInv
  <1>7. w \in Nat \ {0} /\ (w = n \/ w = n - 1)
    <2>1. request.kind # "data"
      BY DEF IInv, TypeOK, Request
    <2>2. w = n \/ w = n - 1
      BY <1>3, <1>6, Counted DEF IInv
    <2>3. ASSUME w = 0 PROVE FALSE
      <3>1. n = 1 /\ pc = "waiting"
        BY <1>3, <1>6, <2>2, <2>3 DEF DataCount
      <3>2. wire[Len(wire)] = request
        BY <1>5, <3>1 DEF IInv, WireOK
      <3> QED
        BY <1>1, <1>3, <1>4, <2>1, <3>1, <3>2
    <2> QED
      BY <2>2, <2>3
  <1>8. PICK c \in Seq(Byte) : c = wire[1].payload
    BY <1>6, <1>7, Counted DEF IInv
  <1>9. encoder # NULL
    BY <1>6, <1>7 DEF IInv, CodingOK
  <1>10. decoder' = encoder /\ data' = c /\ (decoder # NULL => decoder' = decoder)
    <2>1. CASE decoder # NULL
      BY <1>4, <1>8, <2>1 DEF RData, Started, IInv, CodingOK
    <2>2. CASE decoder = NULL
      <3>1. /\ encoder = [encoding |-> encoding, props |-> frame_properties]
            /\ frame_properties # NULL /\ encoding # NULL
            /\ Settled("setEncoding") /\ Settled("setFrameProperties")
        BY <1>9 DEF IInv, CodingOK, AgreeOK
      <3>2. sEncoding = encoding /\ sProperties = frame_properties
        BY <3>1 DEF IInv, AgreeOK
      <3> QED
        BY <1>4, <1>8, <2>2, <3>1, <3>2 DEF RData, Started
    <2> QED
      BY <2>1, <2>2
  <1>11. c # << >> /\ Piece(c, sent, encoder) /\ c[1] = Expected
    <2>1. 1 \in 1 .. w /\ w > 0
      BY <1>7
    <2>2. Piece(c, sent, encoder) /\ c[1] = Unhandled
      BY <1>6, <1>8, <2>1 DEF IInv, FlowOK
    <2> QED
      BY <1>1, <2>2 DEF Unhandled, Piece
  <1>12. PICK t : t = Tail(wire)
    OBVIOUS
  <1>13. t \in Seq(Message) /\ Len(t) = n - 1 /\ \A i \in 1 .. n - 1 : t[i] = wire[i + 1]
    BY <1>1, <1>2, <1>3, <1>12, HeadTailProperties
  <1>14. wire' = t /\ DataCount' = w - 1
    BY <1>1, <1>3, <1>6, <1>12, <1>13 DEF DataCount
  <1>15. /\ \A i \in 1 .. w - 1 : i \in 1 .. n - 1 /\ i + 1 \in 1 .. w /\ i \in 1 .. w
         /\ \A i \in 1 .. w - 2 : /\ i \in 1 .. w - 1 /\ i + 1 \in 1 .. w - 1
                                  /\ i + 1 \in 1 .. w /\ i + 1 + 1 \in 1 .. w
         /\ 1 \in 1 .. w /\ w - 1 \in Nat
    BY <1>7
  <1>16. TypeOK'
    BY <1>1, <1>10, <1>13, <1>14 DEF IInv, TypeOK
  <1>17. WireOK'
    <2>1. \A i \in 1 .. w - 1 : t[i].kind = "data"
      <3>1. \A i \in 1 .. w : wire[i].kind = "data"
        BY <1>6 DEF IInv, WireOK
      <3> QED
        BY <1>13, <1>15, <3>1
    <2>2. ASSUME pc = "waiting"
          PROVE  t # << >> /\ t[Len(t)] = request
      <3>1. w = n - 1
        BY <1>3, <1>5, <1>6, <2>2 DEF DataCount
      <3>2. n - 1 \in 1 .. n - 1 /\ (n - 1) + 1 = n
        BY <1>7, <3>1
      <3>3. t[n - 1] = wire[n]
        BY <1>13, <3>2
      <3>4. wire[n] = request
        BY <1>3, <1>5, <2>2 DEF IInv, WireOK
      <3>5. t # << >>
        BY <1>7, <1>13, <3>1
      <3> QED
        BY <1>13, <3>3, <3>4, <3>5
    <2> QED
      BY <1>1, <1>5, <1>14, <2>1, <2>2, ClientSourceAssumption DEF WireOK, ReturnCode
  <1>18. PendingOK'
    BY <1>1 DEF IInv, PendingOK
  <1>19. Settled("setEncoding")' = Settled("setEncoding")
         /\ Settled("setFrameProperties")' = Settled("setFrameProperties")
    BY <1>1 DEF Settled
  <1>20. AgreeOK'
    BY <1>1, <1>19 DEF IInv, AgreeOK
  <1>21. CodingOK'
    BY <1>1, <1>9, <1>10, <1>19 DEF IInv, CodingOK
  <1>22. SentOK'
    BY <1>1 DEF IInv, SentOK
  <1>23. FlowOK'
    <2>1. /\ \A i \in 1 .. w : Piece(wire[i].payload, sent, encoder)
          /\ \A i \in 1 .. w - 1 : wire[i + 1].payload[1] = After(wire[i].payload, sent)
      BY <1>6 DEF IInv, FlowOK
    <2>2. Expected' = Expected
      BY <1>1 DEF Expected
    <2>3. Unhandled' = After(c, sent)
      BY <1>1, <1>10, <1>11 DEF Unhandled
    <2>4. \A i \in 1 .. w - 1 : Piece(t[i].payload, sent, encoder)
      BY <1>13, <1>15, <2>1
    <2>5. ASSUME w - 1 > 0 PROVE t[1].payload[1] = After(c, sent)
      <3>1. 1 \in 1 .. w - 1 /\ 1 \in 1 .. n - 1
        BY <1>7, <2>5
      <3>2. t[1] = wire[1 + 1]
        BY <1>13, <3>1
      <3> QED
        BY <1>8, <2>1, <3>1, <3>2
    <2>6. ASSUME NEW i \in 1 .. w - 2
          PROVE  t[i + 1].payload[1] = After(t[i].payload, sent)
      <3>1. /\ i \in 1 .. n - 1 /\ i + 1 \in 1 .. n - 1 /\ i + 1 \in 1 .. w - 1
        BY <1>7
      <3>2. t[i + 1] = wire[i + 1 + 1] /\ t[i] = wire[i + 1]
        BY <1>13, <3>1
      <3> QED
        BY <2>1, <3>1, <3>2
    <2>7. (w - 1) - 1 = w - 2
      OBVIOUS
    <2>8. EndOfWire' = EndOfWire
      <3>1. EndOfWire = After(wire[w].payload, sent)
        BY <1>6, <1>7 DEF EndOfWire
      <3>2. CASE w = 1
        BY <1>1, <1>8, <1>14, <2>3, <3>1, <3>2 DEF EndOfWire
      <3>3. CASE w # 1
        <4>1. w - 1 # 0 /\ w - 1 \in 1 .. n - 1 /\ (w - 1) + 1 = w
          BY <1>7, <3>3
        <4>2. t[w - 1] = wire[w]
          BY <1>13, <4>1
        <4> QED
          BY <1>1, <1>14, <3>1, <4>1, <4>2 DEF EndOfWire
      <3> QED
        BY <3>2, <3>3
    <2>9. /\ buffered = << >> => EndOfWire = <<Len(sent) + 1, 1>>
          /\ buffered # << >> => /\ Piece(buffered, sent, encoder) /\ buffered[1] = EndOfWire
                                 /\ After(buffered, sent) = <<Len(sent) + 1, 1>>
      BY DEF IInv, FlowOK
    <2>10. /\ data' # << >> => Piece(data', sent', encoder') /\ data'[1] = Expected'
           /\ \A i \in 1 .. w - 1 : Piece(wire'[i].payload, sent', encoder')
           /\ w - 1 > 0 => wire'[1].payload[1] = Unhandled'
           /\ \A i \in 1 .. (w - 1) - 1 : wire'[i + 1].payload[1] = After(wire'[i].payload, sent')
      BY <1>1, <1>10, <1>11, <1>14, <2>2, <2>3, <2>4, <2>5, <2>6, <2>7
    <2>11. /\ buffered' = << >> => EndOfWire' = <<Len(sent') + 1, 1>>
           /\ buffered' # << >> => /\ Piece(buffered', sent', encoder') /\ buffered'[1] = EndOfWire'
                                   /\ After(buffered', sent') = <<Len(sent') + 1, 1>>
      BY <1>1, <2>8, <2>9
    <2> QED
      BY <1>14, <2>10, <2>11 DEF FlowOK
  <1>24. DecoderOK'
    <2>1. Skip' = Skip /\ FramesInOrder' /\ NoOverrun'
      BY <1>1 DEF IInv, DecoderOK, Skip, FramesInOrder, Body, NoOverrun
    <2>2. decoder = NULL => bytes_needed = 0 /\ image = << >>
      BY DEF IInv, DecoderOK
    <2>3. bytes_needed > 0 => decoder # NULL
      BY DEF IInv, DecoderOK
    <2>4. image # << >> => decoder # NULL
      BY <2>2
    <2> QED
      BY <1>1, <1>9, <1>10, <2>1, <2>3, <2>4 DEF IInv, DecoderOK
  <1> QED
    BY <1>16, <1>17, <1>18, <1>20, <1>21, <1>22, <1>23, <1>24 DEF IInv

-----------------------------------------------------------------------------
(* The decoder. *)

(* The message at hand goes on where the decoder stopped. *)
LEMMA DataHere ==
  ASSUME IInv, data # << >>
  PROVE  /\ decoder # NULL /\ decoder = encoder /\ data \in Seq(Byte) /\ sent \in Frames
         /\ Len(decoded) \in Nat /\ Len(decoded) + 1 \in 1 .. Len(sent) /\ Len(sent) \in Nat
         /\ Len(data) \in Nat \ {0} /\ image \in Seq(Byte) /\ Len(image) \in Nat
         /\ sent[Len(decoded) + 1].size \in Nat
         /\ Piece(data, sent, encoder)
         /\ data[1][1] = Len(decoded) + 1
         /\ data[1][2] = 1 + Len(image) + IF bytes_needed > 0 THEN LengthBytes ELSE 0
         /\ data[1][2] \in Nat \ {0} /\ bytes_needed \in Nat
         /\ data[1][2] + Len(data) - 1 <= sent[Len(decoded) + 1].size
         /\ encoder.encoding = "jpeg" =>
              (data[1][2] = 1 /\ Len(data) >= LengthBytes) \/ data[1][2] > LengthBytes
         /\ Unhandled = After(data, sent)
  <1>1. /\ data \in Seq(Byte) /\ image \in Seq(Byte) /\ sent \in Frames /\ bytes_needed \in Nat
        /\ Len(decoded) \in Nat /\ Len(image) \in Nat
    BY LenProperties DEF IInv, TypeOK, Frames
  <1>2. Piece(data, sent, encoder) /\ data[1] = Expected
    BY DEF IInv, FlowOK
  <1>3. data[1][1] = Len(decoded) + 1
    BY <1>2 DEF Expected
  <1>4. data[1][2] = 1 + Len(image) + IF bytes_needed > 0 THEN LengthBytes ELSE 0
    BY <1>2 DEF Expected
  <1>5. PICK c \in Seq(Byte) : c = data
    BY <1>1
  <1>6. PICK s \in Frames : s = sent
    BY <1>1
  <1>7. /\ c[1][1] \in 1 .. Len(s) /\ Len(s) \in Nat /\ c[1][2] \in Nat \ {0}
        /\ Len(c) \in Nat \ {0} /\ s[c[1][1]].size \in Nat
    BY <1>2, <1>5, <1>6, PieceNumbers
  <1>8. decoder # NULL /\ decoder = encoder
    BY DEF IInv, CodingOK
  <1>9. /\ data[1][2] + Len(data) - 1 <= sent[data[1][1]].size
        /\ encoder.encoding = "jpeg" =>
             (data[1][2] = 1 /\ Len(data) >= LengthBytes) \/ data[1][2] > LengthBytes
    BY <1>2 DEF Piece
  <1>10. Unhandled = After(data, sent)
    BY DEF Unhandled
  <1> QED
    BY <1>1, <1>2, <1>3, <1>4, <1>5, <1>6, <1>7, <1>8, <1>9, <1>10

(* What is behind the message does not change with it. *)
LEMMA FlowBehind ==
  ASSUME TypeOK, WireOK, FlowOK, Unhandled' = Unhandled,
         UNCHANGED <<pc, reply, wire, buffered, sent, encoder>>,
         data' # << >> => Piece(data', sent, encoder) /\ data'[1] = Expected'
  PROVE  FlowOK'
  <1>1. DataCount' = DataCount
    BY DEF DataCount
  <1>2. EndOfWire' = EndOfWire
    BY <1>1 DEF EndOfWire
  <1> QED
    BY <1>1, <1>2 DEF FlowOK

(* A whole message is a piece of itself. *)
LEMMA WholeMessage ==
  ASSUME NEW c \in Seq(Byte)
  PROVE  SubSeq(c, 1, Len(c)) = c /\ SubSeq(c, Len(c) + 1, Len(c)) = << >>
  <1>1. PICK l \in Nat : l = Len(c)
    BY LenProperties
  <1>2. \A i \in 1 .. l : c[i] \in Byte
    BY <1>1, ElementOfSeq
  <1>3. PICK a : a = SubSeq(c, 1, l)
    OBVIOUS
  <1>4. a \in Seq(Byte) /\ Len(a) = l /\ \A i \in 1 .. l : a[i] = c[i]
    BY <1>1, <1>2, <1>3, SubSeqProperties
  <1>5. a = c
    BY <1>1, <1>4, SeqEqual
  <1>6. SubSeq(c, l + 1, l) = << >>
    BY <1>1
  <1> QED
    BY <1>1, <1>3, <1>5, <1>6

(* Bytes of the message are added to the image, and the image is decoded when it is whole. *)
LEMMA ConsumeKeeps ==
  ASSUME IInv, data # << >>, NEW complete \in BOOLEAN,
         complete <=> data[1][2] + Len(data) - 1 = sent[Len(decoded) + 1].size,
         data' = << >>,
         image' = IF complete THEN << >> ELSE image \o data,
         decoded' = IF complete THEN Append(decoded, [bytes |-> image \o data, coding |-> decoder])
                    ELSE decoded,
         fault' = FALSE, buffer_size' = buffer_size,
         \/ /\ decoder.encoding = "raw" /\ bytes_needed = 0
            /\ UNCHANGED <<bytes_needed, bytes_received>>
         \/ /\ decoder.encoding = "jpeg" /\ bytes_needed > 0
            /\ bytes_received' = bytes_received + Len(data)
            /\ bytes_needed' = IF complete THEN 0 ELSE bytes_needed,
         DecodeFrame
  PROVE  IInv'
  <1>1. UNCHANGED <<pc, request, encoding, frame_properties, encoder, pending, buffered, wire,
                    reply, open, sEncoding, sProperties, decoder, sent, sets>>
    BY DEF DecodeFrame
  <1>2. PICK D \in Nat : D = Len(decoded)
    BY DataHere
  <1>3. PICK l \in Nat \ {0} : l = Len(data)
    BY DataHere
  <1>4. PICK j \in Nat : j = Len(image)
    BY DataHere
  <1>5. PICK z \in Nat : z = sent[D + 1].size
    BY <1>2, DataHere
  <1>6. PICK S \in Nat : S = Skip
    BY ClientSourceAssumption DEF Skip
  <1>7. /\ bytes_needed \in Nat /\ (bytes_needed > 0 <=> encoder.encoding = "jpeg")
        /\ S = IF bytes_needed > 0 THEN LengthBytes ELSE 0
    <2>1. bytes_needed \in Nat /\ decoder = encoder
      BY DataHere
    <2>2. CASE decoder.encoding = "raw" /\ bytes_needed = 0
      BY <1>6, <2>1, <2>2 DEF Skip
    <2>3. CASE decoder.encoding = "jpeg" /\ bytes_needed > 0
      BY <1>6, <2>1, <2>3 DEF Skip
    <2> QED
      BY <2>2, <2>3
  <1>8. data[1][1] = D + 1 /\ data[1][2] = 1 + j + S /\ D + 1 \in 1 .. Len(sent) /\ Len(sent) \in Nat
    BY <1>2, <1>4, <1>7, DataHere
  <1>9. /\ j + S + l <= z /\ (complete <=> j + S + l = z)
    BY <1>2, <1>3, <1>4, <1>5, <1>8, DataHere
  <1>10. PICK b : b = image \o data
    OBVIOUS
  <1>11. /\ b \in Seq(Byte) /\ Len(b) = j + l
         /\ \A i \in 1 .. j + l : b[i] = <<D + 1, S + i>>
    <2>1. /\ b \in Seq(Byte) /\ Len(b) = j + l
          /\ \A i \in 1 .. j + l : b[i] = IF i <= j THEN image[i] ELSE data[i - j]
      BY <1>3, <1>4, <1>10, DataHere, ConcatProperties
    <2>2. \A i \in 1 .. l : data[i] = <<D + 1, 1 + j + S + i - 1>>
      BY <1>3, <1>8, DataHere DEF Piece
    <2>3. \A i \in 1 .. j : image[i] = <<D + 1, S + i>>
      BY <1>2, <1>4, <1>6 DEF IInv, DecoderOK
    <2>4. ASSUME NEW i \in 1 .. j + l
          PROVE  b[i] = <<D + 1, S + i>>
      <3>1. CASE i <= j
        <4>1. i \in 1 .. j
          BY <3>1
        <4> QED
          BY <2>1, <2>3, <3>1, <4>1
      <3>2. CASE ~(i <= j)
        <4>0. i \in Nat /\ j < i /\ i <= j + l
          BY <3>2
        <4>1. i - j \in 1 .. l /\ 1 + j + S + (i - j) - 1 = S + i
          BY <4>0
        <4>2. data[i - j] = <<D + 1, 1 + j + S + (i - j) - 1>>
          BY <2>2, <4>1
        <4>3. b[i] = data[i - j]
          BY <2>1, <3>2
        <4> QED
          BY <4>1, <4>2, <4>3
      <3> QED
        BY <3>1, <3>2
    <2> QED
      BY <2>1, <2>4
  <1>12. b # << >>
    BY <1>11, EmptySeq
  <1>13. decoder = encoder /\ decoder # NULL /\ decoder \in Coding
    BY DataHere DEF IInv, TypeOK
  <1>14. PICK g \in [bytes : Seq(Byte), coding : Coding] : g = [bytes |-> b, coding |-> decoder]
    BY <1>11, <1>13
  <1>15. /\ complete => image' = << >> /\ decoded' = Append(decoded, g) /\ bytes_needed' = 0
         /\ ~complete => image' = b /\ decoded' = decoded /\ bytes_needed' = bytes_needed
         /\ bytes_needed' \in Nat /\ bytes_received' \in Nat
    <2>1. complete => image' = << >> /\ decoded' = Append(decoded, g)
      BY <1>10, <1>14, Zenon
    <2>2. ~complete => image' = b /\ decoded' = decoded
      BY <1>10, Zenon
    <2>3. CASE /\ decoder.encoding = "raw" /\ bytes_needed = 0
               /\ UNCHANGED <<bytes_needed, bytes_received>>
      <3>1. bytes_needed' = 0 /\ bytes_needed' = bytes_needed
        BY <2>3
      <3>2. bytes_needed' \in Nat /\ bytes_received' \in Nat
        BY <2>3 DEF IInv, TypeOK
      <3> QED
        BY <2>1, <2>2, <3>1, <3>2, Zenon
    <2>4. CASE /\ decoder.encoding = "jpeg" /\ bytes_needed > 0
               /\ bytes_received' = bytes_received + Len(data)
               /\ bytes_needed' = IF complete THEN 0 ELSE bytes_needed
      <3>1. (complete => bytes_needed' = 0) /\ (~complete => bytes_needed' = bytes_needed)
        BY <2>4, Zenon
      <3>2. bytes_needed' \in Nat
        BY <1>7, <3>1
      <3>3. bytes_received' \in Nat
        <4>1. bytes_received \in Nat
          BY DEF IInv, TypeOK
        <4> QED
          BY <1>3, <2>4, <4>1
      <3> QED
        BY <2>1, <2>2, <3>1, <3>2, <3>3, Zenon
    <2> QED
      BY <2>3, <2>4, Zenon
  <1>16. decoded \in Seq([bytes : Seq(Byte), coding : Coding])
    BY DEF IInv, TypeOK
  <1>17. complete => /\ decoded' \in Seq([bytes : Seq(Byte), coding : Coding])
                     /\ Len(decoded') = D + 1 /\ decoded'[D + 1] = g
                     /\ \A k \in 1 .. D : decoded'[k] = decoded[k]
    <2>1. LET d == Append(decoded, g)
          IN  /\ d \in Seq([bytes : Seq(Byte), coding : Coding])
              /\ Len(d) = D + 1 /\ d[D + 1] = g
              /\ \A k \in 1 .. D : d[k] = decoded[k]
      BY <1>2, <1>16, AppendProperties
    <2> QED
      BY <1>15, <2>1, Zenon
  <1>18. TypeOK'
    <2>1. /\ image' \in Seq(Byte) /\ data' \in Seq(Byte)
          /\ decoded' \in Seq([bytes : Seq(Byte), coding : Coding])
      <3>1. << >> \in Seq(Byte)
        OBVIOUS
      <3> QED
        BY <1>11, <1>15, <1>16, <1>17, <3>1, Zenon
    <2>2. bytes_needed' \in Nat /\ bytes_received' \in Nat
      BY <1>15, Zenon
    <2>3. buffer_size' \in Nat /\ fault' \in BOOLEAN
      BY DEF IInv, TypeOK
    <2>4. {bytes_needed, bytes_received, buffer_size}' \subseteq Nat
      BY <2>2, <2>3
    <2> QED
      BY <1>1, <2>1, <2>3, <2>4 DEF IInv, TypeOK
  <1>19. DataCount' = DataCount
    BY <1>1 DEF DataCount
  <1>20. WireOK'
    BY <1>1, <1>19 DEF IInv, WireOK, Started
  <1>21. PendingOK'
    BY <1>1 DEF IInv, PendingOK
  <1>22. Settled("setEncoding")' = Settled("setEncoding")
         /\ Settled("setFrameProperties")' = Settled("setFrameProperties")
    BY <1>1 DEF Settled
  <1>23. AgreeOK'
    BY <1>1, <1>22 DEF IInv, AgreeOK
  <1>24. CodingOK'
    BY <1>1, <1>19, <1>22 DEF IInv, CodingOK
  <1>25. SentOK'
    BY <1>1 DEF IInv, SentOK
  <1>26. FlowOK'
    <2>1. Expected' = After(data, sent)
      <3>1. CASE complete
        <4>1. Expected' = <<D + 1 + 1, 1 + 0 + 0>>
          BY <1>15, <1>17, <3>1 DEF Expected
        <4>2. After(data, sent) = <<D + 1 + 1, 1>>
          BY <1>2, <1>3, <1>5, <1>8, <3>1 DEF After
        <4> QED
          BY <4>1, <4>2
      <3>2. CASE ~complete
        <4>1. Expected' = <<D + 1, 1 + (j + l) + S>>
          BY <1>2, <1>7, <1>11, <1>15, <3>2 DEF Expected
        <4>2. After(data, sent) = <<D + 1, 1 + j + S + l>>
          BY <1>2, <1>3, <1>5, <1>8, <3>2 DEF After
        <4>3. 1 + (j + l) + S = 1 + j + S + l
          OBVIOUS
        <4> QED
          BY <4>1, <4>2, <4>3
      <3> QED
        BY <3>1, <3>2
    <2>2. Unhandled' = Unhandled
      BY <2>1, DataHere DEF Unhandled
    <2> QED
      BY <1>1, <2>2, FlowBehind DEF IInv
  <1>27. Body(D + 1)' = Body(D + 1) /\ \A k \in 1 .. D : Body(k)' = Body(k)
    BY <1>1 DEF Body
  <1>28. complete => b = Body(D + 1)
    <2>1. ASSUME complete PROVE b = Body(D + 1)
      <3>1. sent[D + 1].coding = encoder
        BY <1>8 DEF IInv, SentOK
      <3>2. Body(D + 1) = [i \in 1 .. z - S |-> <<D + 1, S + i>>]
        BY <1>5, <1>6, <3>1 DEF Body, Skip
      <3>3. z - S = j + l
        BY <1>9, <2>1
      <3>4. b = [i \in 1 .. j + l |-> b[i]]
        BY <1>11
      <3> QED
        BY <1>11, <3>2, <3>3, <3>4
    <2> QED
      BY <2>1
  <1>29. FramesInOrder'
    <2>1. \A k \in 1 .. D : decoded[k].bytes = Body(k)
      BY <1>2 DEF IInv, DecoderOK, FramesInOrder
    <2>2. CASE complete
      <3>1. \A k \in 1 .. D + 1 : k \in 1 .. D \/ k = D + 1
        OBVIOUS
      <3>2. ASSUME NEW k \in 1 .. D + 1
            PROVE  decoded'[k].bytes = Body(k)'
        <4>1. CASE k \in 1 .. D
          <5>1. decoded'[k] = decoded[k]
            BY <1>17, <2>2, <4>1
          <5> QED
            BY <1>27, <2>1, <4>1, <5>1
        <4>2. CASE k = D + 1
          <5>1. g.bytes = b
            BY <1>14
          <5> QED
            BY <1>17, <1>27, <1>28, <2>2, <4>2, <5>1, Zenon
        <4> QED
          BY <3>1, <4>1, <4>2
      <3> QED
        BY <1>17, <2>2, <3>2 DEF FramesInOrder
    <2>3. CASE ~complete
      BY <1>2, <1>15, <1>27, <2>1, <2>3 DEF FramesInOrder
    <2> QED
      BY <2>2, <2>3
  <1>30. DecoderOK'
    <2>1. Skip' = S
      BY <1>1, <1>6 DEF Skip
    <2>2. D < Len(sent) /\ D + 1 <= Len(sent) /\ D <= Len(sent)
      BY <1>8
    <2>3. CASE complete
      <3>1. Len(decoded') = D + 1 /\ image' = << >> /\ bytes_needed' = 0
        BY <1>15, <1>17, <2>3
      <3>2. \A i \in 1 .. Len(image') : FALSE
        BY <3>1
      <3> QED
        BY <1>1, <1>13, <1>29, <2>2, <3>1, <3>2 DEF DecoderOK, NoOverrun
    <2>4. CASE ~complete
      <3>1. image' = b /\ decoded' = decoded /\ bytes_needed' = bytes_needed /\ S + (j + l) < z
        <4>1. j + S + l <= z /\ j + S + l # z
          BY <1>9, <2>4, Zenon
        <4>2. S + (j + l) < z
          BY <4>1, SMTT(30)
        <4> QED
          BY <1>15, <2>4, <4>2, Zenon
      <3>2. bytes_needed > 0 => /\ decoder.encoding = "jpeg" /\ bytes_needed = z - LengthBytes
                                /\ bytes_received' = j + l /\ bytes_needed <= buffer_size
                                /\ S = LengthBytes
        <4>1. bytes_needed > 0 => /\ decoder.encoding = "jpeg" /\ bytes_needed = z - LengthBytes
                                  /\ bytes_received = j /\ bytes_needed <= buffer_size
          BY <1>2, <1>4, <1>5 DEF IInv, DecoderOK
        <4> QED
          BY <1>3, <1>7, <4>1
      <3>3. bytes_needed > 0 => j + l < bytes_needed
        BY <3>1, <3>2, ClientSourceAssumption
      <3>4. bytes_needed > 0 \/ decoder.encoding = "raw"
        OBVIOUS
      <3> QED
        BY <1>1, <1>2, <1>5, <1>11, <1>13, <1>29, <2>1, <2>2, <3>1, <3>2, <3>3, <3>4
        DEF DecoderOK, NoOverrun
    <2> QED
      BY <2>3, <2>4
  <1> QED
    BY <1>18, <1>20, <1>21, <1>23, <1>24, <1>25, <1>26, <1>30 DEF IInv

(* A round of the raw decoder takes the whole message: it holds no byte of the next frame. *)
LEMMA DecodeRawKeeps ==
  ASSUME IInv, DecodeRaw
  PROVE  IInv'
  <1>1. /\ ~fault /\ data # << >> /\ decoder.encoding = "raw"
        /\ UNCHANGED <<bytes_needed, bytes_received, buffer_size, fault>> /\ DecodeFrame
    BY DEF DecodeRaw, Decoding
  <1>2. PICK l \in Nat \ {0} : l = Len(data)
    BY <1>1, DataHere
  <1>3. PICK j \in Nat : j = Len(image)
    BY <1>1, DataHere
  <1>4. PICK z \in Nat : z = sent[Len(decoded) + 1].size
    BY <1>1, DataHere
  <1>5. bytes_needed = 0
    BY <1>1, DataHere DEF IInv, DecoderOK
  <1>6. decoder.props = z
    BY <1>1, <1>4, DataHere DEF IInv, SentOK
  <1>7. PICK o \in Nat : o = data[1][2]
    BY <1>1, DataHere
  <1>8. o = 1 + j + 0 /\ o + l - 1 <= z
    BY <1>1, <1>2, <1>3, <1>4, <1>5, <1>7, DataHere
  <1>9. PICK left \in Int : left = decoder.props - Len(image)
    BY <1>3, <1>6
  <1>10. PICK n : n = IF left < Len(data) THEN left ELSE Len(data)
    OBVIOUS
  <1>11. left = z - j /\ n = l /\ (n = left <=> o + l - 1 = z)
    BY <1>2, <1>3, <1>6, <1>8, <1>9, <1>10
  <1>12. Consume(n, n = left)
    BY <1>9, <1>10 DEF DecodeRaw
  <1>13. PICK complete \in BOOLEAN : complete <=> n = left
    OBVIOUS
  <1>14. SubSeq(data, 1, Len(data)) = data /\ SubSeq(data, Len(data) + 1, Len(data)) = << >>
    BY <1>1, DataHere, WholeMessage
  <1>15. /\ data' = << >>
         /\ image' = IF complete THEN << >> ELSE image \o data
         /\ decoded' = IF complete THEN Append(decoded, [bytes |-> image \o data, coding |-> decoder])
                       ELSE decoded
    <2>1. n = Len(data)
      BY <1>2, <1>11
    <2>2. CASE complete
      BY <1>12, <1>13, <1>14, <2>1, <2>2 DEF Consume
    <2>3. CASE ~complete
      BY <1>12, <1>13, <1>14, <2>1, <2>3 DEF Consume
    <2> QED
      BY <2>2, <2>3
  <1>16. complete <=> data[1][2] + Len(data) - 1 = sent[Len(decoded) + 1].size
    BY <1>2, <1>4, <1>7, <1>11, <1>13
  <1>17. fault' = FALSE
    BY <1>1 DEF IInv, TypeOK
  <1> QED
    BY <1>1, <1>5, <1>15, <1>16, <1>17, ConsumeKeeps

(* A chunk of the jpeg decoder is the whole message, and fits the buffer: bounding it by all
   that is needed is enough, for no message holds bytes of two frames. *)
LEMMA DecodeJpegKeeps ==
  ASSUME IInv, DecodeJpeg
  PROVE  IInv'
  <1>1. /\ ~fault /\ data # << >> /\ decoder.encoding = "jpeg" /\ bytes_needed > 0
        /\ buffer_size' = buffer_size /\ DecodeFrame
    BY DEF DecodeJpeg, Decoding
  <1>2. PICK l \in Nat \ {0} : l = Len(data)
    BY <1>1, DataHere
  <1>3. PICK j \in Nat : j = Len(image)
    BY <1>1, DataHere
  <1>4. PICK z \in Nat : z = sent[Len(decoded) + 1].size
    BY <1>1, DataHere
  <1>5. PICK o \in Nat : o = data[1][2]
    BY <1>1, DataHere
  <1>6. LengthBytes \in Nat
    BY ClientSourceAssumption
  <1>7. o = 1 + j + LengthBytes /\ o + l - 1 <= z
    BY <1>1, <1>2, <1>3, <1>4, <1>5, <1>6, DataHere
  <1>8. PICK need \in Nat : need = bytes_needed
    BY DEF IInv, TypeOK
  <1>9. PICK size \in Nat : size = buffer_size
    BY DEF IInv, TypeOK
  <1>10. need = z - LengthBytes /\ bytes_received = j /\ need <= size
    BY <1>1, <1>3, <1>4, <1>8, <1>9 DEF IInv, DecoderOK
  <1>11. PICK n : n = IF Len(data) < bytes_needed THEN Len(data) ELSE bytes_needed
    OBVIOUS
  <1>12. n = l /\ (j + n = need <=> o + l - 1 = z) /\ ~(j + l > size)
    <2>1. l <= need /\ j + l <= need
      BY <1>6, <1>7, <1>10
    <2>2. n = l
      BY <1>2, <1>8, <1>11, <2>1
    <2>3. j + l = need <=> o + l - 1 = z
      BY <1>6, <1>7, <1>10
    <2>4. ~(j + l > size)
      BY <1>10, <2>1
    <2> QED
      BY <2>2, <2>3, <2>4
  <1>13. PICK complete \in BOOLEAN : complete <=> bytes_received + n = bytes_needed
    OBVIOUS
  <1>14. /\ bytes_received' = bytes_received + n
         /\ bytes_needed' = IF bytes_received + n = bytes_needed THEN 0 ELSE bytes_needed
         /\ fault' = (bytes_received' > buffer_size)
         /\ Consume(n, bytes_received + n = bytes_needed)
    BY <1>11 DEF DecodeJpeg
  <1>15. SubSeq(data, 1, Len(data)) = data /\ SubSeq(data, Len(data) + 1, Len(data)) = << >>
    BY <1>1, DataHere, WholeMessage
  <1>15a. bytes_needed' = IF complete THEN 0 ELSE bytes_needed
    BY <1>13, <1>14
  <1>16. /\ data' = << >>
         /\ image' = IF complete THEN << >> ELSE image \o data
         /\ decoded' = IF complete THEN Append(decoded, [bytes |-> image \o data, coding |-> decoder])
                       ELSE decoded
    <2>1. n = Len(data)
      BY <1>2, <1>12
    <2>2. CASE complete
      BY <1>13, <1>14, <1>15, <2>1, <2>2 DEF Consume
    <2>3. CASE ~complete
      BY <1>13, <1>14, <1>15, <2>1, <2>3 DEF Consume
    <2> QED
      BY <2>2, <2>3
  <1>17. complete <=> data[1][2] + Len(data) - 1 = sent[Len(decoded) + 1].size
    BY <1>2, <1>4, <1>5, <1>8, <1>10, <1>12, <1>13
  <1>18. fault' = FALSE
    <2>1. PICK r \in Nat : r = bytes_received'
      BY <1>10, <1>12, <1>14
    <2>2. fault' = (r > size)
      BY <1>9, <2>1 DEF DecodeJpeg
    <2>3. ~(r > size)
      BY <1>10, <1>12, <1>14, <2>1
    <2>4. fault' \in BOOLEAN
      BY <2>2
    <2>5. ~fault'
      BY <2>2, <2>3
    <2> QED
      BY <2>4, <2>5
  <1>19. bytes_received' = bytes_received + Len(data)
    BY <1>2, <1>12, <1>14
  <1> QED
    BY <1>1, <1>15a, <1>16, <1>17, <1>18, <1>19, ConsumeKeeps

(* The larger of two numbers. *)
LEMMA MaxOfTwo ==
  ASSUME NEW a \in Nat, NEW b \in Nat
  PROVE  Max({a, b}) \in Nat /\ b <= Max({a, b}) /\ a <= Max({a, b})
  <1>1. \E x \in {a, b} : \A y \in {a, b} : x >= y
    <2>1. CASE a >= b
      BY <2>1
    <2>2. CASE b >= a
      BY <2>2
    <2> QED
      BY <2>1, <2>2
  <1>2. Max({a, b}) \in {a, b} /\ \A y \in {a, b} : Max({a, b}) >= y
    BY <1>1 DEF Max
  <1> QED
    BY <1>2

(* The length before a jpeg is at the beginning of a message, and whole. *)
LEMMA DecodeLengthKeeps ==
  ASSUME IInv, DecodeLength
  PROVE  IInv'
  <1>1. /\ ~fault /\ data # << >> /\ decoder.encoding = "jpeg" /\ bytes_needed = 0
        /\ UNCHANGED <<image, decoded, pc, request, encoding, frame_properties, encoder, pending,
                       buffered, wire, reply, open, sEncoding, sProperties, decoder, sent, sets>>
    BY DEF DecodeLength, Decoding, DecodeFrame
  <1>2. PICK c \in Seq(Byte) : c = data
    BY <1>1, DataHere
  <1>3. PICK s \in Frames : s = sent
    BY <1>1, DataHere
  <1>4. PICK D \in Nat : D = Len(decoded)
    BY <1>1, DataHere
  <1>5. PICK l \in Nat \ {0} : l = Len(c)
    BY <1>1, <1>2, DataHere
  <1>6. PICK z \in Nat : z = s[D + 1].size
    BY <1>1, <1>3, <1>4, DataHere
  <1>7. PICK L \in Nat \ {0} : L = LengthBytes
    BY ClientSourceAssumption
  <1>8. image = << >> /\ Len(image) = 0
    BY <1>1 DEF IInv, DecoderOK
  <1>9. c[1][1] = D + 1 /\ c[1][2] = 1 /\ D + 1 \in 1 .. Len(s) /\ Len(s) \in Nat
    <2>1. c[1][2] = 1 + 0 + 0
      BY <1>1, <1>2, <1>8, DataHere
    <2> QED
      BY <1>1, <1>2, <1>3, <1>4, <2>1, DataHere
  <1>10. PICK e : e = encoder
    OBVIOUS
  <1>11. e.encoding = "jpeg" /\ Piece(c, s, e) /\ decoder = e
    BY <1>1, <1>2, <1>3, <1>10, DataHere
  <1>12. l >= L /\ \A i \in 1 .. l : c[i] = <<D + 1, i>>
    <2>1. \A i \in 1 .. l : c[i] = <<D + 1, 1 + i - 1>>
      BY <1>5, <1>9, <1>11 DEF Piece
    <2>2. \A i \in 1 .. l : 1 + i - 1 = i
      OBVIOUS
    <2>3. (c[1][2] = 1 /\ l >= L) \/ c[1][2] > L
      BY <1>5, <1>7, <1>11 DEF Piece
    <2> QED
      BY <1>9, <2>1, <2>2, <2>3
  <1>13. IsLength
    <2>1. \A i \in 1 .. L : i \in 1 .. l
      BY <1>12
    <2> QED
      BY <1>2, <1>5, <1>7, <1>9, <1>12, <2>1 DEF IsLength
  <1>14. z > L
    BY <1>3, <1>6, <1>7, <1>9, <1>10, <1>11 DEF IInv, SentOK
  <1>15. PICK need \in Nat \ {0} : need = z - L
    BY <1>14
  <1>16. PICK size \in Nat : size = buffer_size
    BY DEF IInv, TypeOK
  <1>17. /\ bytes_needed' = need /\ bytes_received' = 0 /\ fault' = fault
         /\ buffer_size' \in Nat /\ need <= buffer_size'
         /\ data' = SubSeq(c, L + 1, Len(c))
    <2>1. /\ bytes_needed' = need
          /\ buffer_size' = Max({size, bytes_needed'}) /\ bytes_received' = 0 /\ fault' = fault
          /\ data' = SubSeq(c, L + 1, Len(c))
      BY <1>2, <1>3, <1>6, <1>7, <1>9, <1>13, <1>15, <1>16 DEF DecodeLength
    <2> QED
      BY <2>1, MaxOfTwo
  <1>18. PICK a : a = SubSeq(c, 1, L)
    OBVIOUS
  <1>19. PICK b : b = SubSeq(c, L + 1, Len(c))
    OBVIOUS
  <1>20. /\ b \in Seq(Byte)
         /\ L = Len(c) => b = << >>
         /\ L # Len(c) => /\ b # << >> /\ b[1] = <<c[1][1], c[1][2] + L>> /\ Piece(b, s, e)
                          /\ After(b, s) = After(c, s)
    <2>1. L \in 1 .. Len(c) /\ (e.encoding = "jpeg" /\ c[1][2] = 1 => L >= LengthBytes)
      BY <1>5, <1>7, <1>12
    <2>2. PICK m \in 1 .. Len(c) : m = L
      BY <2>1
    <2>3. Piece(c, s, e) /\ (e.encoding = "jpeg" /\ c[1][2] = 1 => m >= LengthBytes)
      BY <1>11, <2>1, <2>2
    <2>4. a = SubSeq(c, 1, m) /\ b = SubSeq(c, m + 1, Len(c))
      BY <1>18, <1>19, <2>2
    <2>5. CutsInTwo(c, m, s, e)
      BY <2>3, SplitPiece
    <2>6. /\ b \in Seq(Byte)
          /\ m = Len(c) => b = << >>
          /\ m # Len(c) => /\ b # << >> /\ b[1] = <<c[1][1], c[1][2] + m>> /\ Piece(b, s, e)
                           /\ After(b, s) = After(c, s)
      BY <2>4, <2>5 DEF CutsInTwo
    <2> QED
      BY <2>2, <2>6
  <1>21. data' = b
    BY <1>17, <1>19
  <1>22. TypeOK'
    BY <1>1, <1>17, <1>20, <1>21 DEF IInv, TypeOK
  <1>23. DataCount' = DataCount
    BY <1>1 DEF DataCount
  <1>24. WireOK'
    <2>1. reply = NULL
      BY <1>1 DEF IInv, WireOK
    <2> QED
      BY <1>1, <1>23, <2>1, ClientSourceAssumption DEF IInv, WireOK, Started, ReturnCode
  <1>25. PendingOK'
    BY <1>1 DEF IInv, PendingOK
  <1>26. Settled("setEncoding")' = Settled("setEncoding")
         /\ Settled("setFrameProperties")' = Settled("setFrameProperties")
    BY <1>1 DEF Settled
  <1>27. AgreeOK'
    BY <1>1, <1>26 DEF IInv, AgreeOK
  <1>28. CodingOK'
    BY <1>1, <1>23, <1>26 DEF IInv, CodingOK
  <1>29. SentOK'
    BY <1>1 DEF IInv, SentOK
  <1>30. FlowOK'
    <2>1. Expected' = <<D + 1, 1 + 0 + L>>
      BY <1>1, <1>4, <1>7, <1>8, <1>17 DEF Expected
    <2>2. 1 + 0 + L = 1 + L
      OBVIOUS
    <2>3. CASE L = Len(c)
      <3>1. After(c, s) = <<D + 1, 1 + L>>
        <4>1. 1 + L - 1 # z
          BY <1>14
        <4> QED
          BY <1>6, <1>9, <2>3, <4>1 DEF After
      <3>2. Unhandled' = Expected'
        BY <1>20, <1>21, <2>3 DEF Unhandled
      <3>3. Unhandled = After(c, s)
        BY <1>1, <1>2, <1>3, DataHere
      <3>4. Unhandled' = Unhandled
        BY <2>1, <2>2, <3>1, <3>2, <3>3
      <3> QED
        BY <1>1, <1>20, <1>21, <2>3, <3>4, FlowBehind DEF IInv
    <2>4. CASE L # Len(c)
      <3>1. b # << >> /\ b[1] = <<D + 1, 1 + L>> /\ Piece(b, s, e) /\ After(b, s) = After(c, s)
        BY <1>9, <1>20, <2>4
      <3>2. Unhandled' = After(b, s)
        BY <1>1, <1>3, <1>21, <3>1 DEF Unhandled
      <3>3. Unhandled = After(c, s)
        BY <1>1, <1>2, <1>3, DataHere
      <3>4. Unhandled' = Unhandled
        BY <3>1, <3>2, <3>3
      <3>5. Piece(data', sent, encoder) /\ data'[1] = Expected'
        BY <1>3, <1>10, <1>21, <2>1, <2>2, <3>1
      <3> QED
        BY <1>1, <3>4, <3>5, FlowBehind DEF IInv
    <2> QED
      BY <2>3, <2>4
  <1>31. DecoderOK'
    <2>1. Skip' = Skip /\ FramesInOrder' /\ NoOverrun'
      <3>1. Skip' = Skip
        BY <1>1 DEF Skip
      <3>2. FramesInOrder'
        BY <1>1 DEF IInv, DecoderOK, FramesInOrder, Body
      <3>3. NoOverrun'
        BY <1>1, <1>17 DEF NoOverrun
      <3> QED
        BY <3>1, <3>2, <3>3
    <2>2. D < Len(sent) /\ D <= Len(sent)
      BY <1>3, <1>9
    <2>3. \A i \in 1 .. Len(image) : FALSE
      BY <1>8
    <2>4. decoder # NULL /\ 0 < need
      BY <1>1, <1>15, DataHere
    <2> QED
      BY <1>1, <1>3, <1>4, <1>6, <1>7, <1>8, <1>15, <1>17, <2>1, <2>2, <2>3, <2>4 DEF DecoderOK
  <1> QED
    BY <1>22, <1>24, <1>25, <1>27, <1>28, <1>29, <1>30, <1>31 DEF IInv

-----------------------------------------------------------------------------
(* The theorems: every step keeps the invariant, of an application whose first frame fits. *)

(* The source is not open, and nothing is on its way. *)
LEMMA InitOK ==
  ASSUME Init
  PROVE  IInv
  <1>1. << >> \in Seq(Byte) /\ << >> \in Seq(Message) /\ Len(<< >>) = 0
    OBVIOUS
  <1>2. MaxFrames \in Nat /\ MaxSets \in Nat /\ 0 \in 0 .. MaxSets
    BY ClientSourceAssumption
  <1>3. TypeOK
    <2>1. request \in Request
      BY DEF Init, Request
    <2>2. buffered \in Seq(Byte) /\ data \in Seq(Byte) /\ image \in Seq(Byte) /\ wire \in Seq(Message)
      BY <1>1 DEF Init
    <2>3. sent \in Seq([coding : Coding, size : Nat])
          /\ decoded \in Seq([bytes : Seq(Byte), coding : Coding])
      BY DEF Init
    <2>4. {bytes_needed, bytes_received, buffer_size} \subseteq Nat
      BY DEF Init
    <2> QED
      BY <1>2, <2>1, <2>2, <2>3, <2>4 DEF Init, TypeOK
  <1>4. DataCount = 0
    BY DEF Init, DataCount
  <1>5. WireOK
    BY <1>4, ClientSourceAssumption DEF Init, WireOK, ReturnCode
  <1>6. PendingOK
    BY DEF Init, PendingOK
  <1>7. AgreeOK /\ CodingOK
    BY <1>4 DEF Init, AgreeOK, CodingOK, Settled
  <1>8. SentOK
    BY <1>2 DEF Init, SentOK
  <1>9. FlowOK
    BY <1>4 DEF Init, FlowOK, EndOfWire, Unhandled, Expected
  <1>10. DecoderOK
    BY DEF Init, DecoderOK, FramesInOrder, NoOverrun
  <1> QED
    BY <1>3, <1>5, <1>6, <1>7, <1>8, <1>9, <1>10 DEF IInv

(* A step of either program keeps it. *)
LEMMA NextOK ==
  ASSUME IInv, ~EarlyMisfit, [Next]_vars
  PROVE  IInv'
  <1>1. CASE UNCHANGED vars
    <2>1. /\ UNCHANGED <<pc, request, encoding, frame_properties, encoder, pending, buffered,
                         wire, reply, open, sEncoding, sProperties, decoder, data, image, fault,
                         decoded, sent, sets>>
          /\ UNCHANGED <<bytes_needed, bytes_received, buffer_size>>
      BY <1>1 DEF vars
    <2>2. DataCount' = DataCount
      BY <2>1 DEF DataCount
    <2>3. TypeOK' /\ WireOK' /\ PendingOK'
      BY <2>1, <2>2 DEF IInv, TypeOK, WireOK, PendingOK, Started
    <2>4. AgreeOK' /\ CodingOK'
      BY <2>1, <2>2 DEF IInv, AgreeOK, CodingOK, Settled
    <2>5. FlowOK'
      BY <2>1, <2>2, FlowKept DEF IInv
    <2>6. SentOK' /\ DecoderOK'
      BY <2>1, DecoderKept DEF IInv
    <2> QED
      BY <2>3, <2>4, <2>5, <2>6 DEF IInv
  <1>2. CASE New \/ Destroy
    BY <1>2, CallKeeps
  <1>3. CASE \E e \in Encoding : SetEncoding(e)
    BY <1>3, CallKeeps
  <1>4. CASE \E p \in Props : SetFrameProperties(p)
    BY <1>4, CallKeeps
  <1>5. CASE \E p \in Props : SendFrame(p)
    BY <1>5, SendFrameKeeps
  <1>6. CASE NewDone \/ SetEncodingDone \/ SetFramePropertiesDone \/ DestroyDone
    BY <1>6, NewDoneKeeps, AnsweredKeeps
  <1>7. CASE Refuse \/ Encode \/ Drain
    BY <1>7, RefuseKeeps, EncodeKeeps, DrainKeeps
  <1>8. CASE ROpen \/ RSetEncoding \/ RSetFrameProperties \/ RClose
    BY <1>8, HandlerKeeps
  <1>9. CASE RData \/ DecodeRaw \/ DecodeLength \/ DecodeJpeg
    BY <1>9, RDataKeeps, DecodeRawKeeps, DecodeLengthKeeps, DecodeJpegKeeps
  <1> QED
    BY <1>1, <1>2, <1>3, <1>4, <1>5, <1>6, <1>7, <1>8, <1>9 DEF Next, ClientStep, ClientCall, ServerStep

(* The invariant holds of every state. *)
THEOREM ClientSourceInvariant ==
  ASSUME ~EarlyMisfit
  PROVE  Spec => []IInv
  <1>1. Init => IInv
    BY InitOK
  <1>2. IInv /\ [Next]_vars => IInv'
    BY NextOK
  <1> QED
    BY <1>1, <1>2, PTL DEF Spec

(* Types. *)
THEOREM ClientSourceTypes ==
  ASSUME ~EarlyMisfit
  PROVE  Spec => []TypeOK
  <1>1. IInv => TypeOK
    BY DEF IInv
  <1> QED
    BY <1>1, ClientSourceInvariant, PTL

(* The server's jpeg decoder (lib/encodings/jpeg.c) reads no length but the one the client
   sent, and never writes past its buffer, for jpegs and payloads of any size. *)
THEOREM DecoderStaysInside ==
  ASSUME ~EarlyMisfit
  PROVE  Spec => []NoOverrun
  <1>1. IInv => NoOverrun
    BY DEF IInv, DecoderOK
  <1> QED
    BY <1>1, ClientSourceInvariant, PTL

(* Every frame that SVR_Source_sendFrame sends is decoded by SVRD_Source_provideData with all
   its bytes and only those, and in the order of sending. *)
THEOREM FramesKeepTheirBytes ==
  ASSUME ~EarlyMisfit
  PROVE  Spec => []FramesInOrder
  <1>1. IInv => FramesInOrder
    BY DEF IInv, DecoderOK
  <1> QED
    BY <1>1, ClientSourceInvariant, PTL

(* The encoding and the properties a frame is decoded with are those it was encoded with,
   whatever changes were asked for, accepted and refused before. *)
THEOREM EndsAgree ==
  ASSUME ~EarlyMisfit
  PROVE  Spec => []EncodedAsAgreed
  <1>1. IInv => EncodedAsAgreed
    <2> SUFFICES ASSUME IInv, data # << >>
                 PROVE  decoder = sent[data[1][1]].coding
      BY DEF EncodedAsAgreed
    <2>1. decoder = encoder /\ data[1][1] \in 1 .. Len(sent)
      BY DataHere
    <2> QED
      BY <2>1 DEF IInv, SentOK
  <1> QED
    BY <1>1, ClientSourceInvariant, PTL
=============================================================================
