---------------------------- MODULE ClientSource ----------------------------
(***************************************************************************)
(* A client source: frames that a client program sends to the server.      *)
(* Two programs keep its encoding and frame properties:                    *)
(*                                                                         *)
(*   the client (lib/source.c)  asks the server for each change, waits for *)
(*            the reply, and opens its encoder at the first frame;         *)
(*   the server (server/source.c, server/messagehandlers.c)  accepts       *)
(*            changes until its decoder exists, which the first Data opens.*)
(*                                                                         *)
(* The encoded frames travel in Data messages that have no reply, after    *)
(* one another on the client's connection.  The framing of the encodings   *)
(* is modelled byte for byte: raw frames follow one another, a jpeg is     *)
(* preceded by its length (lib/encodings/jpeg.c).  A byte is <<k, i>>, the *)
(* i-th byte of the k-th frame sent; compression is left out, but for the  *)
(* size it leads to.                                                       *)
(***************************************************************************)
EXTENDS Naturals, Sequences, FiniteSetsExt

CONSTANTS Props,        \* frame properties, by the size of their images in bytes
          JpegSizes,    \* the sizes that an image may be compressed to
          LengthBytes,  \* sizeof(uint32_t): the length before a jpeg
          PayloadSize,  \* source->payload_buffer_size
          MaxFrames,    \* bound: frames sent
          MaxSets,      \* bound: calls of setEncoding and setFrameProperties
          EarlyMisfit,  \* the application may send a frame that does not fit before
                        \* any that does
          NULL

Encoding   == {"jpeg", "raw"}
Coding     == [encoding : Encoding, props : Props]
ReturnCode == {"SUCCESS", "INVALIDSTATE", "NAMECLASH"}

\* A payload holds 4 kB: a length fits.
ASSUME ClientSourceAssumption ==
  /\ Props \cup JpegSizes \cup {LengthBytes, PayloadSize} \subseteq Nat \ {0}
  /\ LengthBytes <= PayloadSize
  /\ {MaxFrames, MaxSets} \subseteq Nat
  /\ EarlyMisfit \in BOOLEAN
  /\ NULL \notin Props /\ NULL \notin Encoding /\ NULL \notin Coding /\ NULL \notin ReturnCode

VARIABLES
  \* The client (SVR_Source)
  pc,         \* where the application's thread is
  request,    \* the request it waits for, or the next to make
  encoding, frame_properties,
  encoder,    \* what source->encoder was opened with, or NULL
  pending,    \* the frame to send once its properties are set, or NULL
  buffered,   \* the encoder's output buffer
  \* The connection
  wire,       \* messages on their way to the server
  reply,      \* the return code on its way to the client, or NULL
  \* The server (SVRD_Source)
  open, sEncoding, sProperties,
  decoder,    \* what source->decoder was opened with, or NULL
  data,       \* what is left of the Data message at hand
  bytes_needed, bytes_received, buffer_size,   \* SVR_JpegDecoder
  image,      \* the bytes of the frame that is being received
  fault,      \* the decoder read past the message or wrote past its buffer
  \* What has happened
  sent,       \* the frames sent: their encoding, properties and size
  decoded,    \* the frames decoded: their bytes, and what for
  sets        \* counter for the bound

client == <<pc, request, encoding, frame_properties, encoder, pending, buffered>>
jpeg   == <<bytes_needed, bytes_received, buffer_size>>
server == <<open, sEncoding, sProperties, decoder, data, jpeg, image, fault, decoded>>
vars   == <<client, wire, reply, server, sent, sets>>

Byte    == (1 .. MaxFrames) \X Nat
Request == [kind : {"open", "close"}] \cup [kind : {"setEncoding"}, arg : Encoding]
             \cup [kind : {"setFrameProperties"}, arg : Props]
Message == Request \cup [kind : {"data"}, payload : Seq(Byte)]

TypeOK == /\ pc \in {"new", "waiting", "idle", "ready", "draining", "gone"}
          /\ request \in Request
          /\ encoding \in Encoding \cup {NULL} /\ sEncoding \in Encoding \cup {NULL}
          /\ frame_properties \in Props \cup {NULL} /\ sProperties \in Props \cup {NULL}
          /\ encoder \in Coding \cup {NULL} /\ decoder \in Coding \cup {NULL}
          /\ pending \in Props \cup {NULL}
          /\ buffered \in Seq(Byte) /\ data \in Seq(Byte) /\ image \in Seq(Byte)
          /\ wire \in Seq(Message)
          /\ reply \in ReturnCode \cup {NULL}
          /\ open \in BOOLEAN /\ fault \in BOOLEAN
          /\ {bytes_needed, bytes_received, buffer_size} \subseteq Nat
          /\ sent \in Seq([coding : Coding, size : Nat])
          /\ decoded \in Seq([bytes : Seq(Byte), coding : Coding])
          /\ sets \in 0 .. MaxSets

Init == /\ pc = "new" /\ request = [kind |-> "open"]
        /\ encoding = NULL /\ frame_properties = NULL /\ encoder = NULL
        /\ pending = NULL /\ buffered = << >>
        /\ wire = << >> /\ reply = NULL
        /\ open = FALSE /\ sEncoding = NULL /\ sProperties = NULL /\ decoder = NULL
        /\ data = << >> /\ image = << >>
        /\ bytes_needed = 0 /\ bytes_received = 0 /\ buffer_size = 0
        /\ fault = FALSE /\ sent = << >> /\ decoded = << >> /\ sets = 0

-----------------------------------------------------------------------------
(* The client. *)

Ask(r) == /\ request' = r /\ pc' = "waiting"
          /\ wire' = Append(wire, r)
          /\ UNCHANGED <<reply, server>>

\* SVR_Source_new: Source.open, then the encoding is set to jpeg.  Its second attempt,
\* with raw, is for a library without jpeg: a source that was just opened has not started.
New == /\ pc = "new"
       /\ Ask([kind |-> "open"])
       /\ UNCHANGED <<encoding, frame_properties, encoder, pending, buffered, sent, sets>>

Answered(kind) == /\ pc = "waiting" /\ reply # NULL /\ request.kind = kind
                  /\ reply' = NULL
                  /\ UNCHANGED <<encoder, buffered, server, sent, sets>>

NewDone == /\ Answered("open")
           /\ IF reply = "SUCCESS"
                THEN /\ request' = [kind |-> "setEncoding", arg |-> "jpeg"]
                     /\ wire' = Append(wire, request')
                     /\ UNCHANGED pc
                ELSE pc' = "gone" /\ UNCHANGED <<request, wire>>
           /\ UNCHANGED <<encoding, frame_properties, pending>>

\* SVR_Source_setEncoding, of an encoding that the library has.
SetEncoding(e) == /\ pc = "idle" /\ sets < MaxSets
                  /\ Ask([kind |-> "setEncoding", arg |-> e])
                  /\ sets' = sets + 1
                  /\ UNCHANGED <<encoding, frame_properties, encoder, pending, buffered, sent>>

SetEncodingDone == /\ Answered("setEncoding")
                   /\ encoding' = IF reply = "SUCCESS" THEN request.arg ELSE encoding
                   /\ pc' = "idle"
                   /\ UNCHANGED <<request, frame_properties, pending, wire>>

\* SVR_Source_setFrameProperties
SetFrameProperties(p) ==
  /\ pc = "idle" /\ sets < MaxSets
  /\ Ask([kind |-> "setFrameProperties", arg |-> p])
  /\ sets' = sets + 1
  /\ UNCHANGED <<encoding, frame_properties, encoder, pending, buffered, sent>>

\* It returns to the application, or to SVR_Source_sendFrame, which gives up when
\* it failed.
SetFramePropertiesDone ==
  /\ Answered("setFrameProperties")
  /\ frame_properties' = IF reply = "SUCCESS" THEN request.arg ELSE frame_properties
  /\ pc' = IF pending # NULL /\ reply = "SUCCESS" THEN "ready" ELSE "idle"
  /\ pending' = IF reply = "SUCCESS" THEN pending ELSE NULL
  /\ UNCHANGED <<request, encoding, wire>>

\* Mutant: properties that were not set are not derived from the frame.
SendFrameUnset(p) ==
  /\ pc = "idle" /\ encoding # NULL /\ Len(sent) < MaxFrames
  /\ EarlyMisfit \/ encoder # NULL \/ frame_properties \in {NULL, p}
  /\ pending' = p
  /\ pc' = "ready"
  /\ UNCHANGED <<request, wire, reply, server>>
  /\ UNCHANGED <<encoding, frame_properties, encoder, buffered, sent, sets>>

\* SVR_Source_sendFrame: properties that were not set are those of the frame.
SendFrame(p) ==
  /\ pc = "idle" /\ encoding # NULL /\ Len(sent) < MaxFrames
  /\ EarlyMisfit \/ encoder # NULL \/ frame_properties \in {NULL, p}
  /\ pending' = p
  /\ IF frame_properties = NULL
       THEN Ask([kind |-> "setFrameProperties", arg |-> p])
       ELSE pc' = "ready" /\ UNCHANGED <<request, wire, reply, server>>
  /\ UNCHANGED <<encoding, frame_properties, encoder, buffered, sent, sets>>

\* What an encoder puts in its buffer for a frame that is encoded to n bytes.
Encoded(n) == [i \in 1 .. n |-> <<Len(sent) + 1, i>>]

\* The encoder is opened once, whether the frame fits or not.
OpenEncoder == encoder' = IF encoder = NULL
                            THEN [encoding |-> encoding, props |-> frame_properties] ELSE encoder

\* A frame that does not fit the properties is refused ...
Refuse == /\ pc = "ready" /\ pending # frame_properties
          /\ OpenEncoder
          /\ pc' = "idle" /\ pending' = NULL
          /\ UNCHANGED <<request, encoding, frame_properties, buffered, wire, reply, server, sent,
                         sets>>

\* ... and any other encoded: raw is the image, jpeg its length and the compressed image.
Encode ==
  /\ pc = "ready" /\ pending = frame_properties
  /\ OpenEncoder
  /\ \E n \in IF encoder'.encoding = "raw" THEN {pending} ELSE {LengthBytes + s : s \in JpegSizes} :
       /\ buffered' = buffered \o Encoded(n)
       /\ sent' = Append(sent, [coding |-> encoder', size |-> n])
  /\ pc' = "draining" /\ pending' = NULL
  /\ UNCHANGED <<request, encoding, frame_properties, wire, reply, server, sets>>

Chunk == IF Len(buffered) < PayloadSize THEN Len(buffered) ELSE PayloadSize

\* Mutant: at most one payload is sent, and the rest with the next frame.
DrainOnce == /\ pc = "draining" /\ buffered # << >>
             /\ wire' = Append(wire, [kind |-> "data", payload |-> SubSeq(buffered, 1, Chunk)])
             /\ buffered' = SubSeq(buffered, Chunk + 1, Len(buffered))
             /\ pc' = "idle"
             /\ UNCHANGED <<request, encoding, frame_properties, encoder, pending, reply, server,
                            sent, sets>>

\* All the encoded data goes out, a payload at a time.
Drain == /\ pc = "draining" /\ buffered # << >>
         /\ wire' = Append(wire, [kind |-> "data", payload |-> SubSeq(buffered, 1, Chunk)])
         /\ buffered' = SubSeq(buffered, Chunk + 1, Len(buffered))
         /\ pc' = IF buffered' = << >> THEN "idle" ELSE "draining"
         /\ UNCHANGED <<request, encoding, frame_properties, encoder, pending, reply, server,
                        sent, sets>>

\* SVR_Source_destroy
Destroy == /\ pc = "idle"
           /\ Ask([kind |-> "close"])
           /\ UNCHANGED <<encoding, frame_properties, encoder, pending, buffered, sent, sets>>

DestroyDone == /\ Answered("close")
               /\ pc' = "gone"
               /\ UNCHANGED <<request, encoding, frame_properties, pending, wire>>

-----------------------------------------------------------------------------
(* The server: the client's thread handles one message after the other. *)

Receive(kind) == /\ ~fault /\ data = << >> /\ wire # << >>
                 /\ Head(wire).kind = kind
                 /\ wire' = Tail(wire)
                 /\ UNCHANGED <<client, sent, sets>>

Arg == Head(wire).arg

\* SVRD_Source_rOpen: the name may be taken; a new source has the jpeg encoding.
ROpen == /\ Receive("open")
         /\ \/ /\ open' = TRUE /\ sEncoding' = "jpeg" /\ reply' = "SUCCESS"
            \/ /\ reply' = "NAMECLASH" /\ UNCHANGED <<open, sEncoding>>
         /\ UNCHANGED <<sProperties, decoder, data, jpeg, image, fault, decoded>>

Started == decoder # NULL

\* SVRD_Source_setEncoding: not once the source has started.
RSetEncoding == /\ Receive("setEncoding")
                /\ sEncoding' = IF Started THEN sEncoding ELSE Arg
                /\ reply' = IF Started THEN "INVALIDSTATE" ELSE "SUCCESS"
                /\ UNCHANGED <<open, sProperties, decoder, data, jpeg, image, fault, decoded>>

\* Mutant: properties that were set once are kept.
RSetFramePropertiesOnce ==
  /\ Receive("setFrameProperties")
  /\ sProperties' = IF sProperties # NULL THEN sProperties ELSE Arg
  /\ reply' = IF Started THEN "INVALIDSTATE" ELSE "SUCCESS"
  /\ UNCHANGED <<open, sEncoding, decoder, data, jpeg, image, fault, decoded>>

\* SVRD_Source_setFrameProperties
RSetFrameProperties == /\ Receive("setFrameProperties")
                       /\ sProperties' = IF Started THEN sProperties ELSE Arg
                       /\ reply' = IF Started THEN "INVALIDSTATE" ELSE "SUCCESS"
                       /\ UNCHANGED <<open, sEncoding, decoder, data, jpeg, image, fault, decoded>>

\* SVRD_Source_provideData: the first data opens the decoder, once encoding and
\* properties are known; it is ignored before.
RData == /\ Receive("data")
         /\ IF Started \/ (sEncoding # NULL /\ sProperties # NULL)
              THEN /\ decoder' = IF Started THEN decoder
                                 ELSE [encoding |-> sEncoding, props |-> sProperties]
                   /\ data' = Head(wire).payload
              ELSE UNCHANGED <<decoder, data>>
         /\ UNCHANGED <<reply, open, sEncoding, sProperties, jpeg, image, fault, decoded>>

\* SVRD_Source_rClose
RClose == /\ Receive("close")
          /\ open' = FALSE /\ reply' = "SUCCESS"
          /\ UNCHANGED <<sEncoding, sProperties, decoder, data, jpeg, image, fault, decoded>>

\* n bytes of the message go to the frame that is being received; when they complete
\* it, it is decoded and the next begins.
Consume(n, complete) ==
  LET bytes == image \o SubSeq(data, 1, n)
  IN  /\ data' = SubSeq(data, n + 1, Len(data))
      /\ image' = IF complete THEN << >> ELSE bytes
      /\ decoded' = IF complete THEN Append(decoded, [bytes |-> bytes, coding |-> decoder])
                                ELSE decoded

Decoding(e) == ~fault /\ data # << >> /\ decoder.encoding = e

DecodeFrame == UNCHANGED <<client, wire, reply, open, sEncoding, sProperties, decoder, sent, sets>>

\* Mutant: the end of a message is taken for the end of a frame.
DecodeRawPerMessage == /\ Decoding("raw")
                       /\ Consume(Len(data), TRUE)
                       /\ UNCHANGED <<jpeg, fault>>
                       /\ DecodeFrame

\* One round of SVR_Decoder_writePaddedFrameData, for raw.
DecodeRaw == /\ Decoding("raw")
             /\ LET left == decoder.props - Len(image)
                    n    == IF left < Len(data) THEN left ELSE Len(data)
                IN  Consume(n, n = left)
             /\ UNCHANGED <<jpeg, fault>>
             /\ DecodeFrame

\* The length that the first bytes of a message are read as: of a jpeg if they are the
\* length sent before it.
IsLength == /\ Len(data) >= LengthBytes
            /\ \A i \in 1 .. LengthBytes : data[i] = <<data[1][1], i>>

\* jpeg decode: the length, which is read as a whole ...
DecodeLength ==
  /\ Decoding("jpeg") /\ bytes_needed = 0
  /\ IF IsLength
       THEN /\ bytes_needed' = sent[data[1][1]].size - LengthBytes
            /\ buffer_size' = Max({buffer_size, bytes_needed'})
            /\ bytes_received' = 0
            /\ data' = SubSeq(data, LengthBytes + 1, Len(data))
            /\ UNCHANGED fault
       ELSE fault' = TRUE /\ UNCHANGED <<jpeg, data>>
  /\ UNCHANGED <<image, decoded>>
  /\ DecodeFrame

\* ... and the image: a chunk is bounded by what is needed in all.
DecodeJpeg ==
  /\ Decoding("jpeg") /\ bytes_needed > 0
  /\ LET chunk_size == IF Len(data) < bytes_needed THEN Len(data) ELSE bytes_needed
         complete   == bytes_received + chunk_size = bytes_needed
     IN  /\ bytes_received' = bytes_received + chunk_size
         /\ bytes_needed' = IF complete THEN 0 ELSE bytes_needed
         /\ fault' = (bytes_received' > buffer_size)
         /\ Consume(chunk_size, complete)
  /\ UNCHANGED buffer_size
  /\ DecodeFrame

-----------------------------------------------------------------------------
ClientStep == \/ New \/ NewDone \/ SetEncodingDone \/ SetFramePropertiesDone
              \/ Refuse \/ Encode \/ Drain \/ DestroyDone
ClientCall == \/ \E e \in Encoding : SetEncoding(e)
              \/ \E p \in Props : SetFrameProperties(p) \/ SendFrame(p)
              \/ Destroy
ServerStep == \/ ROpen \/ RSetEncoding \/ RSetFrameProperties \/ RData \/ RClose
              \/ DecodeRaw \/ DecodeLength \/ DecodeJpeg

Next == ClientStep \/ ClientCall \/ ServerStep

Spec == Init /\ [][Next]_vars

(* Both programs run; nobody need call anything. *)
FairSpec == Spec /\ WF_vars(ClientStep) /\ WF_vars(ServerStep)
-----------------------------------------------------------------------------
(* Properties. *)

\* The jpeg decoder never takes a length from other bytes or past the end of a
\* message, nor writes past its buffer, though it bounds a chunk by the whole frame
\* and not by what is missing of it: no message holds parts of two frames.
NoOverrun == ~fault

\* The bytes of the k-th frame, as its decoder gets them.
Body(k) == LET skip == IF sent[k].coding.encoding = "jpeg" THEN LengthBytes ELSE 0
           IN  [i \in 1 .. sent[k].size - skip |-> <<k, skip + i>>]

\* The frames decoded are the frames sent, in order, none skipped or merged, each
\* with all its bytes.
FramesInOrder == \A k \in 1 .. Len(decoded) : decoded[k].bytes = Body(k)

\* The server decodes each frame with the encoding and the properties that the client
\* encoded it with: what SVR_Source_setEncoding and SVR_Source_setFrameProperties
\* accepted is in force at both ends.
EncodedAsAgreed == data # << >> => decoder = sent[data[1][1]].coding

\* Every frame that SVR_Source_sendFrame accepted reaches the server's streams.
AllDecoded == \A k \in 1 .. MaxFrames : (Len(sent) >= k) ~> (Len(decoded) >= k)
=============================================================================
