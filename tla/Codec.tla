-------------------------------- MODULE Codec --------------------------------
(***************************************************************************)
(* An encoder's output buffer and the decoder at the other end of the      *)
(* connection.  An encoding provides its data in pieces of any size; the   *)
(* sender reads what is there in chunks no larger than its payload buffer  *)
(* and sends each as a Data message (server/stream.c, lib/source.c), which *)
(* the receiver decodes.  Messages arrive intact and in order (Wire).      *)
(*                                                                         *)
(* The bytes of the stream are numbered, so that where each ends up can be *)
(* told.  For the raw encoding they are those of the images; a jpeg's are  *)
(* those of its rows, with compression and its inverse left out.           *)
(***************************************************************************)
EXTENDS Naturals, Sequences, FiniteSets

CONSTANTS RowBytes, Padding, Height, Junk,
          MaxBytes,     \* bound: bytes of the stream
          MaxProvide,   \* bound: bytes of one piece
          MaxBuffered,  \* bound: bytes in the encoder's buffer
          MaxHeld       \* bound: frames the application holds at once

ASSUME CodecAssumption ==
  /\ {Padding, MaxBytes, MaxProvide, MaxBuffered, MaxHeld} \subseteq Nat
  /\ {RowBytes, Height} \subseteq Nat \ {0}
  /\ Junk \notin Nat

VARIABLES buffer, buffer_size, read_index, write_index, out,
          free_frames, ready_frames, write_offset, pixels, held, padded, pc, short, todo,
          taken, written,
          provided   \* bytes that the encoding has provided so far

Byte   == 0 .. MaxBytes - 1
Piece(first, n) == [i \in 1 .. n |-> first + i - 1]
Pieces == {Piece(first, n) : first \in Byte, n \in 0 .. MaxProvide}

E == INSTANCE EncoderBuffer
D == INSTANCE Decoder

encVars == <<buffer, buffer_size, read_index, write_index, out>>
decVars == <<free_frames, ready_frames, write_offset, pixels, held, padded, pc, short, todo,
             taken, written>>
vars    == <<encVars, decVars, provided>>

Init == E!Init /\ D!Init /\ provided = 0

\* An encoding's encode calls SVR_Encoder_provideData.
Encode(n) == /\ provided + n <= MaxBytes
             /\ E!ProvideData(Piece(provided, n))
             /\ provided' = provided + n
             /\ UNCHANGED decVars

\* A Data message: SVR_Encoder_readData into the sender's payload buffer,
\* SVR_Decoder_decode of the payload that arrives.  The decoding thread has taken
\* all the frames of earlier messages.
Transfer(n) == /\ E!DataReady > 0 /\ ready_frames = << >>
               /\ E!ReadData(n)
               /\ D!Decode(out')
               /\ UNCHANGED provided

DecodeStep == D!DecodeStep /\ UNCHANGED <<encVars, provided>>
GetFrame   == /\ Cardinality(held) < MaxHeld
              /\ D!GetFrame /\ UNCHANGED <<encVars, provided>>
ReturnFrame(f) == D!ReturnFrame(f) /\ UNCHANGED <<encVars, provided>>

Next == \/ \E n \in 1 .. MaxProvide : Encode(n)
        \/ \E n \in 1 .. MaxBuffered : Transfer(n)
        \/ DecodeStep \/ GetFrame
        \/ \E f \in held : ReturnFrame(f)

Spec == Init /\ [][Next]_vars
-----------------------------------------------------------------------------
TypeOK == E!TypeOK /\ D!TypeOK /\ provided \in 0 .. MaxBytes

\* The encoder's ring is a FIFO of the bytes provided, across wraps, growth in place
\* and growth of a wrapped ring (SVR_Encoder_provideData, SVR_Encoder_readData).
ImplementsFifo == E!ImplementsFifo

\* However the stream is cut into pieces and messages, and whenever images come back
\* during a write, the frames that are ready or with the application hold their own
\* bytes, in their rows and in order, and none is late (writePaddedFrameData,
\* writeUnpaddedFrameData, getCurrentFrame, returnFrame).
FramesWhole == D!FramesWhole
=============================================================================
