------------------------------- MODULE Decoder -------------------------------
(***************************************************************************)
(* An SVR_Decoder (lib/encoding.c): frame data arrives in chunks of any    *)
(* size and fills images, which are recycled.  Two threads:                *)
(*                                                                         *)
(*   the decoding thread   runs SVR_Decoder_decode on each Data message    *)
(*                         and takes the frames that are ready;            *)
(*   the application       returns frames, at any moment.                  *)
(*                                                                         *)
(* An encoding hands its data on with writePaddedFrameData (raw), which    *)
(* holds the decoder's lock in its loop, or with writeUnpaddedFrameData    *)
(* (jpeg), which does not: one action per round of each loop, and          *)
(* getCurrentFrame takes two where it finds no free image.                 *)
(***************************************************************************)
EXTENDS Naturals, Sequences

CONSTANTS RowBytes,   \* width * nChannels
          Padding,    \* bytes that cvCreateImage adds to each row
          Height,     \* rows of an image
          Byte,       \* the values of a byte
          Junk        \* image memory that nobody wrote

VARIABLES free_frames,   \* decoder->free_frames; the first is being written
          ready_frames,  \* decoder->ready_frames
          write_offset,  \* decoder->write_offset
          pixels,        \* the data of each image made so far
          held,          \* the frames taken with getFrame and not returned
          padded,        \* the encoding calls writePaddedFrameData
          pc,            \* where the decoding thread is
          short,         \* getCurrentFrame has seen an empty free_frames
          todo,          \* data + offset, n - offset: what is left of the call's data
          taken,         \* frames taken so far
          written        \* bytes written so far

lists == <<free_frames, ready_frames>>
vars  == <<lists, write_offset, pixels, held, padded, pc, short, todo, taken, written>>

WidthStep  == RowBytes + Padding
ImageSize  == WidthStep * Height

\* SVR_Decoder_new
Init == /\ free_frames = << >> /\ ready_frames = << >>
        /\ write_offset = 0
        /\ pixels = << >>
        /\ held = {}
        /\ padded \in BOOLEAN
        /\ pc = "idle" /\ short = FALSE /\ todo = << >>
        /\ taken = 0 /\ written = 0

\* SVR_Decoder_decode: the encoding's decode has frame data for the decoder.
Decode(data) == /\ pc = "idle"
                /\ todo' = data
                /\ pc' = "first"
                /\ UNCHANGED <<lists, write_offset, pixels, held, padded, short, taken, written>>

\* SVR_Decoder_getCurrentFrame tests the size of the list ...
NoneFree == /\ pc = "first" \/ (pc # "idle" /\ todo # << >>)
            /\ ~short /\ free_frames = << >>
            /\ short' = TRUE
            /\ UNCHANGED <<lists, write_offset, pixels, held, padded, pc, todo, taken, written>>

\* ... and appends a new image; one that was returned in between comes first.
NewImage == /\ short
            /\ pixels' = Append(pixels, [o \in 0 .. ImageSize - 1 |-> Junk])
            /\ free_frames' = Append(free_frames, Len(pixels) + 1)
            /\ short' = FALSE
            /\ UNCHANGED <<ready_frames, write_offset, held, padded, pc, todo, taken, written>>

HasFrame == ~short /\ free_frames # << >>

\* Either function asks for the current frame before its loop; the one for rows
\* without padding leaves an image without padding to the other.
Enter == /\ pc = "first" /\ HasFrame
         /\ pc' = IF padded \/ Padding = 0 THEN "padded" ELSE "unpadded"
         /\ UNCHANGED <<lists, write_offset, pixels, held, padded, short, todo, taken, written>>

\* The copy of the next n bytes to the image that is being written.
Copy(n) == /\ pixels' = [pixels EXCEPT ![Head(free_frames)] =
                           [o \in DOMAIN @ |-> IF o \in write_offset .. write_offset + n - 1
                                                 THEN todo[o - write_offset + 1] ELSE @[o]]]
           /\ todo' = SubSeq(todo, n + 1, Len(todo))
           /\ written' = written + n

\* SVR_Decoder_currentFrameComplete, when the offset has come round to 0.
Complete(offset) ==
  /\ write_offset' = offset
  /\ ready_frames' = IF offset = 0 THEN Append(ready_frames, Head(free_frames)) ELSE ready_frames
  /\ free_frames'  = IF offset = 0 THEN Tail(free_frames) ELSE free_frames

\* One round of SVR_Decoder_writePaddedFrameData.
WritePadded ==
  /\ pc = "padded" /\ todo # << >> /\ HasFrame
  /\ LET left       == ImageSize - write_offset
         chunk_size == IF left < Len(todo) THEN left ELSE Len(todo)
     IN  /\ Copy(chunk_size)
         /\ Complete((write_offset + chunk_size) % ImageSize)
  /\ UNCHANGED <<held, padded, pc, short, taken>>

\* Skip padding at the end of a line.
PastPadding(offset) ==
  IF offset % WidthStep = RowBytes THEN (offset + Padding) % ImageSize ELSE offset

\* One round of SVR_Decoder_writeUnpaddedFrameData.
WriteUnpadded ==
  /\ pc = "unpadded" /\ todo # << >> /\ HasFrame
  /\ LET row_width_remaining == RowBytes - (write_offset % WidthStep)
         copy_size == IF row_width_remaining < Len(todo) THEN row_width_remaining ELSE Len(todo)
     IN  /\ Copy(copy_size)
         /\ Complete(PastPadding(write_offset + copy_size))
  /\ UNCHANGED <<held, padded, pc, short, taken>>

\* The loop ends and the call returns.
Return == /\ pc \in {"padded", "unpadded"} /\ todo = << >>
          /\ pc' = "idle"
          /\ UNCHANGED <<lists, write_offset, pixels, held, padded, short, todo, taken, written>>

\* SVR_Decoder_getFrame, which the decoding thread calls after each decode.
GetFrame == /\ pc = "idle" /\ ready_frames # << >>
            /\ held' = held \cup {[image |-> Head(ready_frames), frame |-> taken]}
            /\ ready_frames' = Tail(ready_frames)
            /\ taken' = taken + 1
            /\ UNCHANGED <<free_frames, write_offset, pixels, padded, pc, short, todo, written>>

\* Who decodes has the decoder's lock: the loop for padded data, and the call of
\* getCurrentFrame in getRowPadding, with which the other function begins.
Locked == pc = "padded" \/ (pc = "first" /\ short /\ ~padded)

\* Mutant: the image that is returned is the next to be written to.
ReturnFrameFirst(f) ==
  /\ f \in held
  /\ ~Locked
  /\ held' = held \ {f}
  /\ free_frames' = <<f.image>> \o free_frames
  /\ UNCHANGED <<ready_frames, write_offset, pixels, padded, pc, short, todo, taken, written>>

\* SVR_Decoder_returnFrame waits for the lock.
ReturnFrame(f) ==
  /\ f \in held
  /\ ~Locked
  /\ held' = held \ {f}
  /\ free_frames' = Append(free_frames, f.image)
  /\ UNCHANGED <<ready_frames, write_offset, pixels, padded, pc, short, todo, taken, written>>

DecodeStep == NoneFree \/ NewImage \/ Enter \/ WritePadded \/ WriteUnpadded \/ Return

-----------------------------------------------------------------------------
TypeOK == /\ pixels \in Seq([0 .. ImageSize - 1 -> Byte \cup {Junk}])
          /\ free_frames \in Seq(DOMAIN pixels) /\ ready_frames \in Seq(DOMAIN pixels)
          /\ held \subseteq [image : DOMAIN pixels, frame : Nat]
          /\ write_offset \in 0 .. ImageSize - 1
          /\ padded \in BOOLEAN /\ short \in BOOLEAN
          /\ pc \in {"idle", "first", "padded", "unpadded"}
          /\ todo \in Seq(Byte)
          /\ taken \in Nat /\ written \in Nat

FrameBytes == IF padded THEN ImageSize ELSE RowBytes * Height

\* The image holds the k-th frame of a stream of bytes 0, 1, 2 ... : all its bytes,
\* in their rows.
Holds(i, k) ==
  \A r \in 0 .. Height - 1 :
    IF padded
      THEN \A c \in 0 .. WidthStep - 1 : pixels[i][r * WidthStep + c]
                                           = k * FrameBytes + r * WidthStep + c
      ELSE \A c \in 0 .. RowBytes - 1 : pixels[i][r * WidthStep + c]
                                           = k * FrameBytes + r * RowBytes + c

\* However the data is cut into chunks and whenever images come back, each frame that
\* is ready or with the application holds exactly its own bytes, frames are ready as
\* soon as their last byte is there, and in order.
FramesWhole == /\ \A n \in 1 .. Len(ready_frames) : Holds(ready_frames[n], taken + n - 1)
               /\ \A f \in held : Holds(f.image, f.frame)
               /\ taken + Len(ready_frames) = written \div FrameBytes
=============================================================================
