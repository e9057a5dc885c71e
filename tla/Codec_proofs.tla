----------------------------- MODULE Codec_proofs -----------------------------
(***************************************************************************)
(* Proofs about Codec, for any size of the images, of the pieces an        *)
(* encoding provides and of the messages: the encoder's ring is a FIFO,    *)
(* and every frame that leaves the decoder holds its own bytes.            *)
(***************************************************************************)
EXTENDS Codec, Integers, SequenceTheorems, TLAPS

(* The ring: its indices are within it, and every unread byte was written. *)
RingOK == /\ E!TypeOK
          /\ E!Unread \in Seq(Byte)

(* The bytes on their way: those the decoder is at follow those it has written, and those
   in the encoder follow them. *)
FlowOK == /\ provided \in 0 .. MaxBytes
          /\ provided = written + Len(todo) + Len(E!Unread)
          /\ \A i \in 1 .. Len(todo) : todo[i] = written + i - 1
          /\ \A i \in 1 .. Len(E!Unread) : E!Unread[i] = written + Len(todo) + i - 1

(* No image is in two places: free, ready or with the application. *)
ImagesApart ==
  /\ \A m, n \in 1 .. Len(free_frames) : m # n => free_frames[m] # free_frames[n]
  /\ \A m, n \in 1 .. Len(ready_frames) : m # n => ready_frames[m] # ready_frames[n]
  /\ \A m \in 1 .. Len(free_frames), n \in 1 .. Len(ready_frames) :
       free_frames[m] # ready_frames[n]
  /\ \A f \in held : /\ \A m \in 1 .. Len(free_frames) : free_frames[m] # f.image
                     /\ \A n \in 1 .. Len(ready_frames) : ready_frames[n] # f.image
  /\ \A f, g \in held : f # g => f.image # g.image

(* The frames that left the decoder. *)
FramesHeld == /\ \A n \in 1 .. Len(ready_frames) : D!Holds(ready_frames[n], taken + n - 1)
              /\ \A f \in held : D!Holds(f.image, f.frame)

(* The number of the frame that is being written. *)
Current == taken + Len(ready_frames)

(* Whether its bytes go to consecutive places, or row by row around the padding. *)
Flat == padded \/ Padding = 0

FlatOK == /\ written = Current * D!FrameBytes + write_offset
          /\ \A o \in 0 .. write_offset - 1 :
               pixels[Head(free_frames)][o] = Current * D!FrameBytes + o

(* The next byte goes to column c of row r. *)
RowOK(r, c) ==
  /\ write_offset = r * D!WidthStep + c
  /\ written = Current * D!FrameBytes + r * RowBytes + c
  /\ \A y \in 0 .. Height - 1, x \in 0 .. RowBytes - 1 :
       y < r \/ (y = r /\ x < c) =>
         pixels[Head(free_frames)][y * D!WidthStep + x]
           = Current * D!FrameBytes + y * RowBytes + x

(* The frame that is being written, as far as it has come. *)
PartOK == IF Flat THEN FlatOK
          ELSE \E r \in 0 .. Height - 1, c \in 0 .. RowBytes - 1 : RowOK(r, c)

ThreadOK == /\ pc = "idle" => todo = << >>
            /\ pc = "padded" => Flat
            /\ pc = "unpadded" => ~Flat
            /\ write_offset # 0 => free_frames # << >>

DecoderOK == D!TypeOK /\ ImagesApart /\ FramesHeld /\ PartOK /\ ThreadOK

IInv == RingOK /\ FlowOK /\ DecoderOK

-----------------------------------------------------------------------------
(* The ring. *)

(* One byte of the ring is always unused. *)
LEMMA Ready ==
  ASSUME E!TypeOK
  PROVE  /\ buffer_size \in Nat \ {0}
         /\ read_index \in 0 .. buffer_size - 1 /\ write_index \in 0 .. buffer_size - 1
         /\ E!DataReady \in 0 .. buffer_size - 1
         /\ Len(E!Unread) = E!DataReady
         /\ \A i \in 1 .. E!DataReady :
              E!Unread[i] = buffer[IF read_index + i - 1 < buffer_size
                                     THEN read_index + i - 1
                                     ELSE read_index + i - 1 - buffer_size]
  <1>1. /\ buffer_size \in Nat \ {0}
        /\ read_index \in 0 .. buffer_size - 1 /\ write_index \in 0 .. buffer_size - 1
    BY DEF E!TypeOK
  <1>2. E!DataReady \in 0 .. buffer_size - 1
    BY <1>1 DEF E!DataReady
  <1>3. DOMAIN E!Unread = 1 .. E!DataReady
    BY DEF E!Unread
  <1>4. Len(E!Unread) = E!DataReady
    BY <1>2, <1>3 DEF E!Unread
  <1>5. \A i \in 1 .. E!DataReady :
              E!Unread[i] = buffer[IF read_index + i - 1 < buffer_size
                                     THEN read_index + i - 1
                                     ELSE read_index + i - 1 - buffer_size]
    BY DEF E!Unread
  <1> QED
    BY <1>1, <1>2, <1>4, <1>5

(* SVR_Encoder_readData takes the bytes at the front, and only those. *)
LEMMA ReadTakesFront ==
  ASSUME RingOK, NEW n \in Nat, E!ReadData(n)
  PROVE  RingOK' /\ E!Fifo!Read(n)
  <1> DEFINE k == E!Least(E!DataReady, n)
             first == E!Least(k, buffer_size - read_index)
  <1>1. /\ buffer_size \in Nat \ {0}
        /\ read_index \in 0 .. buffer_size - 1 /\ write_index \in 0 .. buffer_size - 1
        /\ E!DataReady \in 0 .. buffer_size - 1
        /\ Len(E!Unread) = E!DataReady
    BY Ready DEF RingOK
  <1>2. /\ k \in 0 .. E!DataReady /\ k = (IF n < Len(E!Unread) THEN n ELSE Len(E!Unread))
        /\ first \in 0 .. k /\ first = (IF k <= buffer_size - read_index THEN k
                                        ELSE buffer_size - read_index)
    BY <1>1 DEF E!Least
  <1>3. /\ read_index' = (read_index + k) % buffer_size
        /\ UNCHANGED <<buffer, buffer_size, write_index>>
        /\ out' = [i \in 1 .. k |-> IF i <= first THEN buffer[read_index + i - 1]
                                                  ELSE buffer[i - first - 1]]
    BY DEF E!ReadData, E!ReadChunk
  <1> HIDE DEF k, first
  <1>4. read_index' = (IF read_index + k < buffer_size THEN read_index + k
                       ELSE read_index + k - buffer_size)
    <2>1. /\ read_index \in Nat /\ k \in Nat /\ read_index + k < buffer_size + buffer_size
          /\ buffer_size \in Nat \ {0}
      BY <1>1, <1>2
    <2>2. (read_index + k) % buffer_size = (IF read_index + k < buffer_size THEN read_index + k
                                            ELSE read_index + k - buffer_size)
      <3>1. CASE read_index + k < buffer_size
        BY <2>1, <3>1
      <3>2. CASE ~(read_index + k < buffer_size)
        BY <2>1, <3>2
      <3> QED
        BY <3>1, <3>2
    <2> QED
      BY <1>3, <2>2
  <1>5. E!DataReady' = E!DataReady - k
    BY <1>1, <1>2, <1>3, <1>4 DEF E!DataReady
  <1>6. ASSUME NEW i \in 1 .. k PROVE out'[i] = E!Unread[i]
    <2>1. E!Unread[i] = buffer[IF read_index + i - 1 < buffer_size
                                 THEN read_index + i - 1
                                 ELSE read_index + i - 1 - buffer_size]
      BY <1>1, <1>2 DEF E!Unread
    <2>2. out'[i] = IF i <= first THEN buffer[read_index + i - 1] ELSE buffer[i - first - 1]
      BY <1>3
    <2> QED
      BY <1>1, <1>2, <2>1, <2>2
  <1>7. out' = SubSeq(E!Unread, 1, k) /\ out' \in Seq(Byte)
    <2>1. \A i \in 1 .. k : E!Unread[i] \in Byte
      BY <1>1, <1>2, ElementOfSeq DEF RingOK
    <2>2. /\ SubSeq(E!Unread, 1, k) \in Seq(Byte) /\ Len(SubSeq(E!Unread, 1, k)) = k
          /\ \A i \in 1 .. k : SubSeq(E!Unread, 1, k)[i] = E!Unread[i]
      BY <1>1, <1>2, <2>1, SubSeqProperties
    <2>3. out' \in Seq(Byte) /\ Len(out') = k
      <3>1. out' = [i \in 1 .. k |-> out'[i]]
        BY <1>3
      <3>2. \A i \in 1 .. k : out'[i] \in Byte
        BY <1>6, <2>1
      <3> QED
        BY <1>1, <1>2, <3>1, <3>2
    <2> QED
      BY <1>6, <2>2, <2>3, SeqEqual
  <1>8. E!TypeOK'
    BY <1>1, <1>2, <1>3, <1>4, <1>7 DEF RingOK, E!TypeOK
  <1>9. ASSUME NEW i \in 1 .. E!DataReady - k PROVE E!Unread'[i] = E!Unread[k + i]
    <2>1. E!Unread'[i] = buffer'[IF read_index' + i - 1 < buffer_size'
                                   THEN read_index' + i - 1
                                   ELSE read_index' + i - 1 - buffer_size']
      BY <1>5 DEF E!Unread
    <2>2. E!Unread[k + i] = buffer[IF read_index + (k + i) - 1 < buffer_size
                                     THEN read_index + (k + i) - 1
                                     ELSE read_index + (k + i) - 1 - buffer_size]
      BY <1>1, <1>2 DEF E!Unread
    <2> QED
      BY <1>1, <1>2, <1>3, <1>4, <2>1, <2>2
  <1>10. E!Unread' = SubSeq(E!Unread, k + 1, Len(E!Unread)) /\ E!Unread' \in Seq(Byte)
    <2>1. \A i \in k + 1 .. E!DataReady : E!Unread[i] \in Byte
      BY <1>1, <1>2, ElementOfSeq DEF RingOK
    <2>2. /\ SubSeq(E!Unread, k + 1, Len(E!Unread)) \in Seq(Byte)
          /\ Len(SubSeq(E!Unread, k + 1, Len(E!Unread))) = E!DataReady - k
          /\ \A i \in 1 .. E!DataReady - k :
               SubSeq(E!Unread, k + 1, Len(E!Unread))[i] = E!Unread[k + i]
      BY <1>1, <1>2, <2>1, SubSeqProperties
    <2>3. E!Unread' = [i \in 1 .. E!DataReady - k |-> E!Unread'[i]]
      BY <1>5 DEF E!Unread
    <2>4. \A i \in 1 .. E!DataReady - k : E!Unread'[i] \in Byte
      BY <1>1, <1>2, <1>9, <2>1
    <2>5. E!Unread' \in Seq(Byte) /\ Len(E!Unread') = E!DataReady - k
      BY <1>1, <1>2, <2>3, <2>4
    <2> QED
      BY <1>9, <2>2, <2>5, SeqEqual
  <1> QED
    BY <1>2, <1>7, <1>8, <1>10 DEF RingOK, E!Fifo!Read

(* Where the i-th unread byte is in a ring. *)
Place(read, size, i) == IF read + i - 1 < size THEN read + i - 1 ELSE read + i - 1 - size

(* The ring g that SVR_Encoder_provideData copies n bytes to: large enough, and with the
   unread bytes of the old one. *)
Roomy(g, n) ==
  /\ g.size \in Nat \ {0} /\ g.read \in 0 .. g.size - 1 /\ g.write \in 0 .. g.size - 1
  /\ g.buf \in [0 .. g.size - 1 -> Byte \cup {Junk}]
  /\ g.size - E!DataReady > n
  /\ E!DataReady = IF g.read <= g.write THEN g.write - g.read ELSE g.size - g.read + g.write
  /\ \A i \in 1 .. E!DataReady : g.buf[Place(g.read, g.size, i)] = E!Unread[i]

(* Growing a ring, wrapped or not, keeps the unread bytes. *)
LEMMA GrowthKeeps ==
  ASSUME RingOK, NEW n \in Nat
  PROVE  Roomy(E!Grown(n), n)
  <1> DEFINE g == E!Grown(n)
             size == E!DataReady + n + 1
             moved == E!Realloc(buffer, buffer_size, size)
  <1>1. /\ buffer_size \in Nat \ {0}
        /\ read_index \in 0 .. buffer_size - 1 /\ write_index \in 0 .. buffer_size - 1
        /\ E!DataReady \in 0 .. buffer_size - 1
        /\ Len(E!Unread) = E!DataReady
        /\ \A i \in 1 .. E!DataReady :
             E!Unread[i] = buffer[Place(read_index, buffer_size, i)]
    BY Ready DEF RingOK, Place
  <1>2. /\ E!DataReady = IF read_index <= write_index THEN write_index - read_index
                         ELSE buffer_size - read_index + write_index
        /\ buffer \in [0 .. buffer_size - 1 -> Byte \cup {Junk}]
    BY DEF E!DataReady, RingOK, E!TypeOK
  <1>3. CASE buffer_size - E!DataReady > n
    <2>1. g = [buf |-> buffer, size |-> buffer_size, read |-> read_index, write |-> write_index]
      BY <1>3 DEF E!Grown
    <2> QED
      BY <1>1, <1>2, <1>3, <2>1 DEF Roomy
  <1>4. ASSUME ~(buffer_size - E!DataReady > n)
        PROVE  /\ size \in Nat \ {0} /\ size > buffer_size
               /\ moved \in [0 .. size - 1 -> Byte \cup {Junk}]
               /\ \A i \in 0 .. buffer_size - 1 : moved[i] = buffer[i]
    <2>1. size \in Nat \ {0} /\ size > buffer_size
      BY <1>1, <1>4
    <2>2. moved = [i \in 0 .. size - 1 |-> IF i < buffer_size THEN buffer[i] ELSE Junk]
      BY DEF E!Realloc
    <2> HIDE DEF size, moved
    <2>3. \A i \in 0 .. buffer_size - 1 : i \in 0 .. size - 1 /\ moved[i] = buffer[i]
      BY <1>1, <2>1, <2>2
    <2>4. ASSUME NEW i \in 0 .. size - 1
          PROVE  (IF i < buffer_size THEN buffer[i] ELSE Junk) \in Byte \cup {Junk}
      BY <1>1, <1>2, <2>1
    <2>5. moved \in [0 .. size - 1 -> Byte \cup {Junk}]
      BY <2>2, <2>4
    <2> QED
      BY <2>1, <2>3, <2>5
  <1>5. CASE ~(buffer_size - E!DataReady > n) /\ ~(write_index < read_index)
    <2>1. g = [buf |-> moved, size |-> size, read |-> read_index, write |-> write_index]
      BY <1>5 DEF E!Grown
    <2>2. /\ g.buf = moved /\ g.size = size /\ g.read = read_index /\ g.write = write_index
      BY <2>1
    <2>3. size = E!DataReady + n + 1 /\ g = E!Grown(n)
      OBVIOUS
    <2> HIDE DEF g, size, moved
    <2>4. ASSUME NEW i \in 1 .. E!DataReady
          PROVE  moved[Place(read_index, size, i)] = E!Unread[i]
      <3>1. /\ Place(read_index, size, i) = read_index + i - 1
            /\ Place(read_index, buffer_size, i) = read_index + i - 1
            /\ read_index + i - 1 \in 0 .. buffer_size - 1
        BY <1>1, <1>2, <1>4, <1>5 DEF Place
      <3> QED
        BY <1>1, <1>4, <1>5, <3>1
    <2> QED
      BY <1>1, <1>2, <1>4, <1>5, <2>2, <2>3, <2>4, SMTT(30) DEF Roomy
  <1>6. CASE ~(buffer_size - E!DataReady > n) /\ write_index < read_index
    <2> DEFINE straight == [i \in 0 .. size - 1 |->
                              IF i < E!DataReady THEN E!ReadChunk(E!DataReady)[i + 1]
                              ELSE moved[i]]
    <2>1. g = [buf |-> straight, size |-> size, read |-> 0, write |-> E!DataReady]
      BY <1>6 DEF E!Grown
    <2>2. g.buf = straight /\ g.size = size /\ g.read = 0 /\ g.write = E!DataReady
      BY <2>1
    <2>3. size = E!DataReady + n + 1 /\ g = E!Grown(n)
      OBVIOUS
    <2>4. ASSUME NEW i \in 1 .. E!DataReady
          PROVE  E!ReadChunk(E!DataReady)[i] = E!Unread[i]
      <3> DEFINE first == E!Least(E!DataReady, buffer_size - read_index)
      <3>1. E!Least(E!DataReady, E!DataReady) = E!DataReady
        BY DEF E!Least
      <3>2. E!ReadChunk(E!DataReady)[i] =
              IF i <= first THEN buffer[read_index + i - 1] ELSE buffer[i - first - 1]
        BY <3>1 DEF E!ReadChunk
      <3>3. first = IF E!DataReady <= buffer_size - read_index THEN E!DataReady
                    ELSE buffer_size - read_index
        BY DEF E!Least
      <3> HIDE DEF first
      <3>4. E!Unread[i] = buffer[Place(read_index, buffer_size, i)]
        BY <1>1
      <3> QED
        BY <1>1, <3>2, <3>3, <3>4 DEF Place
    <2>5. ASSUME NEW i \in 1 .. E!DataReady
          PROVE  straight[Place(0, size, i)] = E!Unread[i]
      <3>1. Place(0, size, i) = i - 1 /\ i - 1 \in 0 .. size - 1 /\ i - 1 < E!DataReady
        BY <1>1, <1>4, <1>6, <2>3 DEF Place
      <3>2. straight[i - 1] = E!ReadChunk(E!DataReady)[(i - 1) + 1]
        BY <3>1
      <3>3. (i - 1) + 1 = i
        BY <1>1
      <3> QED
        BY <2>4, <3>1, <3>2, <3>3
    <2>6. straight \in [0 .. size - 1 -> Byte \cup {Junk}]
      <3>1. ASSUME NEW i \in 0 .. size - 1
            PROVE  (IF i < E!DataReady THEN E!ReadChunk(E!DataReady)[i + 1] ELSE moved[i])
                     \in Byte \cup {Junk}
        <4>1. CASE i < E!DataReady
          <5>1. i + 1 \in 1 .. E!DataReady
            BY <1>1, <1>4, <1>6, <4>1
          <5>2. E!Unread[i + 1] \in Byte
            BY <1>1, <5>1, ElementOfSeq DEF RingOK
          <5> QED
            BY <2>4, <4>1, <5>1, <5>2
        <4>2. CASE ~(i < E!DataReady)
          BY <1>4, <1>6, <4>2
        <4> QED
          BY <4>1, <4>2
      <3> QED
        BY <3>1
    <2> HIDE DEF g, size, moved, straight
    <2>7. /\ size \in Nat \ {0} /\ 0 \in 0 .. size - 1 /\ E!DataReady \in 0 .. size - 1
          /\ size - E!DataReady > n
          /\ E!DataReady = IF 0 <= E!DataReady THEN E!DataReady - 0
                           ELSE size - 0 + E!DataReady
      BY <1>1, <1>4, <1>6, <2>3
    <2> QED
      BY <2>2, <2>3, <2>5, <2>6, <2>7 DEF Roomy
  <1> QED
    BY <1>3, <1>5, <1>6

(* SVR_Encoder_provideData appends its bytes, and only those. *)
LEMMA ProvideAppends ==
  ASSUME RingOK, NEW data \in Seq(Byte), E!ProvideData(data)
  PROVE  RingOK' /\ E!Fifo!Provide(data)
  <1>1. PICK n \in Nat : n = Len(data)
    BY LenProperties
  <1>2. PICK g : g = E!Grown(n)
    OBVIOUS
  <1>3. Roomy(g, n)
    BY <1>2, GrowthKeeps
  <1>4. /\ g.size \in Nat \ {0} /\ g.read \in 0 .. g.size - 1 /\ g.write \in 0 .. g.size - 1
        /\ E!DataReady \in Nat
    BY <1>3, Ready DEF Roomy, RingOK
  <1>S. PICK S \in Nat : S = g.size
    BY <1>4
  <1>R. PICK R \in Nat : R = g.read
    BY <1>4
  <1>W. PICK W \in Nat : W = g.write
    BY <1>4
  <1>N. PICK N \in Nat : N = E!DataReady
    BY <1>4
  <1>r. /\ S # 0 /\ R < S /\ W < S /\ S - N > n
        /\ N = IF R <= W THEN W - R ELSE S - R + W
    BY <1>3, <1>4, <1>S, <1>R, <1>W, <1>N DEF Roomy
  <1>5. /\ buffer' = E!Stored(g, data) /\ buffer_size' = S /\ read_index' = R
        /\ write_index' = (W + n) % S
        /\ N + n <= MaxBuffered /\ UNCHANGED out
    BY <1>1, <1>2, <1>S, <1>R, <1>W, <1>N DEF E!ProvideData
  <1>6. write_index' = IF W + n < S THEN W + n ELSE W + n - S
    <2>1. CASE W + n < S
      <3>1. (W + n) % S = W + n
        BY <1>r, <2>1
      <3> QED
        BY <1>5, <2>1, <3>1
    <2>2. CASE ~(W + n < S)
      <3>1. (W + n) % S = W + n - S
        BY <1>r, <2>2
      <3> QED
        BY <1>5, <2>2, <3>1
    <2> QED
      BY <2>1, <2>2
  <1>7. E!DataReady' = N + n
    BY <1>r, <1>5, <1>6 DEF E!DataReady
  <1>8. ASSUME NEW i \in 0 .. S - 1
        PROVE  buffer'[i] = IF W <= i /\ i < W + n THEN data[i - W + 1]
                            ELSE IF i < n - (S - W) THEN data[S - W + i + 1]
                            ELSE g.buf[i]
    <2>1. buffer'[i] = IF W <= i /\ i < W + E!Least(n, S - W)
                         THEN data[i - W + 1]
                       ELSE IF i < n - (S - W) THEN data[S - W + i + 1]
                       ELSE g.buf[i]
      BY <1>1, <1>S, <1>W, <1>5 DEF E!Stored
    <2>2. i < W + E!Least(n, S - W) <=> i < W + n
      BY <1>r DEF E!Least
    <2> QED
      BY <2>1, <2>2
  <1>9. ASSUME NEW i \in 1 .. N + n
        PROVE  E!Unread'[i] = buffer'[Place(R, S, i)]
    BY <1>5, <1>7 DEF E!Unread, Place
  <1>10. ASSUME NEW i \in 1 .. N
         PROVE  E!Unread'[i] = E!Unread[i]
    <2>0. Place(R, S, i) \in 0 .. S - 1
      BY <1>r DEF Place
    <2>1. PICK p \in 0 .. S - 1 : p = Place(R, S, i)
      BY <2>0
    <2>2. ~(W <= p /\ p < W + n) /\ ~(p < n - (S - W))
      BY <1>r, <2>1 DEF Place
    <2>3. buffer'[p] = g.buf[p]
      BY <1>8, <2>2
    <2>4. g.buf[p] = E!Unread[i]
      BY <1>3, <1>S, <1>R, <1>N, <2>1 DEF Roomy
    <2>5. i \in 1 .. N + n
      BY <1>r
    <2> QED
      BY <1>9, <2>1, <2>3, <2>4, <2>5
  <1>11. ASSUME NEW i \in 1 .. n
         PROVE  E!Unread'[N + i] = data[i]
    <2>0. Place(R, S, N + i) \in 0 .. S - 1
      BY <1>r DEF Place
    <2>1. PICK p \in 0 .. S - 1 : p = Place(R, S, N + i)
      BY <2>0
    <2>2. CASE W + i - 1 < S
      <3>1. p = W + i - 1 /\ W <= p /\ p < W + n /\ p - W + 1 = i
        BY <1>r, <2>1, <2>2 DEF Place
      <3>2. buffer'[p] = data[i]
        BY <1>8, <3>1
      <3>3. N + i \in 1 .. N + n
        BY <1>r
      <3> QED
        BY <1>9, <2>1, <3>2, <3>3
    <2>3. CASE ~(W + i - 1 < S)
      <3>1. /\ p = W + i - 1 - S /\ ~(W <= p)
            /\ p < n - (S - W) /\ S - W + p + 1 = i
        BY <1>r, <2>1, <2>3 DEF Place
      <3>2. buffer'[p] = data[i]
        BY <1>8, <3>1
      <3>3. N + i \in 1 .. N + n
        BY <1>r
      <3> QED
        BY <1>9, <2>1, <3>2, <3>3
    <2> QED
      BY <2>2, <2>3
  <1>12. E!Unread' = E!Unread \o data /\ E!Unread' \in Seq(Byte)
    <2>1. E!Unread \in Seq(Byte) /\ Len(E!Unread) = N
      BY <1>N, Ready DEF RingOK
    <2>2. /\ E!Unread \o data \in Seq(Byte)
          /\ Len(E!Unread \o data) = N + n
          /\ \A i \in 1 .. N + n :
               (E!Unread \o data)[i] = IF i <= N THEN E!Unread[i]
                                       ELSE data[i - N]
      BY <1>1, <2>1, ConcatProperties
    <2>3. ASSUME NEW i \in 1 .. N + n
          PROVE  E!Unread'[i] = (E!Unread \o data)[i]
      <3>1. CASE i <= N
        <4>1. i \in 1 .. N
          BY <1>r, <3>1
        <4> QED
          BY <1>10, <2>2, <3>1, <4>1
      <3>2. CASE ~(i <= N)
        <4>1. i - N \in 1 .. n /\ N + (i - N) = i
          BY <1>r, <3>2
        <4>2. E!Unread'[N + (i - N)] = data[i - N]
          BY <1>11, <4>1
        <4> QED
          BY <2>2, <3>2, <4>1, <4>2
      <3> QED
        BY <3>1, <3>2
    <2>4. \A i \in 1 .. N + n : (E!Unread \o data)[i] \in Byte
      BY <2>2, ElementOfSeq
    <2>5. E!Unread' = [i \in 1 .. N + n |-> E!Unread'[i]]
      BY <1>7 DEF E!Unread
    <2>6. E!Unread' \in Seq(Byte) /\ Len(E!Unread') = N + n
      <3>1. \A i \in 1 .. N + n : E!Unread'[i] \in Byte
        BY <2>3, <2>4
      <3>2. N + n \in Nat
        OBVIOUS
      <3> QED
        BY <2>5, <3>1, <3>2
    <2> QED
      BY <2>2, <2>3, <2>6, SeqEqual
  <1>13. buffer' \in [0 .. S - 1 -> Byte \cup {Junk}]
    <2>1. ASSUME NEW i \in 0 .. S - 1 PROVE buffer'[i] \in Byte \cup {Junk}
      <3>1. \A j \in 1 .. n : data[j] \in Byte
        BY <1>1, ElementOfSeq
      <3>2. CASE W <= i /\ i < W + n
        <4>1. i - W + 1 \in 1 .. n
          BY <1>r, <3>2
        <4> QED
          BY <1>8, <3>1, <3>2, <4>1
      <3>3. CASE ~(W <= i /\ i < W + n) /\ i < n - (S - W)
        <4>1. S - W + i + 1 \in 1 .. n
          BY <1>r, <3>3
        <4> QED
          BY <1>8, <3>1, <3>3, <4>1
      <3>4. CASE ~(W <= i /\ i < W + n) /\ ~(i < n - (S - W))
        <4>1. buffer'[i] = g.buf[i]
          BY <1>8, <3>4
        <4> QED
          BY <1>3, <1>S, <4>1 DEF Roomy
      <3> QED
        BY <3>2, <3>3, <3>4
    <2>2. buffer' = [i \in 0 .. S - 1 |-> buffer'[i]]
      BY <1>S, <1>5 DEF E!Stored
    <2> QED
      BY <2>1, <2>2
  <1>14. E!TypeOK'
    <2>1. write_index' \in 0 .. S - 1
      BY <1>r, <1>6
    <2> QED
      BY <1>r, <1>5, <1>13, <2>1 DEF RingOK, E!TypeOK
  <1>15. Len(E!Unread) + Len(data) <= MaxBuffered
    BY <1>1, <1>N, <1>5, Ready DEF RingOK
  <1> QED
    BY <1>5, <1>12, <1>14, <1>15 DEF RingOK, E!Fifo!Provide

-----------------------------------------------------------------------------
(* Rows and frames. *)

(* Rows of w bytes follow one another. *)
LEMMA Rows ==
  ASSUME NEW y \in Nat, NEW r \in Nat, NEW w \in Nat, NEW x \in Nat, x < w
  PROVE  /\ y * w \in Nat /\ r * w \in Nat
         /\ (y + 1) * w = y * w + w
         /\ y < r => y * w + x < r * w
         /\ (r * w + x) % w = x
         /\ (r * w + x) \div w = r
  <1>1. y * w \in Nat /\ r * w \in Nat /\ (y + 1) * w = y * w + w
    OBVIOUS
  <1>2. ASSUME y < r PROVE y * w + x < r * w
    <2>1. (y + 1) * w <= r * w
      BY <1>2
    <2> QED
      BY <1>1, <2>1
  <1>3. (r * w + x) % w = x
    OBVIOUS
  <1>4. (r * w + x) \div w = r
    OBVIOUS
  <1> QED
    BY <1>1, <1>2, <1>3, <1>4

(* The sizes of rows, images and frames. *)
LEMMA Sizes ==
  ASSUME padded \in BOOLEAN
  PROVE  /\ RowBytes \in Nat \ {0} /\ Height \in Nat \ {0} /\ Padding \in Nat
         /\ D!WidthStep \in Nat \ {0} /\ D!WidthStep = RowBytes + Padding
         /\ D!ImageSize \in Nat \ {0} /\ D!ImageSize = D!WidthStep * Height
         /\ D!ImageSize = Height * D!WidthStep
         /\ D!FrameBytes \in Nat \ {0}
         /\ Flat => D!FrameBytes = D!ImageSize
         /\ ~Flat => /\ ~padded /\ Padding # 0
                     /\ D!FrameBytes = RowBytes * Height /\ D!FrameBytes = Height * RowBytes
  <1>1. RowBytes \in Nat \ {0} /\ Height \in Nat \ {0} /\ Padding \in Nat
    BY CodecAssumption
  <1>2. D!WidthStep \in Nat \ {0} /\ D!WidthStep = RowBytes + Padding
    BY <1>1 DEF D!WidthStep
  <1>3. /\ D!ImageSize \in Nat \ {0} /\ D!ImageSize = D!WidthStep * Height
        /\ D!ImageSize = Height * D!WidthStep
    BY <1>1, <1>2 DEF D!ImageSize
  <1>4. RowBytes * Height \in Nat \ {0} /\ RowBytes * Height = Height * RowBytes
    BY <1>1
  <1>5. Padding = 0 => D!ImageSize = RowBytes * Height
    BY <1>1, <1>2, <1>3
  <1> QED
    BY <1>1, <1>2, <1>3, <1>4, <1>5 DEF Flat, D!FrameBytes

(* An image that holds the k-th frame. *)
HoldsIn(img, k) ==
  \A r \in 0 .. Height - 1 :
    IF padded
      THEN \A c \in 0 .. D!WidthStep - 1 :
             img[r * D!WidthStep + c] = k * D!FrameBytes + r * D!WidthStep + c
      ELSE \A c \in 0 .. RowBytes - 1 :
             img[r * D!WidthStep + c] = k * D!FrameBytes + r * RowBytes + c

LEMMA HoldsIsHoldsIn ==
  /\ \A i, k : D!Holds(i, k) <=> HoldsIn(pixels[i], k)
  /\ padded' = padded => \A i, k : D!Holds(i, k)' <=> HoldsIn(pixels'[i], k)
  <1>1. \A i, k : D!Holds(i, k) <=> HoldsIn(pixels[i], k)
    BY DEF D!Holds, HoldsIn
  <1>2. ASSUME padded' = padded
        PROVE  \A i, k : D!Holds(i, k)' <=> HoldsIn(pixels'[i], k)
    <2>1. D!FrameBytes' = D!FrameBytes
      BY <1>2 DEF D!FrameBytes
    <2> QED
      BY <1>2, <2>1 DEF D!Holds, HoldsIn
  <1> QED
    BY <1>1, <1>2

(* Bytes in consecutive places fill the rows of an image whose frames have no gaps. *)
LEMMA FlatHolds ==
  ASSUME padded \in BOOLEAN, Flat, NEW img, NEW k \in Nat,
         \A o \in 0 .. D!ImageSize - 1 : img[o] = k * D!FrameBytes + o
  PROVE  HoldsIn(img, k)
  <1>1. PICK w \in Nat \ {0} : w = D!WidthStep
    BY Sizes
  <1>2. Height \in Nat /\ D!ImageSize = Height * w /\ RowBytes \in Nat
        /\ (~padded => RowBytes = w) /\ D!ImageSize \in Nat
    BY <1>1, Sizes DEF Flat
  <1>3. PICK b \in Nat : b = k * D!FrameBytes
    BY Sizes
  <1>4. ASSUME NEW r \in 0 .. Height - 1, NEW c \in 0 .. w - 1
        PROVE  img[r * w + c] = b + r * w + c
    <2>1. r * w \in Nat /\ r * w + c < Height * w
      BY <1>2, Rows
    <2>2. r * w + c \in 0 .. D!ImageSize - 1
      BY <1>2, <2>1
    <2>3. img[r * w + c] = b + (r * w + c)
      BY <1>3, <2>2
    <2> QED
      BY <2>1, <2>3
  <1> QED
    BY <1>1, <1>2, <1>3, <1>4 DEF HoldsIn

-----------------------------------------------------------------------------
(* The steps of the two ends. *)

USE DEF D!lists

(* A step that moves no image and writes to none. *)
LEMMA ImagesKept ==
  ASSUME DecoderOK,
         UNCHANGED <<free_frames, ready_frames, held, write_offset, pixels, padded, taken,
                     written>>
  PROVE  ImagesApart' /\ FramesHeld' /\ PartOK'
  <1>1. D!FrameBytes' = D!FrameBytes /\ (Flat' <=> Flat) /\ Current' = Current
    BY DEF D!FrameBytes, Flat, Current
  <1>2. ImagesApart'
    BY DEF DecoderOK, ImagesApart
  <1>3. FramesHeld'
    BY HoldsIsHoldsIn DEF DecoderOK, FramesHeld
  <1>4. \A r \in 0 .. Height - 1, c \in 0 .. RowBytes - 1 : RowOK(r, c) => RowOK(r, c)'
    BY <1>1 DEF RowOK
  <1>5. FlatOK => FlatOK'
    BY <1>1 DEF FlatOK
  <1> QED
    BY <1>1, <1>2, <1>3, <1>4, <1>5 DEF DecoderOK, PartOK

(* An encoding provides the next bytes of the stream. *)
LEMMA EncodeKeeps ==
  ASSUME IInv, NEW n \in 1 .. MaxProvide, Encode(n)
  PROVE  IInv' /\ [E!Fifo!Next]_<<E!Unread, out>>
  <1>1. /\ provided + n <= MaxBytes /\ E!ProvideData(Piece(provided, n))
        /\ provided' = provided + n /\ UNCHANGED decVars
        /\ n \in Nat /\ MaxBytes \in Nat /\ provided \in Nat /\ MaxProvide \in Nat
    BY CodecAssumption DEF Encode, IInv, FlowOK
  <1>2. PICK data : data = Piece(provided, n)
    OBVIOUS
  <1>3. /\ data \in Seq(Byte) /\ Len(data) = n /\ data \in Pieces
        /\ \A i \in 1 .. n : data[i] = provided + i - 1
    <2>1. \A i \in 1 .. n : provided + i - 1 \in 0 .. MaxBytes - 1
      BY <1>1
    <2>2. data = [i \in 1 .. n |-> provided + i - 1]
      BY <1>2 DEF Piece
    <2>3. data \in Seq(Byte) /\ Len(data) = n
      BY <1>1, <2>1, <2>2 DEF Byte
    <2>4. provided \in 0 .. MaxBytes - 1 /\ n \in 0 .. MaxProvide
      BY <1>1
    <2>5. data \in Pieces
      BY <1>2, <2>4 DEF Pieces, Byte
    <2> QED
      BY <2>2, <2>3, <2>5
  <1>4. RingOK' /\ E!Fifo!Provide(data)
    BY <1>1, <1>2, <1>3, ProvideAppends DEF IInv
  <1>5. E!Unread \in Seq(Byte) /\ E!Unread' = E!Unread \o data
    BY <1>4 DEF IInv, RingOK, E!Fifo!Provide
  <1>6. PICK m \in Nat : m = Len(E!Unread)
    BY <1>5, LenProperties
  <1>7. /\ Len(E!Unread') = m + n
        /\ \A i \in 1 .. m + n :
             E!Unread'[i] = IF i <= m THEN E!Unread[i] ELSE data[i - m]
    BY <1>3, <1>5, <1>6, ConcatProperties
  <1>8. /\ written \in Nat /\ todo \in Seq(Byte) /\ UNCHANGED <<written, todo>>
    BY <1>1 DEF IInv, DecoderOK, D!TypeOK, decVars
  <1>9. PICK d \in Nat : d = Len(todo)
    BY <1>8, LenProperties
  <1>10. FlowOK'
    <2>1. /\ provided = written + d + m
          /\ \A i \in 1 .. m : E!Unread[i] = written + d + i - 1
          /\ \A i \in 1 .. Len(todo) : todo[i] = written + i - 1
      BY <1>6, <1>9 DEF IInv, FlowOK
    <2>2. ASSUME NEW i \in 1 .. m + n PROVE E!Unread'[i] = written + d + i - 1
      <3>1. CASE i <= m
        BY <1>7, <2>1, <3>1
      <3>2. CASE ~(i <= m)
        <4>1. i - m \in 1 .. n
          BY <1>1, <3>2
        <4>2. E!Unread'[i] = provided + (i - m) - 1
          BY <1>3, <1>7, <3>2, <4>1
        <4> QED
          BY <1>1, <1>8, <2>1, <4>2
      <3> QED
        BY <3>1, <3>2
    <2>3. provided' \in 0 .. MaxBytes /\ provided' = written + d + (m + n)
      BY <1>1, <1>8, <2>1
    <2> QED
      BY <1>7, <1>8, <1>9, <2>1, <2>2, <2>3 DEF FlowOK
  <1>11. DecoderOK'
    <2>1. ImagesApart' /\ FramesHeld' /\ PartOK'
      BY <1>1, ImagesKept DEF IInv, decVars
    <2>2. D!TypeOK'
      BY <1>1 DEF IInv, DecoderOK, D!TypeOK, decVars
    <2>3. ThreadOK'
      BY <1>1 DEF IInv, DecoderOK, ThreadOK, Flat, decVars
    <2> QED
      BY <2>1, <2>2, <2>3 DEF DecoderOK
  <1>12. E!Fifo!Next
    BY <1>3, <1>4 DEF E!Fifo!Next
  <1> QED
    BY <1>4, <1>10, <1>11, <1>12 DEF IInv

(* A message takes the bytes at the front of the ring to the decoder. *)
LEMMA TransferKeeps ==
  ASSUME IInv, NEW n \in 1 .. MaxBuffered, Transfer(n)
  PROVE  IInv' /\ [E!Fifo!Next]_<<E!Unread, out>>
  <1>1. /\ E!ReadData(n) /\ D!Decode(out') /\ UNCHANGED provided
        /\ n \in Nat /\ MaxBuffered \in Nat
    BY CodecAssumption DEF Transfer
  <1>2. RingOK' /\ E!Fifo!Read(n)
    BY <1>1, ReadTakesFront DEF IInv
  <1>3. E!Unread \in Seq(Byte)
    BY DEF IInv, RingOK
  <1>4. PICK m \in Nat : m = Len(E!Unread)
    BY <1>3, LenProperties
  <1>5. PICK k \in Nat : k = IF n < Len(E!Unread) THEN n ELSE Len(E!Unread)
    BY <1>1, <1>4
  <1>6. k <= m /\ out' = SubSeq(E!Unread, 1, k) /\ E!Unread' = SubSeq(E!Unread, k + 1, m)
    BY <1>1, <1>2, <1>4, <1>5 DEF E!Fifo!Read
  <1>7. /\ pc = "idle" /\ todo' = out' /\ pc' = "first"
        /\ UNCHANGED <<free_frames, ready_frames, write_offset, pixels, held, padded, short,
                       taken, written>>
    BY <1>1 DEF D!Decode
  <1>8. todo = << >> /\ Len(todo) = 0 /\ written \in Nat
    BY <1>7 DEF IInv, DecoderOK, ThreadOK, D!TypeOK
  <1>9. \A i \in 1 .. m : E!Unread[i] \in Byte
    BY <1>3, <1>4, ElementOfSeq
  <1>10. /\ out' \in Seq(Byte) /\ Len(out') = k
         /\ \A i \in 1 .. k : out'[i] = E!Unread[i]
    <2>1. \A i \in 1 .. k : E!Unread[i] \in Byte
      BY <1>6, <1>9
    <2> QED
      BY <1>6, <2>1, SubSeqProperties
  <1>11. /\ Len(E!Unread') = m - k
         /\ \A i \in 1 .. m - k : E!Unread'[i] = E!Unread[k + i]
    <2>1. \A i \in k + 1 .. m : E!Unread[i] \in Byte
      BY <1>6, <1>9
    <2> QED
      BY <1>6, <2>1, SubSeqProperties
  <1>12. FlowOK'
    <2>1. /\ provided \in 0 .. MaxBytes /\ provided = written + m
          /\ \A i \in 1 .. m : E!Unread[i] = written + i - 1
      BY <1>4, <1>8 DEF IInv, FlowOK
    <2>2. ASSUME NEW i \in 1 .. k PROVE todo'[i] = written + i - 1
      BY <1>6, <1>7, <1>10, <2>1
    <2>3. ASSUME NEW i \in 1 .. m - k PROVE E!Unread'[i] = written + k + i - 1
      <3>1. k + i \in 1 .. m
        BY <1>6
      <3>2. E!Unread[k + i] = written + (k + i) - 1
        BY <2>1, <3>1
      <3> QED
        BY <1>8, <1>11, <3>2
    <2>4. provided' = written + k + (m - k)
      BY <1>1, <1>6, <1>8, <2>1
    <2> QED
      BY <1>1, <1>7, <1>10, <1>11, <2>1, <2>2, <2>3, <2>4 DEF FlowOK
  <1>13. DecoderOK'
    <2>1. ImagesApart' /\ FramesHeld' /\ PartOK'
      BY <1>7, ImagesKept DEF IInv
    <2>2. D!TypeOK'
      BY <1>7, <1>10 DEF IInv, DecoderOK, D!TypeOK
    <2>3. ThreadOK'
      BY <1>7 DEF IInv, DecoderOK, ThreadOK, Flat
    <2> QED
      BY <2>1, <2>2, <2>3 DEF DecoderOK
  <1>14. E!Fifo!Next
    <2>1. n \in 0 .. MaxBuffered
      BY <1>1
    <2> QED
      BY <1>2, <2>1 DEF E!Fifo!Next
  <1> QED
    BY <1>2, <1>12, <1>13, <1>14 DEF IInv

(* A step of the decoder that takes no data leaves the bytes on their way alone. *)
LEMMA FlowKept ==
  ASSUME IInv, UNCHANGED <<encVars, provided, todo, written>>
  PROVE  RingOK' /\ FlowOK' /\ UNCHANGED <<E!Unread, out>>
  <1>1. UNCHANGED <<E!Unread, E!DataReady, out>>
    BY DEF encVars, E!Unread, E!DataReady
  <1>2. RingOK'
    BY <1>1 DEF IInv, RingOK, E!TypeOK, encVars
  <1>3. FlowOK'
    BY <1>1 DEF IInv, FlowOK
  <1> QED
    BY <1>1, <1>2, <1>3

(* The decoding thread moves on and touches no image. *)
LEMMA QuietKeeps ==
  ASSUME IInv, D!NoneFree \/ D!Enter \/ D!Return, UNCHANGED <<encVars, provided>>
  PROVE  IInv' /\ UNCHANGED <<E!Unread, out>>
  <1>1. UNCHANGED <<free_frames, ready_frames, write_offset, pixels, held, padded, todo, taken,
                    written>>
    BY DEF D!NoneFree, D!Enter, D!Return
  <1>2. RingOK' /\ FlowOK' /\ UNCHANGED <<E!Unread, out>>
    BY <1>1, FlowKept
  <1>3. ImagesApart' /\ FramesHeld' /\ PartOK'
    BY <1>1, ImagesKept DEF IInv
  <1>4. pc' \in {"idle", "first", "padded", "unpadded"} /\ short' \in BOOLEAN
    BY DEF IInv, DecoderOK, D!TypeOK, D!NoneFree, D!Enter, D!Return
  <1>5. D!TypeOK'
    BY <1>1, <1>4 DEF IInv, DecoderOK, D!TypeOK
  <1>6. ThreadOK'
    BY <1>1 DEF IInv, DecoderOK, ThreadOK, Flat, D!NoneFree, D!Enter, D!Return
  <1> QED
    BY <1>2, <1>3, <1>5, <1>6 DEF IInv, DecoderOK

(* A step that leaves the image being written where it is keeps what it holds. *)
LEMMA PartKept ==
  ASSUME DecoderOK, UNCHANGED <<write_offset, padded, written>>, Current' = Current,
         free_frames # << >> =>
           /\ Head(free_frames') = Head(free_frames)
           /\ pixels'[Head(free_frames)] = pixels[Head(free_frames)]
  PROVE  PartOK'
  <1>1. D!FrameBytes' = D!FrameBytes /\ (Flat' <=> Flat)
    BY DEF D!FrameBytes, Flat
  <1>2. write_offset \in Nat /\ (free_frames = << >> => write_offset = 0)
    BY Sizes DEF DecoderOK, ThreadOK, D!TypeOK
  <1>3. ASSUME FlatOK PROVE FlatOK'
    <2>1. CASE write_offset = 0
      BY <1>1, <1>3, <2>1 DEF FlatOK
    <2>2. CASE write_offset # 0
      BY <1>1, <1>2, <1>3, <2>2 DEF FlatOK
    <2> QED
      BY <2>1, <2>2
  <1>4. ASSUME NEW r \in 0 .. Height - 1, NEW c \in 0 .. RowBytes - 1, RowOK(r, c)
        PROVE  RowOK(r, c)'
    <2>1. CASE free_frames # << >>
      BY <1>1, <1>4, <2>1 DEF RowOK
    <2>2. CASE free_frames = << >>
      <3>1. PICK w \in Nat \ {0} : w = D!WidthStep
        BY Sizes DEF DecoderOK, D!TypeOK
      <3>2. r * w + c = 0
        BY <1>2, <1>4, <2>2, <3>1 DEF RowOK
      <3>3. r \in Nat /\ c \in Nat /\ Height \in Nat /\ RowBytes \in Nat
        BY CodecAssumption
      <3>4. r = 0 /\ c = 0
        <4>1. r * w \in Nat
          BY <3>1, <3>3
        <4>2. r # 0 => r * w >= w
          BY <3>1, <3>3
        <4> QED
          BY <3>1, <3>2, <3>3, <4>1, <4>2
      <3>5. \A y \in 0 .. Height - 1, x \in 0 .. RowBytes - 1 : ~(y < r \/ (y = r /\ x < c))
        BY <3>3, <3>4
      <3> QED
        BY <1>1, <1>4, <3>5 DEF RowOK
    <2> QED
      BY <2>1, <2>2
  <1> QED
    BY <1>1, <1>3, <1>4 DEF DecoderOK, PartOK

(* SVR_Decoder_getCurrentFrame makes an image, which is nowhere else. *)
LEMMA NewImageKeeps ==
  ASSUME IInv, D!NewImage, UNCHANGED <<encVars, provided>>
  PROVE  IInv' /\ UNCHANGED <<E!Unread, out>>
  <1> DEFINE blank == [o \in 0 .. D!ImageSize - 1 |-> Junk]
             Image == [0 .. D!ImageSize - 1 -> Byte \cup {Junk}]
  <1>1. /\ pixels' = Append(pixels, blank) /\ free_frames' = Append(free_frames, Len(pixels) + 1)
        /\ short' = FALSE
        /\ UNCHANGED <<ready_frames, write_offset, held, padded, pc, todo, taken, written>>
    BY DEF D!NewImage
  <1>2. /\ pixels \in Seq(Image) /\ free_frames \in Seq(DOMAIN pixels)
        /\ ready_frames \in Seq(DOMAIN pixels)
        /\ held \subseteq [image : DOMAIN pixels, frame : Nat]
    BY DEF IInv, DecoderOK, D!TypeOK
  <1>3. blank \in Image
    OBVIOUS
  <1> HIDE DEF blank, Image
  <1>4. PICK n \in Nat : n = Len(pixels)
    BY <1>2, LenProperties
  <1>5. DOMAIN pixels = 1 .. n
    BY <1>2, <1>4, LenProperties
  <1>6. /\ pixels' \in Seq(Image) /\ Len(pixels') = n + 1 /\ DOMAIN pixels' = 1 .. n + 1
        /\ \A i \in 1 .. n : pixels'[i] = pixels[i]
    <2>1. pixels' \in Seq(Image) /\ Len(pixels') = n + 1
      BY <1>1, <1>2, <1>3, <1>4, AppendProperties
    <2>2. \A i \in 1 .. n : pixels'[i] = pixels[i]
      BY <1>1, <1>2, <1>3, <1>4, AppendProperties
    <2> QED
      BY <2>1, <2>2, LenProperties
  <1>7. PICK k \in Nat : k = Len(free_frames)
    BY <1>2, LenProperties
  <1>8. /\ free_frames \in Seq(1 .. n + 1) /\ ready_frames \in Seq(1 .. n + 1)
        /\ held \subseteq [image : 1 .. n + 1, frame : Nat]
    <2>1. 1 .. n \subseteq 1 .. n + 1
      OBVIOUS
    <2>2. free_frames \in Seq(1 .. n + 1) /\ ready_frames \in Seq(1 .. n + 1)
      BY <1>2, <1>5, <2>1
    <2> QED
      BY <1>2, <1>5, <2>1, <2>2
  <1>9. /\ free_frames' \in Seq(1 .. n + 1) /\ Len(free_frames') = k + 1
        /\ \A i \in 1 .. k : free_frames'[i] = free_frames[i]
        /\ free_frames'[k + 1] = n + 1
    <2>1. n + 1 \in 1 .. n + 1
      OBVIOUS
    <2> QED
      BY <1>1, <1>4, <1>7, <1>8, <2>1, AppendProperties
  <1>10. /\ \A i \in 1 .. k : free_frames[i] \in 1 .. n
         /\ \A i \in 1 .. Len(ready_frames) : ready_frames[i] \in 1 .. n
         /\ \A f \in held : f.image \in 1 .. n
    <2>1. \A i \in 1 .. k : free_frames[i] \in 1 .. n
      BY <1>2, <1>5, <1>7, ElementOfSeq
    <2>2. \A i \in 1 .. Len(ready_frames) : ready_frames[i] \in 1 .. n
      BY <1>2, <1>5, ElementOfSeq
    <2> QED
      BY <1>2, <1>5, <2>1, <2>2
  <1>11. D!TypeOK'
    <2>1. /\ pixels' \in Seq([0 .. D!ImageSize - 1 -> Byte \cup {Junk}])
          /\ free_frames' \in Seq(DOMAIN pixels') /\ ready_frames' \in Seq(DOMAIN pixels')
          /\ held' \subseteq [image : DOMAIN pixels', frame : Nat]
      BY <1>1, <1>6, <1>8, <1>9 DEF Image
    <2> QED
      BY <1>1, <2>1 DEF IInv, DecoderOK, D!TypeOK
  <1>12. ImagesApart'
    <2>1. \A i \in 1 .. k + 1 : i \in 1 .. k \/ i = k + 1
      OBVIOUS
    <2>2. /\ \A i, j \in 1 .. k : i # j => free_frames[i] # free_frames[j]
          /\ \A i \in 1 .. k, j \in 1 .. Len(ready_frames) : free_frames[i] # ready_frames[j]
          /\ \A f \in held : \A i \in 1 .. k : free_frames[i] # f.image
      BY <1>7 DEF IInv, DecoderOK, ImagesApart
    <2>3. n + 1 \notin 1 .. n
      OBVIOUS
    <2>4. \A i, j \in 1 .. k + 1 : i # j => free_frames'[i] # free_frames'[j]
      BY <1>9, <1>10, <2>1, <2>2, <2>3
    <2>5. \A i \in 1 .. k + 1, j \in 1 .. Len(ready_frames) : free_frames'[i] # ready_frames[j]
      BY <1>9, <1>10, <2>1, <2>2, <2>3
    <2>6. \A f \in held : \A i \in 1 .. k + 1 : free_frames'[i] # f.image
      BY <1>9, <1>10, <2>1, <2>2, <2>3
    <2> QED
      BY <1>1, <1>9, <2>4, <2>5, <2>6 DEF IInv, DecoderOK, ImagesApart
  <1>13. FramesHeld'
    BY <1>1, <1>6, <1>10, HoldsIsHoldsIn DEF IInv, DecoderOK, FramesHeld
  <1>14. PartOK'
    <2>1. Current' = Current
      BY <1>1 DEF Current
    <2>2. ASSUME free_frames # << >>
          PROVE  /\ Head(free_frames') = Head(free_frames)
                 /\ pixels'[Head(free_frames)] = pixels[Head(free_frames)]
      <3>1. k # 0 /\ 1 \in 1 .. k
        BY <1>7, <1>8, <2>2, EmptySeq
      <3>2. Head(free_frames) = free_frames[1] /\ Head(free_frames') = free_frames'[1]
        OBVIOUS
      <3> QED
        BY <1>6, <1>9, <1>10, <3>1, <3>2
    <2> QED
      BY <1>1, <2>1, <2>2, PartKept DEF IInv
  <1>15. ThreadOK'
    <2>1. free_frames' # << >>
      BY <1>7, <1>9
    <2> QED
      BY <1>1, <2>1 DEF IInv, DecoderOK, ThreadOK, Flat
  <1>16. RingOK' /\ FlowOK' /\ UNCHANGED <<E!Unread, out>>
    BY <1>1, FlowKept
  <1> QED
    BY <1>11, <1>12, <1>13, <1>14, <1>15, <1>16 DEF IInv, DecoderOK

(* SVR_Decoder_getFrame: the first frame that is ready goes to the application. *)
LEMMA GetFrameKeeps ==
  ASSUME IInv, D!GetFrame, UNCHANGED <<encVars, provided>>
  PROVE  IInv' /\ UNCHANGED <<E!Unread, out>>
  <1>1. /\ ready_frames # << >>
        /\ held' = held \cup {[image |-> Head(ready_frames), frame |-> taken]}
        /\ ready_frames' = Tail(ready_frames) /\ taken' = taken + 1
        /\ UNCHANGED <<free_frames, write_offset, pixels, padded, pc, short, todo, written>>
    BY DEF D!GetFrame
  <1>2. /\ ready_frames \in Seq(DOMAIN pixels) /\ taken \in Nat
        /\ held \subseteq [image : DOMAIN pixels, frame : Nat]
    BY DEF IInv, DecoderOK, D!TypeOK
  <1>3. PICK k \in Nat \ {0} : k = Len(ready_frames)
    BY <1>1, <1>2, EmptySeq
  <1>4. /\ ready_frames' \in Seq(DOMAIN pixels) /\ Len(ready_frames') = k - 1
        /\ \A i \in 1 .. k - 1 : ready_frames'[i] = ready_frames[i + 1] /\ i + 1 \in 1 .. k
        /\ Head(ready_frames) \in DOMAIN pixels
    BY <1>1, <1>2, <1>3, HeadTailProperties
  <1>5. PICK f : f = [image |-> Head(ready_frames), frame |-> taken]
    OBVIOUS
  <1>6. /\ held' = held \cup {f} /\ f.image = ready_frames[1] /\ f.frame = taken
        /\ 1 \in 1 .. k /\ f \in [image : DOMAIN pixels, frame : Nat]
    BY <1>1, <1>2, <1>3, <1>4, <1>5
  <1>7. D!TypeOK'
    <2>1. held' \subseteq [image : DOMAIN pixels, frame : Nat] /\ taken' \in Nat
      BY <1>1, <1>2, <1>6
    <2> QED
      BY <1>1, <1>4, <2>1 DEF IInv, DecoderOK, D!TypeOK
  <1>8. ImagesApart'
    <2>1. /\ \A m, n \in 1 .. k : m # n => ready_frames[m] # ready_frames[n]
          /\ \A m \in 1 .. Len(free_frames), n \in 1 .. k : free_frames[m] # ready_frames[n]
          /\ \A g \in held : /\ \A m \in 1 .. Len(free_frames) : free_frames[m] # g.image
                             /\ \A n \in 1 .. k : ready_frames[n] # g.image
      BY <1>3 DEF IInv, DecoderOK, ImagesApart
    <2>2. \A m, n \in 1 .. k - 1 : m # n => ready_frames'[m] # ready_frames'[n]
      <3>1. \A m, n \in 1 .. k - 1 : m # n => m + 1 # n + 1
        OBVIOUS
      <3> QED
        BY <1>4, <2>1, <3>1, SMTT(30)
    <2>3. \A m \in 1 .. Len(free_frames), n \in 1 .. k - 1 : free_frames[m] # ready_frames'[n]
      BY <1>4, <2>1
    <2>4. ASSUME NEW g \in held'
          PROVE  /\ \A m \in 1 .. Len(free_frames) : free_frames[m] # g.image
                 /\ \A n \in 1 .. k - 1 : ready_frames'[n] # g.image
      <3>1. CASE g \in held
        BY <1>4, <2>1, <3>1
      <3>2. CASE g = f
        <4>1. \A n \in 1 .. k - 1 : n + 1 # 1
          OBVIOUS
        <4> QED
          BY <1>4, <1>6, <2>1, <3>2, <4>1
      <3> QED
        BY <1>6, <3>1, <3>2
    <2>5. \A g, h \in held' : g # h => g.image # h.image
      <3>1. \A g \in held : g.image # f.image
        BY <1>6, <2>1
      <3> QED
        BY <1>6, <3>1 DEF IInv, DecoderOK, ImagesApart
    <2> QED
      BY <1>1, <1>4, <2>2, <2>3, <2>4, <2>5 DEF IInv, DecoderOK, ImagesApart
  <1>9. FramesHeld'
    <2>1. /\ \A n \in 1 .. k : HoldsIn(pixels[ready_frames[n]], taken + n - 1)
          /\ \A g \in held : HoldsIn(pixels[g.image], g.frame)
      BY <1>3, HoldsIsHoldsIn DEF IInv, DecoderOK, FramesHeld
    <2>2. ASSUME NEW n \in 1 .. k - 1
          PROVE  HoldsIn(pixels[ready_frames'[n]], taken' + n - 1)
      <3>1. taken' + n - 1 = taken + (n + 1) - 1
        BY <1>1, <1>2
      <3> QED
        BY <1>4, <2>1, <3>1
    <2>3. HoldsIn(pixels[f.image], f.frame)
      <3>1. taken + 1 - 1 = taken
        BY <1>2
      <3> QED
        BY <1>6, <2>1, <3>1
    <2> QED
      BY <1>1, <1>4, <1>6, <2>1, <2>2, <2>3, HoldsIsHoldsIn DEF FramesHeld
  <1>10. PartOK'
    <2>1. Current' = Current
      BY <1>1, <1>2, <1>3, <1>4 DEF Current
    <2> QED
      BY <1>1, <2>1, PartKept DEF IInv
  <1>11. ThreadOK'
    BY <1>1 DEF IInv, DecoderOK, ThreadOK, Flat
  <1>12. RingOK' /\ FlowOK' /\ UNCHANGED <<E!Unread, out>>
    BY <1>1, FlowKept
  <1> QED
    BY <1>7, <1>8, <1>9, <1>10, <1>11, <1>12 DEF IInv, DecoderOK

(* SVR_Decoder_returnFrame: the image goes to the end of the free ones, whatever the
   decoding thread is at. *)
LEMMA ReturnFrameKeeps ==
  ASSUME IInv, NEW f \in held, D!ReturnFrame(f), UNCHANGED <<encVars, provided>>
  PROVE  IInv' /\ UNCHANGED <<E!Unread, out>>
  <1>1. /\ held' = held \ {f} /\ free_frames' = Append(free_frames, f.image)
        /\ UNCHANGED <<ready_frames, write_offset, pixels, padded, pc, short, todo, taken,
                       written>>
    BY DEF D!ReturnFrame
  <1>2. free_frames \in Seq(DOMAIN pixels) /\ f.image \in DOMAIN pixels
    BY DEF IInv, DecoderOK, D!TypeOK
  <1>3. PICK k \in Nat : k = Len(free_frames)
    BY <1>2, LenProperties
  <1>4. /\ free_frames' \in Seq(DOMAIN pixels) /\ Len(free_frames') = k + 1
        /\ \A i \in 1 .. k : free_frames'[i] = free_frames[i]
        /\ free_frames'[k + 1] = f.image
    BY <1>1, <1>2, <1>3, AppendProperties
  <1>5. D!TypeOK'
    BY <1>1, <1>4 DEF IInv, DecoderOK, D!TypeOK
  <1>6. ImagesApart'
    <2>1. \A i \in 1 .. k + 1 : i \in 1 .. k \/ i = k + 1
      OBVIOUS
    <2>2. /\ \A i, j \in 1 .. k : i # j => free_frames[i] # free_frames[j]
          /\ \A i \in 1 .. k, j \in 1 .. Len(ready_frames) : free_frames[i] # ready_frames[j]
          /\ \A g \in held : /\ \A i \in 1 .. k : free_frames[i] # g.image
                             /\ \A n \in 1 .. Len(ready_frames) : ready_frames[n] # g.image
          /\ \A g \in held : g # f => g.image # f.image
      BY <1>3 DEF IInv, DecoderOK, ImagesApart
    <2>3. \A i, j \in 1 .. k + 1 : i # j => free_frames'[i] # free_frames'[j]
      BY <1>4, <2>1, <2>2
    <2>4. \A i \in 1 .. k + 1, j \in 1 .. Len(ready_frames) : free_frames'[i] # ready_frames[j]
      BY <1>4, <2>1, <2>2
    <2>5. \A g \in held' : \A i \in 1 .. k + 1 : free_frames'[i] # g.image
      BY <1>1, <1>4, <2>1, <2>2
    <2> QED
      BY <1>1, <1>4, <2>3, <2>4, <2>5 DEF IInv, DecoderOK, ImagesApart
  <1>7. FramesHeld'
    BY <1>1, HoldsIsHoldsIn DEF IInv, DecoderOK, FramesHeld
  <1>8. PartOK'
    <2>1. Current' = Current
      BY <1>1 DEF Current
    <2>2. free_frames # << >> => Head(free_frames') = Head(free_frames)
      BY <1>1, <1>2, HeadTailAppend
    <2> QED
      BY <1>1, <2>1, <2>2, PartKept DEF IInv
  <1>9. ThreadOK'
    <2>1. free_frames' # << >>
      BY <1>3, <1>4
    <2> QED
      BY <1>1, <2>1 DEF IInv, DecoderOK, ThreadOK, Flat
  <1>10. RingOK' /\ FlowOK' /\ UNCHANGED <<E!Unread, out>>
    BY <1>1, FlowKept
  <1> QED
    BY <1>5, <1>6, <1>7, <1>8, <1>9, <1>10 DEF IInv, DecoderOK

-----------------------------------------------------------------------------
(* Writing to the current image. *)

(* A copy puts the next n bytes of the stream behind those that the image has. *)
LEMMA CopyWrites ==
  ASSUME IInv, free_frames # << >>, NEW n \in Nat, n <= Len(todo), D!Copy(n)
  PROVE  /\ Head(free_frames) \in DOMAIN pixels
         /\ pixels' \in Seq([0 .. D!ImageSize - 1 -> Byte \cup {Junk}])
         /\ DOMAIN pixels' = DOMAIN pixels
         /\ \A i \in DOMAIN pixels : i # Head(free_frames) => pixels'[i] = pixels[i]
         /\ \A o \in 0 .. D!ImageSize - 1 :
              pixels'[Head(free_frames)][o] =
                IF write_offset <= o /\ o < write_offset + n THEN written + (o - write_offset)
                ELSE pixels[Head(free_frames)][o]
         /\ todo' \in Seq(Byte) /\ Len(todo') = Len(todo) - n
         /\ \A i \in 1 .. Len(todo) - n : todo'[i] = todo[n + i]
         /\ written' = written + n
  <1> DEFINE Image == [0 .. D!ImageSize - 1 -> Byte \cup {Junk}]
  <1>1. /\ pixels \in Seq(Image) /\ free_frames \in Seq(DOMAIN pixels) /\ todo \in Seq(Byte)
        /\ write_offset \in 0 .. D!ImageSize - 1 /\ written \in Nat
    BY DEF IInv, DecoderOK, D!TypeOK
  <1>2. PICK h \in DOMAIN pixels : h = Head(free_frames)
    BY <1>1, HeadTailProperties
  <1>3. PICK s \in Nat \ {0} : s = D!ImageSize
    BY Sizes DEF IInv, DecoderOK, D!TypeOK
  <1>4. PICK t \in Nat : t = Len(todo)
    BY <1>1, LenProperties
  <1>5. PICK wo \in 0 .. s - 1 : wo = write_offset
    BY <1>1, <1>3
  <1>6. PICK img : img = [o \in DOMAIN pixels[h] |->
                            IF o \in write_offset .. write_offset + n - 1
                              THEN todo[o - write_offset + 1] ELSE pixels[h][o]]
    OBVIOUS
  <1>7. /\ pixels' = [pixels EXCEPT ![h] = img] /\ todo' = SubSeq(todo, n + 1, Len(todo))
        /\ written' = written + n
    BY <1>2, <1>6 DEF D!Copy
  <1>8. pixels[h] \in Image /\ DOMAIN pixels[h] = 0 .. s - 1
    <2>1. pixels[h] \in Image
      BY <1>1, LenProperties
    <2> QED
      BY <1>3, <2>1
  <1>9. \A i \in 1 .. t : todo[i] \in Byte /\ todo[i] = written + i - 1
    BY <1>1, <1>4, ElementOfSeq DEF IInv, FlowOK
  <1>10. ASSUME NEW o \in 0 .. s - 1
         PROVE  img[o] = IF wo <= o /\ o < wo + n THEN written + (o - wo) ELSE pixels[h][o]
    <2>1. img[o] = IF o \in wo .. wo + n - 1 THEN todo[o - wo + 1] ELSE pixels[h][o]
      BY <1>5, <1>6, <1>8
    <2>2. CASE wo <= o /\ o < wo + n
      <3>1. o - wo + 1 \in 1 .. t /\ o \in wo .. wo + n - 1
        BY <1>4, <2>2
      <3> QED
        BY <1>1, <1>9, <2>1, <2>2, <3>1
    <2>3. CASE ~(wo <= o /\ o < wo + n)
      BY <2>1, <2>3
    <2> QED
      BY <2>2, <2>3
  <1>11. img \in Image
    <2>1. ASSUME NEW o \in 0 .. s - 1
          PROVE (IF o \in wo .. wo + n - 1 THEN todo[o - wo + 1] ELSE pixels[h][o])
                  \in Byte \cup {Junk}
      <3>1. CASE o \in wo .. wo + n - 1
        <4>1. o - wo + 1 \in 1 .. t
          BY <1>4, <3>1
        <4> QED
          BY <1>9, <3>1, <4>1
      <3>2. CASE o \notin wo .. wo + n - 1
        BY <1>3, <1>8, <3>2
      <3> QED
        BY <3>1, <3>2
    <2> QED
      BY <1>3, <1>5, <1>6, <1>8, <2>1
  <1> HIDE DEF Image
  <1>12. /\ pixels' \in Seq(Image) /\ DOMAIN pixels' = DOMAIN pixels
         /\ \A i \in DOMAIN pixels : i # h => pixels'[i] = pixels[i]
         /\ pixels'[h] = img
    <2>1. pixels \in [1 .. Len(pixels) -> Image] /\ Len(pixels) \in Nat
      BY <1>1, LenProperties
    <2>2. pixels' \in [1 .. Len(pixels) -> Image]
      BY <1>7, <1>11, <2>1
    <2>3. pixels' \in Seq(Image)
      BY <2>1, <2>2
    <2> QED
      BY <1>7, <2>1, <2>3
  <1>13. /\ todo' \in Seq(Byte) /\ Len(todo') = t - n
         /\ \A i \in 1 .. t - n : todo'[i] = todo[n + i]
    <2>1. \A i \in n + 1 .. t : todo[i] \in Byte
      BY <1>9
    <2>2. todo' = SubSeq(todo, n + 1, t) /\ n <= t /\ n + 1 \in Int /\ t \in Int
      BY <1>4, <1>7
    <2> QED
      BY <2>1, <2>2, SubSeqProperties
  <1> QED
    BY <1>2, <1>3, <1>4, <1>5, <1>7, <1>10, <1>12, <1>13 DEF Image

(* A round of either loop, of which the part written so far is looked at separately. *)
LEMMA RoundKeeps ==
  ASSUME IInv, free_frames # << >>, NEW n \in Nat, n <= Len(todo), D!Copy(n),
         NEW offset \in 0 .. D!ImageSize - 1, D!Complete(offset),
         offset = 0 => HoldsIn(pixels'[Head(free_frames)], Current),
         pc # "idle", UNCHANGED <<held, padded, pc, short, taken, encVars, provided>>
  PROVE  /\ RingOK' /\ FlowOK' /\ UNCHANGED <<E!Unread, out>>
         /\ D!TypeOK' /\ ImagesApart' /\ FramesHeld' /\ ThreadOK'
         /\ offset = 0 => Current' = Current + 1
         /\ offset # 0 => Current' = Current /\ Head(free_frames') = Head(free_frames)
  <1>1. /\ write_offset' = offset
        /\ ready_frames' = IF offset = 0 THEN Append(ready_frames, Head(free_frames))
                           ELSE ready_frames
        /\ free_frames'  = IF offset = 0 THEN Tail(free_frames) ELSE free_frames
    BY DEF D!Complete
  <1>2. /\ free_frames \in Seq(DOMAIN pixels) /\ ready_frames \in Seq(DOMAIN pixels)
        /\ held \subseteq [image : DOMAIN pixels, frame : Nat]
        /\ taken \in Nat /\ written \in Nat /\ todo \in Seq(Byte)
    BY DEF IInv, DecoderOK, D!TypeOK
  <1>3. PICK h \in DOMAIN pixels : h = Head(free_frames)
    BY <1>2, HeadTailProperties
  <1>4. /\ pixels' \in Seq([0 .. D!ImageSize - 1 -> Byte \cup {Junk}])
        /\ DOMAIN pixels' = DOMAIN pixels
        /\ \A i \in DOMAIN pixels : i # h => pixels'[i] = pixels[i]
        /\ todo' \in Seq(Byte) /\ Len(todo') = Len(todo) - n
        /\ \A i \in 1 .. Len(todo) - n : todo'[i] = todo[n + i]
        /\ written' = written + n
    BY <1>3, CopyWrites
  <1>5. PICK k \in Nat \ {0} : k = Len(free_frames)
    BY <1>2, EmptySeq
  <1>6. PICK m \in Nat : m = Len(ready_frames)
    BY <1>2, LenProperties
  <1>7. h = free_frames[1] /\ 1 \in 1 .. k
    BY <1>3, <1>5
  <1>8. /\ \A i, j \in 1 .. k : i # j => free_frames[i] # free_frames[j]
        /\ \A i, j \in 1 .. m : i # j => ready_frames[i] # ready_frames[j]
        /\ \A i \in 1 .. k, j \in 1 .. m : free_frames[i] # ready_frames[j]
        /\ \A f \in held : /\ \A i \in 1 .. k : free_frames[i] # f.image
                           /\ \A j \in 1 .. m : ready_frames[j] # f.image
    BY <1>5, <1>6 DEF IInv, DecoderOK, ImagesApart
  <1>9. /\ \A j \in 1 .. m : ready_frames[j] # h /\ ready_frames[j] \in DOMAIN pixels
        /\ \A f \in held : f.image # h /\ f.image \in DOMAIN pixels
    <2>1. \A j \in 1 .. m : ready_frames[j] \in DOMAIN pixels
      BY <1>2, <1>6, ElementOfSeq
    <2> QED
      BY <1>2, <1>7, <1>8, <2>1
  <1>10. /\ \A j \in 1 .. m : HoldsIn(pixels'[ready_frames[j]], taken + j - 1)
         /\ \A f \in held : HoldsIn(pixels'[f.image], f.frame)
    <2>1. /\ \A j \in 1 .. m : HoldsIn(pixels[ready_frames[j]], taken + j - 1)
          /\ \A f \in held : HoldsIn(pixels[f.image], f.frame)
      BY <1>6, HoldsIsHoldsIn DEF IInv, DecoderOK, FramesHeld
    <2> QED
      BY <1>4, <1>9, <2>1
  <1>11. RingOK' /\ FlowOK' /\ UNCHANGED <<E!Unread, out>>
    <2>1. UNCHANGED <<E!Unread, E!DataReady, out>>
      BY DEF encVars, E!Unread, E!DataReady
    <2>2. RingOK'
      BY <2>1 DEF IInv, RingOK, E!TypeOK, encVars
    <2>3. PICK t \in Nat : t = Len(todo)
      BY <1>2, LenProperties
    <2>4. PICK u \in Nat : u = Len(E!Unread)
      BY LenProperties DEF IInv, RingOK
    <2>5. PICK v \in Nat : v = written
      BY <1>2
    <2>6. /\ provided = v + t + u
          /\ \A i \in 1 .. t : todo[i] = v + i - 1
          /\ \A i \in 1 .. u : E!Unread[i] = v + t + i - 1
      BY <2>3, <2>4, <2>5 DEF IInv, FlowOK
    <2>7. ASSUME NEW i \in 1 .. t - n PROVE todo'[i] = (v + n) + i - 1
      <3>1. n + i \in 1 .. t
        BY <2>3
      <3> QED
        BY <1>4, <2>3, <2>6, <3>1
    <2>8. \A i \in 1 .. u : E!Unread[i] = (v + n) + (t - n) + i - 1
      BY <2>6
    <2>9. provided = (v + n) + (t - n) + u
      BY <2>6
    <2>10. FlowOK'
      BY <1>4, <2>1, <2>3, <2>4, <2>5, <2>7, <2>8, <2>9 DEF IInv, FlowOK
    <2> QED
      BY <2>1, <2>2, <2>10
  <1>12. CASE offset # 0
    <2>1. UNCHANGED <<ready_frames, free_frames, held, padded, taken>>
      BY <1>1, <1>12
    <2>2. D!TypeOK'
      BY <1>1, <1>2, <1>4, <2>1 DEF IInv, DecoderOK, D!TypeOK
    <2>3. ImagesApart'
      BY <2>1 DEF IInv, DecoderOK, ImagesApart
    <2>4. FramesHeld'
      BY <1>6, <1>10, <2>1, HoldsIsHoldsIn DEF FramesHeld
    <2>5. ThreadOK'
      BY <2>1 DEF IInv, DecoderOK, ThreadOK, Flat
    <2> QED
      BY <1>11, <1>12, <2>1, <2>2, <2>3, <2>4, <2>5 DEF Current
  <1>13. CASE offset = 0
    <2>1. ready_frames' = Append(ready_frames, h) /\ free_frames' = Tail(free_frames)
      BY <1>1, <1>3, <1>13
    <2>2. /\ ready_frames' \in Seq(DOMAIN pixels) /\ Len(ready_frames') = m + 1
          /\ \A j \in 1 .. m : ready_frames'[j] = ready_frames[j]
          /\ ready_frames'[m + 1] = h
      BY <1>2, <1>6, <2>1, AppendProperties
    <2>3. /\ free_frames' \in Seq(DOMAIN pixels) /\ Len(free_frames') = k - 1
          /\ \A i \in 1 .. k - 1 : free_frames'[i] = free_frames[i + 1] /\ i + 1 \in 1 .. k
      BY <1>2, <1>5, <2>1, HeadTailProperties
    <2>4. D!TypeOK'
      <3>1. written' \in Nat
        BY <1>2, <1>4
      <3> QED
        BY <1>1, <1>4, <2>2, <2>3, <3>1 DEF IInv, DecoderOK, D!TypeOK
    <2>5. ImagesApart'
      <3>1. \A j \in 1 .. m + 1 : j \in 1 .. m \/ j = m + 1
        OBVIOUS
      <3>2. \A i \in 1 .. k - 1 : i + 1 # 1
        OBVIOUS
      <3>3. \A i, j \in 1 .. k - 1 : i # j => i + 1 # j + 1
        OBVIOUS
      <3>4. \A i, j \in 1 .. k - 1 : i # j => free_frames'[i] # free_frames'[j]
        BY <1>8, <2>3, <3>3
      <3>5. \A i, j \in 1 .. m + 1 : i # j => ready_frames'[i] # ready_frames'[j]
        BY <1>8, <1>9, <2>2, <3>1
      <3>6. \A i \in 1 .. k - 1, j \in 1 .. m + 1 : free_frames'[i] # ready_frames'[j]
        BY <1>7, <1>8, <2>2, <2>3, <3>1, <3>2
      <3>7. \A f \in held : /\ \A i \in 1 .. k - 1 : free_frames'[i] # f.image
                            /\ \A j \in 1 .. m + 1 : ready_frames'[j] # f.image
        BY <1>8, <1>9, <2>2, <2>3, <3>1
      <3> QED
        BY <2>2, <2>3, <3>4, <3>5, <3>6, <3>7 DEF IInv, DecoderOK, ImagesApart
    <2>6. FramesHeld'
      <3>1. HoldsIn(pixels'[h], taken + m)
        BY <1>3, <1>6, <1>13 DEF Current
      <3>2. ASSUME NEW j \in 1 .. m + 1
            PROVE  HoldsIn(pixels'[ready_frames'[j]], taken + j - 1)
        <4>1. CASE j \in 1 .. m
          BY <1>10, <2>2, <4>1
        <4>2. CASE j = m + 1
          <5>1. taken + j - 1 = taken + m
            BY <1>2, <4>2
          <5> QED
            BY <2>2, <3>1, <4>2, <5>1
        <4> QED
          BY <4>1, <4>2
      <3> QED
        BY <1>10, <2>2, <3>2, HoldsIsHoldsIn DEF FramesHeld
    <2>7. ThreadOK'
      BY <1>1, <1>13 DEF IInv, DecoderOK, ThreadOK, Flat
    <2>8. Current' = Current + 1
      BY <1>2, <1>6, <2>2 DEF Current
    <2> QED
      BY <1>11, <1>13, <2>4, <2>5, <2>6, <2>7, <2>8
  <1> QED
    BY <1>12, <1>13

(* One round of SVR_Decoder_writePaddedFrameData. *)
LEMMA WritePaddedKeeps ==
  ASSUME IInv, D!WritePadded, UNCHANGED <<encVars, provided>>
  PROVE  IInv' /\ UNCHANGED <<E!Unread, out>>
  <1>1. /\ padded \in BOOLEAN /\ todo \in Seq(Byte) /\ written \in Nat
        /\ write_offset \in 0 .. D!ImageSize - 1
        /\ taken \in Nat /\ ready_frames \in Seq(DOMAIN pixels)
    BY DEF IInv, DecoderOK, D!TypeOK
  <1>2. PICK s \in Nat \ {0} : s = D!ImageSize
    BY <1>1, Sizes
  <1>3. PICK wo \in 0 .. s - 1 : wo = write_offset
    BY <1>1, <1>2
  <1>4. todo # << >>
    BY DEF D!WritePadded
  <1>5. PICK t \in Nat \ {0} : t = Len(todo)
    BY <1>1, <1>4, EmptySeq
  <1>6. PICK n \in Nat : n = IF s - wo < t THEN s - wo ELSE t
    OBVIOUS
  <1>7. /\ pc = "padded" /\ free_frames # << >> /\ D!Copy(n)
        /\ D!Complete((wo + n) % s)
        /\ UNCHANGED <<held, padded, pc, short, taken>>
    BY <1>2, <1>3, <1>5, <1>6 DEF D!WritePadded, D!HasFrame
  <1>8. PICK offset \in 0 .. s - 1 : offset = IF wo + n < s THEN wo + n ELSE 0
    BY <1>6
  <1>9. (wo + n) % s = offset
    <2>1. CASE wo + n < s
      BY <1>8, <2>1
    <2>2. CASE wo + n = s
      BY <1>8, <2>2
    <2> QED
      BY <1>6, <2>1, <2>2
  <1>10. /\ Flat /\ Flat' /\ D!FrameBytes' = D!FrameBytes /\ D!FrameBytes = s
    BY <1>1, <1>2, <1>7, Sizes DEF IInv, DecoderOK, ThreadOK, Flat, D!FrameBytes
  <1>11. PICK k \in Nat : k = Current
    BY <1>1, LenProperties DEF Current
  <1>12. PICK b \in Nat : b = k * s
    OBVIOUS
  <1>13. PICK h : h = Head(free_frames)
    OBVIOUS
  <1>14. /\ written = b + wo /\ \A o \in 0 .. wo - 1 : pixels[h][o] = b + o
    BY <1>3, <1>10, <1>11, <1>12, <1>13 DEF IInv, DecoderOK, PartOK, FlatOK
  <1>15. /\ \A o \in 0 .. s - 1 : pixels'[h][o] = IF wo <= o /\ o < wo + n
                                                   THEN written + (o - wo) ELSE pixels[h][o]
         /\ written' = written + n
    BY <1>2, <1>3, <1>5, <1>6, <1>7, <1>13, CopyWrites, SMTT(30)
  <1>16. ASSUME NEW o \in 0 .. wo + n - 1 PROVE pixels'[h][o] = b + o
    <2>1. o \in 0 .. s - 1
      BY <1>6
    <2>2. CASE wo <= o
      BY <1>14, <1>15, <2>1, <2>2
    <2>3. CASE ~(wo <= o)
      BY <1>14, <1>15, <2>1, <2>3
    <2> QED
      BY <2>2, <2>3
  <1>17. offset = 0 => HoldsIn(pixels'[h], Current)
    <2>1. SUFFICES ASSUME offset = 0 PROVE HoldsIn(pixels'[h], k)
      BY <1>11
    <2>2. wo + n = s
      BY <1>6, <1>8, <2>1
    <2>3. \A o \in 0 .. D!ImageSize - 1 : pixels'[h][o] = k * D!FrameBytes + o
      BY <1>2, <1>10, <1>12, <1>16, <2>2
    <2> QED
      BY <1>1, <1>10, <2>3, FlatHolds
  <1>18. /\ RingOK' /\ FlowOK' /\ UNCHANGED <<E!Unread, out>>
         /\ D!TypeOK' /\ ImagesApart' /\ FramesHeld' /\ ThreadOK'
         /\ offset = 0 => Current' = Current + 1
         /\ offset # 0 => Current' = Current /\ Head(free_frames') = Head(free_frames)
    <2>1. n <= Len(todo) /\ pc # "idle" /\ offset \in 0 .. D!ImageSize - 1
      BY <1>2, <1>5, <1>6, <1>7
    <2>2. D!Complete(offset) /\ (offset = 0 => HoldsIn(pixels'[Head(free_frames)], Current))
      BY <1>7, <1>9, <1>13, <1>17
    <2> QED
      BY <1>7, <2>1, <2>2, RoundKeeps
  <1>19. write_offset' = offset
    BY <1>7, <1>9 DEF D!Complete
  <1>20. FlatOK'
    <2>1. CASE offset = 0
      <3>1. Current' = k + 1 /\ (k + 1) * s = b + s /\ wo + n = s
        BY <1>6, <1>8, <1>11, <1>12, <1>18, <2>1
      <3>2. written' = Current' * D!FrameBytes' + write_offset'
        BY <1>10, <1>14, <1>15, <1>19, <2>1, <3>1
      <3> QED
        BY <1>19, <2>1, <3>2 DEF FlatOK
    <2>2. CASE offset # 0
      <3>1. Current' = k /\ offset = wo + n /\ Head(free_frames') = h
        BY <1>8, <1>11, <1>13, <1>18, <2>2
      <3>2. written' = b + offset
        BY <1>14, <1>15, <3>1
      <3> QED
        BY <1>10, <1>12, <1>16, <1>19, <3>1, <3>2 DEF FlatOK
    <2> QED
      BY <2>1, <2>2
  <1> QED
    BY <1>10, <1>18, <1>20 DEF IInv, DecoderOK, PartOK

(* One round of SVR_Decoder_writeUnpaddedFrameData, which ends at the latest with the
   row, and then skips the padding. *)
LEMMA WriteUnpaddedKeeps ==
  ASSUME IInv, D!WriteUnpadded, UNCHANGED <<encVars, provided>>
  PROVE  IInv' /\ UNCHANGED <<E!Unread, out>>
  <1>1. /\ padded \in BOOLEAN /\ todo \in Seq(Byte) /\ written \in Nat
        /\ taken \in Nat /\ ready_frames \in Seq(DOMAIN pixels)
    BY DEF IInv, DecoderOK, D!TypeOK
  <1>2. /\ pc = "unpadded" /\ todo # << >> /\ free_frames # << >>
        /\ UNCHANGED <<held, padded, pc, short, taken>>
    BY DEF D!WriteUnpadded, D!HasFrame
  <1>3. PICK w \in Nat \ {0} : w = D!WidthStep
    BY <1>1, Sizes
  <1>4. PICK q \in Nat \ {0} : q = RowBytes
    BY <1>1, Sizes
  <1>5. PICK z \in Nat \ {0} : z = Height
    BY <1>1, Sizes
  <1>6. PICK s \in Nat \ {0} : s = D!ImageSize
    BY <1>1, Sizes
  <1>7. PICK fb \in Nat \ {0} : fb = D!FrameBytes
    BY <1>1, Sizes
  <1>8. /\ ~Flat /\ ~Flat' /\ ~padded /\ D!FrameBytes' = fb
        /\ Padding \in Nat \ {0} /\ w = q + Padding /\ s = z * w /\ fb = z * q
    BY <1>1, <1>2, <1>3, <1>4, <1>5, <1>6, <1>7, Sizes
      DEF IInv, DecoderOK, ThreadOK, Flat, D!FrameBytes
  <1>9. \E r \in 0 .. z - 1, c \in 0 .. q - 1 : RowOK(r, c)
    BY <1>4, <1>5, <1>8 DEF IInv, DecoderOK, PartOK
  <1>10. PICK r \in 0 .. z - 1 : \E c \in 0 .. q - 1 : RowOK(r, c)
    BY <1>9
  <1>11. PICK c \in 0 .. q - 1 : RowOK(r, c)
    BY <1>10
  <1>12. PICK k \in Nat : k = Current
    BY <1>1, LenProperties DEF Current
  <1>13. PICK b \in Nat : b = k * fb
    OBVIOUS
  <1>14. PICK h : h = Head(free_frames)
    OBVIOUS
  <1>15. PICK rw \in Nat : rw = r * w
    OBVIOUS
  <1>16. PICK rq \in Nat : rq = r * q
    OBVIOUS
  <1>17. PICK wo \in Nat : wo = write_offset
    <2>1. write_offset = rw + c
      BY <1>3, <1>11, <1>15 DEF RowOK
    <2> QED
      BY <2>1
  <1>18. /\ wo = rw + c /\ written = b + rq + c
         /\ \A y \in 0 .. z - 1, x \in 0 .. q - 1 :
              y < r \/ (y = r /\ x < c) => pixels[h][y * w + x] = b + y * q + x
    BY <1>3, <1>4, <1>5, <1>7, <1>11, <1>12, <1>13, <1>14, <1>15, <1>16, <1>17 DEF RowOK
  <1>19. PICK t \in Nat \ {0} : t = Len(todo)
    BY <1>1, <1>2, EmptySeq
  <1>20. PICK n \in Nat \ {0} : n = IF q - c < t THEN q - c ELSE t
    <2>1. q - c \in Nat \ {0}
      OBVIOUS
    <2> QED
      BY <2>1
  <1>21. wo % w = c
    BY <1>8, <1>15, <1>18, Rows
  <1>22. D!Copy(n) /\ D!Complete(D!PastPadding(wo + n)) /\ n <= t /\ c + n <= q
    <2>1. D!Copy(n) /\ D!Complete(D!PastPadding(wo + n))
      BY <1>3, <1>4, <1>17, <1>19, <1>20, <1>21 DEF D!WriteUnpadded
    <2> QED
      BY <1>20, <2>1
  <1>23. /\ rw + w = (r + 1) * w /\ rq + q = (r + 1) * q
         /\ rw + w <= s /\ (r + 1 < z => rw + w < s) /\ (r + 1 = z => rw + w = s)
    <2>1. rw + w = (r + 1) * w /\ rq + q = (r + 1) * q
      BY <1>15, <1>16
    <2>2. r + 1 < z => (r + 1) * w + 0 < z * w
      BY Rows
    <2>3. r + 1 = z => rw + w = s
      BY <1>8, <2>1
    <2> QED
      BY <1>8, <2>1, <2>2, <2>3
  <1>24. PICK offset \in Nat : offset = IF c + n < q THEN wo + n
                                        ELSE IF r + 1 < z THEN rw + w ELSE 0
    OBVIOUS
  <1>25. D!PastPadding(wo + n) = offset /\ offset \in 0 .. s - 1
    <2>1. wo + n = r * w + (c + n) /\ c + n < w
      BY <1>8, <1>15, <1>18, <1>22
    <2>2. (wo + n) % w = c + n
      <3>1. PICK e \in Nat : e = c + n
        OBVIOUS
      <3>2. e < w /\ r \in Nat
        BY <2>1, <3>1
      <3>3. (r * w + e) % w = e
        BY <3>2, Rows
      <3> QED
        BY <2>1, <3>1, <3>3
    <2>3. CASE c + n < q
      BY <1>3, <1>4, <1>8, <1>18, <1>23, <1>24, <2>1, <2>2, <2>3 DEF D!PastPadding
    <2>4. CASE c + n = q
      <3>1. wo + n + Padding = rw + w
        BY <1>8, <1>18, <2>4
      <3>2. D!PastPadding(wo + n) = (rw + w) % s
        BY <1>3, <1>4, <1>6, <2>2, <2>4, <3>1 DEF D!PastPadding
      <3>3. CASE r + 1 < z
        BY <1>23, <1>24, <2>4, <3>2, <3>3
      <3>4. CASE r + 1 = z
        <4>1. s % s = 0
          OBVIOUS
        <4> QED
          BY <1>23, <1>24, <2>4, <3>2, <3>4, <4>1
      <3> QED
        BY <3>3, <3>4
    <2> QED
      BY <1>22, <2>3, <2>4
  <1>26. /\ \A o \in 0 .. s - 1 : pixels'[h][o] = IF wo <= o /\ o < wo + n
                                                   THEN written + (o - wo) ELSE pixels[h][o]
         /\ written' = written + n
    BY <1>2, <1>6, <1>14, <1>17, <1>19, <1>22, CopyWrites
  <1>27. ASSUME NEW y \in 0 .. z - 1, NEW x \in 0 .. q - 1, y < r \/ (y = r /\ x < c + n)
         PROVE  pixels'[h][y * w + x] = b + y * q + x
    <2>1. PICK p \in Nat : p = y * w + x
      OBVIOUS
    <2>2. p \in 0 .. s - 1
      <3>1. y * w + x < z * w
        BY <1>8, Rows
      <3> QED
        BY <1>8, <2>1, <3>1
    <2>3. CASE y < r \/ (y = r /\ x < c)
      <3>1. p < wo
        <4>1. CASE y < r
          <5>1. y * w + x < r * w
            BY <1>8, <4>1, Rows
          <5> QED
            BY <1>15, <1>18, <2>1, <5>1
        <4>2. CASE y = r /\ x < c
          BY <1>15, <1>18, <2>1, <4>2
        <4> QED
          BY <2>3, <4>1, <4>2
      <3>2. pixels'[h][p] = pixels[h][p]
        BY <1>26, <2>2, <3>1
      <3> QED
        BY <1>18, <2>1, <2>3, <3>2
    <2>4. CASE y = r /\ ~(x < c)
      <3>1. p = rw + x /\ wo <= p /\ p < wo + n
        BY <1>15, <1>18, <1>27, <2>1, <2>4
      <3>2. pixels'[h][p] = written + (p - wo)
        BY <1>26, <2>2, <3>1
      <3>3. written + (p - wo) = b + rq + x
        BY <1>18, <3>1
      <3> QED
        BY <1>16, <2>1, <2>4, <3>2, <3>3
    <2> QED
      BY <1>27, <2>3, <2>4
  <1>28. offset = 0 => r + 1 = z /\ c + n = q
    BY <1>18, <1>20, <1>22, <1>24
  <1>29. offset = 0 => HoldsIn(pixels'[h], Current)
    <2>1. SUFFICES ASSUME offset = 0 PROVE HoldsIn(pixels'[h], k)
      BY <1>12
    <2>2. ASSUME NEW y \in 0 .. Height - 1, NEW x \in 0 .. RowBytes - 1
          PROVE  pixels'[h][y * D!WidthStep + x] = k * D!FrameBytes + y * RowBytes + x
      <3>1. y \in 0 .. z - 1 /\ x \in 0 .. q - 1
        BY <1>4, <1>5
      <3>2. y < r \/ (y = r /\ x < c + n)
        BY <1>28, <2>1, <3>1
      <3>3. pixels'[h][y * w + x] = b + y * q + x
        BY <1>27, <3>1, <3>2
      <3> QED
        BY <1>3, <1>4, <1>7, <1>13, <3>3
    <2> QED
      BY <1>8, <2>2 DEF HoldsIn
  <1>30. /\ RingOK' /\ FlowOK' /\ UNCHANGED <<E!Unread, out>>
         /\ D!TypeOK' /\ ImagesApart' /\ FramesHeld' /\ ThreadOK'
         /\ offset = 0 => Current' = Current + 1
         /\ offset # 0 => Current' = Current /\ Head(free_frames') = Head(free_frames)
    BY <1>2, <1>6, <1>14, <1>19, <1>22, <1>25, <1>29, RoundKeeps
  <1>31. write_offset' = offset
    BY <1>22, <1>25 DEF D!Complete
  <1>32. CASE c + n < q
    <2>1. offset = r * w + (c + n) /\ offset # 0 /\ c + n \in 0 .. q - 1
      BY <1>15, <1>18, <1>20, <1>24, <1>32
    <2>2. Current' = k /\ Head(free_frames') = h
      BY <1>12, <1>14, <1>30, <2>1
    <2>3. written' = b + rq + (c + n)
      BY <1>18, <1>26
    <2>4. RowOK(r, c + n)'
      <3>1. ASSUME NEW y \in 0 .. Height - 1, NEW x \in 0 .. RowBytes - 1,
                   y < r \/ (y = r /\ x < c + n)
            PROVE  pixels'[h][y * D!WidthStep + x]
                     = Current' * D!FrameBytes' + y * RowBytes + x
        <4>1. pixels'[h][y * w + x] = b + y * q + x
          BY <1>4, <1>5, <1>27, <3>1
        <4> QED
          BY <1>3, <1>4, <1>8, <1>13, <2>2, <4>1
      <3>2. write_offset' = r * D!WidthStep + (c + n)
        BY <1>3, <1>31, <2>1
      <3>3. written' = Current' * D!FrameBytes' + r * RowBytes + (c + n)
        BY <1>4, <1>8, <1>13, <1>16, <2>2, <2>3
      <3> QED
        BY <2>2, <3>1, <3>2, <3>3 DEF RowOK
    <2> QED
      BY <1>4, <1>5, <1>8, <1>30, <2>1, <2>4 DEF IInv, DecoderOK, PartOK
  <1>33. CASE c + n = q /\ r + 1 < z
    <2>1. offset = (r + 1) * w + 0 /\ offset # 0 /\ r + 1 \in 0 .. z - 1 /\ 0 \in 0 .. q - 1
      BY <1>23, <1>24, <1>33
    <2>2. Current' = k /\ Head(free_frames') = h
      BY <1>12, <1>14, <1>30, <2>1
    <2>3. written' = b + (r + 1) * q + 0
      BY <1>18, <1>23, <1>26, <1>33
    <2>5. RowOK(r + 1, 0)'
      <3>1. ASSUME NEW y \in 0 .. Height - 1, NEW x \in 0 .. RowBytes - 1,
                   y < r + 1 \/ (y = r + 1 /\ x < 0)
            PROVE  pixels'[h][y * D!WidthStep + x]
                     = Current' * D!FrameBytes' + y * RowBytes + x
        <4>1. y \in 0 .. z - 1 /\ x \in 0 .. q - 1 /\ (y < r \/ (y = r /\ x < c + n))
          BY <1>4, <1>5, <1>33, <3>1
        <4>2. pixels'[h][y * w + x] = b + y * q + x
          BY <1>27, <4>1
        <4> QED
          BY <1>3, <1>4, <1>8, <1>13, <2>2, <4>2
      <3>2. write_offset' = (r + 1) * D!WidthStep + 0
        BY <1>3, <1>31, <2>1
      <3>3. written' = Current' * D!FrameBytes' + (r + 1) * RowBytes + 0
        BY <1>4, <1>8, <1>13, <2>2, <2>3
      <3> QED
        BY <2>2, <3>1, <3>2, <3>3 DEF RowOK
    <2> QED
      BY <1>4, <1>5, <1>8, <1>30, <2>1, <2>5 DEF IInv, DecoderOK, PartOK
  <1>34. CASE c + n = q /\ r + 1 = z
    <2>1. offset = 0 * w + 0 /\ 0 \in 0 .. z - 1 /\ 0 \in 0 .. q - 1
      BY <1>24, <1>34
    <2>2. Current' = k + 1
      BY <1>12, <1>30, <2>1
    <2>3. written' = (k + 1) * fb + 0 * q + 0
      <3>1. rq + q = fb
        BY <1>8, <1>23, <1>34
      <3>2. (k + 1) * fb = b + fb
        BY <1>13
      <3> QED
        BY <1>18, <1>26, <1>34, <3>1, <3>2
    <2>4. \A y \in 0 .. z - 1, x \in 0 .. q - 1 : ~(y < 0 \/ (y = 0 /\ x < 0))
      OBVIOUS
    <2>5. RowOK(0, 0)'
      BY <1>3, <1>4, <1>5, <1>8, <1>31, <2>1, <2>2, <2>3, <2>4 DEF RowOK
    <2> QED
      BY <1>4, <1>5, <1>8, <1>30, <2>1, <2>5 DEF IInv, DecoderOK, PartOK
  <1> QED
    BY <1>22, <1>32, <1>33, <1>34

-----------------------------------------------------------------------------
(* SVR_Encoder_new and SVR_Decoder_new establish the invariant. *)
LEMMA InitOK ==
  ASSUME Init
  PROVE  IInv /\ E!Fifo!Init
  <1>1. /\ buffer_size = 1 /\ buffer = [i \in {0} |-> Junk] /\ read_index = 0
        /\ write_index = 0 /\ out = << >> /\ provided = 0
    BY DEF Init, E!Init
  <1>2. /\ free_frames = << >> /\ ready_frames = << >> /\ write_offset = 0 /\ pixels = << >>
        /\ held = {} /\ padded \in BOOLEAN /\ pc = "idle" /\ short = FALSE /\ todo = << >>
        /\ taken = 0 /\ written = 0
    BY DEF Init, D!Init
  <1>3. E!TypeOK
    <2>1. 0 .. buffer_size - 1 = {0}
      BY <1>1
    <2>2. buffer \in [{0} -> Byte \cup {Junk}]
      BY <1>1
    <2>3. out \in Seq(Byte)
      BY <1>1, EmptySeq
    <2> QED
      BY <1>1, <2>1, <2>2, <2>3 DEF E!TypeOK
  <1>4. E!Unread = << >> /\ Len(E!Unread) = 0 /\ E!Unread \in Seq(Byte)
    <2>1. E!DataReady = 0
      BY <1>1 DEF E!DataReady
    <2>2. Len(E!Unread) = 0
      BY <1>3, <2>1, Ready
    <2>3. DOMAIN E!Unread = {}
      BY <2>1 DEF E!Unread
    <2>4. E!Unread \in Seq(Byte)
      BY <2>1, <2>3 DEF E!Unread
    <2> QED
      BY <2>2, <2>4, EmptySeq
  <1>5. RingOK
    BY <1>3, <1>4 DEF RingOK
  <1>6. FlowOK
    <2>1. provided \in 0 .. MaxBytes
      BY <1>1, CodecAssumption
    <2> QED
      BY <1>1, <1>2, <1>4, <2>1 DEF FlowOK
  <1>7. D!TypeOK
    <2>1. write_offset \in 0 .. D!ImageSize - 1
      BY <1>2, Sizes
    <2>2. /\ pixels \in Seq([0 .. D!ImageSize - 1 -> Byte \cup {Junk}])
          /\ free_frames \in Seq(DOMAIN pixels) /\ ready_frames \in Seq(DOMAIN pixels)
          /\ todo \in Seq(Byte)
      BY <1>2, EmptySeq
    <2>3. held \subseteq [image : DOMAIN pixels, frame : Nat]
      BY <1>2
    <2> QED
      BY <1>2, <2>1, <2>2, <2>3 DEF D!TypeOK
  <1>8. ImagesApart /\ FramesHeld /\ ThreadOK
    <2>1. 1 .. Len(<< >>) = {}
      OBVIOUS
    <2> QED
      BY <1>2, <2>1 DEF ImagesApart, FramesHeld, ThreadOK
  <1>9. PartOK
    <2>1. Current = 0
      BY <1>2 DEF Current
    <2>2. PICK fb \in Nat : fb = D!FrameBytes
      BY <1>2, Sizes
    <2>3. FlatOK
      BY <1>2, <2>1, <2>2 DEF FlatOK
    <2>4. RowOK(0, 0)
      <3>1. \A y \in 0 .. Height - 1, x \in 0 .. RowBytes - 1 : ~(y < 0 \/ (y = 0 /\ x < 0))
        OBVIOUS
      <3>2. 0 * D!WidthStep = 0 /\ 0 * RowBytes = 0 /\ 0 * fb = 0
        BY <1>2, Sizes
      <3> QED
        BY <1>2, <2>1, <2>2, <3>1, <3>2 DEF RowOK
    <2>5. 0 \in 0 .. Height - 1 /\ 0 \in 0 .. RowBytes - 1
      BY <1>2, Sizes
    <2> QED
      BY <2>3, <2>4, <2>5 DEF PartOK
  <1> QED
    BY <1>1, <1>4, <1>5, <1>6, <1>7, <1>8, <1>9 DEF IInv, DecoderOK, E!Fifo!Init

(* Every step keeps the invariant, and is one of the FIFO's or leaves the FIFO alone. *)
LEMMA NextOK ==
  ASSUME IInv, [Next]_vars
  PROVE  IInv' /\ [E!Fifo!Next]_<<E!Unread, out>>
  <1>1. ASSUME NEW n \in 1 .. MaxProvide, Encode(n)
        PROVE  IInv' /\ [E!Fifo!Next]_<<E!Unread, out>>
    BY <1>1, EncodeKeeps
  <1>2. ASSUME NEW n \in 1 .. MaxBuffered, Transfer(n)
        PROVE  IInv' /\ [E!Fifo!Next]_<<E!Unread, out>>
    BY <1>2, TransferKeeps
  <1>3. CASE DecodeStep
    <2>1. UNCHANGED <<encVars, provided>>
      BY <1>3 DEF DecodeStep
    <2>2. D!NoneFree \/ D!Enter \/ D!Return \/ D!NewImage \/ D!WritePadded \/ D!WriteUnpadded
      BY <1>3 DEF DecodeStep, D!DecodeStep
    <2>3. IInv' /\ UNCHANGED <<E!Unread, out>>
      BY <2>1, <2>2, QuietKeeps, NewImageKeeps, WritePaddedKeeps, WriteUnpaddedKeeps
    <2> QED
      BY <2>3
  <1>4. CASE GetFrame
    BY <1>4, GetFrameKeeps DEF GetFrame
  <1>5. ASSUME NEW f \in held, ReturnFrame(f)
        PROVE  IInv' /\ [E!Fifo!Next]_<<E!Unread, out>>
    BY <1>5, ReturnFrameKeeps DEF ReturnFrame
  <1>6. CASE UNCHANGED vars
    <2>1. UNCHANGED <<encVars, provided, decVars>>
      BY <1>6 DEF vars
    <2>2. UNCHANGED <<todo, written, free_frames, ready_frames, held, write_offset, pixels,
                      padded, taken, pc, short>>
      BY <2>1 DEF decVars
    <2>3. RingOK' /\ FlowOK' /\ UNCHANGED <<E!Unread, out>>
      BY <2>1, <2>2, FlowKept
    <2>4. ImagesApart' /\ FramesHeld' /\ PartOK'
      BY <2>2, ImagesKept DEF IInv
    <2>5. D!TypeOK' /\ ThreadOK'
      BY <2>2 DEF IInv, DecoderOK, D!TypeOK, ThreadOK, Flat
    <2> QED
      BY <2>3, <2>4, <2>5 DEF IInv, DecoderOK
  <1> QED
    BY <1>1, <1>2, <1>3, <1>4, <1>5, <1>6 DEF Next

(* The invariant of encoder, bytes on their way and decoder. *)
THEOREM CodecInvariant == Spec => []IInv
  <1>1. Init => IInv
    BY InitOK
  <1>2. IInv /\ [Next]_vars => IInv'
    BY NextOK
  <1> QED
    BY <1>1, <1>2, PTL DEF Spec

(* The ring's indices stay within it, the offset within the image, and every image and
   frame that the decoder names exists. *)
THEOREM CodecTypes == Spec => []TypeOK
  <1>1. IInv => TypeOK
    BY DEF IInv, RingOK, FlowOK, DecoderOK, TypeOK
  <1> QED
    BY <1>1, CodecInvariant, PTL

(* However SVR_Encoder_provideData's pieces and SVR_Encoder_readData's requests follow
   each other, the ring returns the bytes it was given, in order and once: it implements
   the FIFO. *)
THEOREM RingIsFifo == Spec => ImplementsFifo
  <1>1. Init => E!Fifo!Init
    BY InitOK
  <1>2. IInv /\ [Next]_vars => [E!Fifo!Next]_<<E!Unread, out>>
    BY NextOK
  <1>3. Spec => E!Fifo!Spec
    BY <1>1, <1>2, CodecInvariant, PTL DEF Spec, E!Fifo!Spec
  <1> QED
    BY <1>3 DEF ImplementsFifo, E!ImplementsFifo

(* For images of any size with any padding, cut into messages in any way, with images
   returned at any moment: the frames that left the decoder hold their own bytes in
   their rows, in order, and none is late. *)
THEOREM FramesAreWhole == Spec => []FramesWhole
  <1>1. ASSUME IInv PROVE FramesWhole
    <2>1. padded \in BOOLEAN /\ taken \in Nat /\ ready_frames \in Seq(DOMAIN pixels)
      BY <1>1 DEF IInv, DecoderOK, D!TypeOK
    <2>2. PICK fb \in Nat \ {0} : fb = D!FrameBytes
      BY <2>1, Sizes
    <2>3. PICK k \in Nat : k = Current
      BY <2>1, LenProperties DEF Current
    <2>4. \E p \in Nat : p < fb /\ written = k * fb + p
      <3>1. CASE Flat
        <4>1. PICK p \in Nat : p = write_offset
          BY <1>1, <2>1, Sizes DEF IInv, DecoderOK, D!TypeOK
        <4>2. p < fb
          BY <1>1, <2>1, <2>2, <3>1, <4>1, Sizes DEF IInv, DecoderOK, D!TypeOK
        <4>3. written = k * fb + p
          BY <1>1, <2>2, <2>3, <3>1, <4>1 DEF IInv, DecoderOK, PartOK, FlatOK
        <4> QED
          BY <4>2, <4>3
      <3>2. CASE ~Flat
        <4>1. PICK q \in Nat \ {0} : q = RowBytes
          BY <2>1, Sizes
        <4>2. PICK z \in Nat \ {0} : z = Height
          BY <2>1, Sizes
        <4>3. fb = z * q
          BY <2>1, <2>2, <3>2, <4>1, <4>2, Sizes
        <4>4. PICK r \in 0 .. z - 1 : \E c \in 0 .. q - 1 : RowOK(r, c)
          BY <1>1, <3>2, <4>1, <4>2 DEF IInv, DecoderOK, PartOK
        <4>5. PICK c \in 0 .. q - 1 : RowOK(r, c)
          BY <4>4
        <4>6. PICK p \in Nat : p = r * q + c
          OBVIOUS
        <4>7. p < fb
          <5>1. r * q + c < z * q
            BY Rows
          <5> QED
            BY <4>3, <4>6, <5>1
        <4>8. written = k * fb + p
          <5>1. written = Current * D!FrameBytes + r * RowBytes + c
            BY <4>5 DEF RowOK
          <5>2. k * fb \in Nat /\ r * q \in Nat
            OBVIOUS
          <5> QED
            BY <2>2, <2>3, <4>1, <4>6, <5>1, <5>2
        <4> QED
          BY <4>7, <4>8
      <3> QED
        BY <3>1, <3>2
    <2>5. PICK p \in Nat : p < fb /\ written = k * fb + p
      BY <2>4
    <2>6. written \div fb = k
      BY <2>5, Rows
    <2> QED
      BY <1>1, <2>2, <2>3, <2>6 DEF IInv, DecoderOK, FramesHeld, FramesWhole, D!FramesWhole,
                                    Current
  <1> QED
    BY <1>1, CodecInvariant, PTL
=============================================================================
