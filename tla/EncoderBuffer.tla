---------------------------- MODULE EncoderBuffer ----------------------------
(***************************************************************************)
(* The output buffer of an SVR_Encoder (lib/encoding.c): a ring that one   *)
(* byte always keeps from being full, grown in place when encoded data     *)
(* does not fit.  Encodings put data in with SVR_Encoder_provideData; the  *)
(* stream worker of the server and SVR_Source_sendFrame of the client take *)
(* it out in chunks with SVR_Encoder_readData.  Both hold the encoder's    *)
(* lock throughout, so each is one action.                                 *)
(***************************************************************************)
EXTENDS Integers, Sequences

CONSTANTS Byte,         \* the values of a byte
          Junk,         \* memory that malloc or realloc returned and nobody wrote
          Pieces,       \* the sequences of bytes that may be provided at once
          MaxBuffered   \* bound: bytes buffered at once

VARIABLES buffer,       \* encoder->buffer, indexed from 0
          buffer_size,  \* encoder->buffer_size
          read_index,   \* encoder->read_index
          write_index,  \* encoder->write_index
          out           \* what the last readData stored to its caller's buffer

vars == <<buffer, buffer_size, read_index, write_index, out>>

Least(a, b) == IF a <= b THEN a ELSE b

\* The buffer is NULL and buffer_size 1 at first: the byte at 0 is never touched.
Init == /\ buffer_size = 1
        /\ buffer      = [i \in {0} |-> Junk]
        /\ read_index  = 0
        /\ write_index = 0
        /\ out         = << >>

\* SVR_Encoder_dataReady
DataReady == IF read_index <= write_index
               THEN write_index - read_index
               ELSE (buffer_size - read_index) + write_index

\* The bytes that SVR_Encoder_readData copies out for a request of n: the first
\* chunk up to the end of the ring, the rest from its start.
ReadChunk(n) ==
  LET read_size   == Least(DataReady, n)
      first_chunk == Least(read_size, buffer_size - read_index)
  IN  [i \in 1 .. read_size |-> IF i <= first_chunk THEN buffer[read_index + i - 1]
                                                    ELSE buffer[i - first_chunk - 1]]

\* SVR_Encoder_readData
ReadData(n) == /\ out'        = ReadChunk(n)
               /\ read_index' = (read_index + Least(DataReady, n)) % buffer_size
               /\ UNCHANGED <<buffer, buffer_size, write_index>>

\* realloc(buf, size): the old bytes that fit, then memory nobody wrote.
Realloc(buf, old, size) ==
  [i \in 0 .. size - 1 |-> IF i < old THEN buf[i] ELSE Junk]

\* Mutant: a wrapped ring is grown without being straightened out.
GrownWrapped(n) ==
  LET size == DataReady + n + 1
      fits == buffer_size - DataReady > n
  IN  [buf   |-> IF fits THEN buffer ELSE Realloc(buffer, buffer_size, size),
       size  |-> IF fits THEN buffer_size ELSE size,
       read  |-> read_index,
       write |-> write_index]

\* The ring before the copy: grown, and straightened out when the unread bytes
\* wrap round its end.
Grown(n) ==
  LET size == DataReady + n + 1
  IN  IF buffer_size - DataReady > n
        THEN [buf |-> buffer, size |-> buffer_size, read |-> read_index, write |-> write_index]
      ELSE IF write_index < read_index
        THEN [buf   |-> LET temp_space == ReadChunk(DataReady)
                            moved == Realloc(buffer, buffer_size, size)
                        IN  [i \in 0 .. size - 1 |->
                               IF i < DataReady THEN temp_space[i + 1] ELSE moved[i]],
              size  |-> size,
              read  |-> 0,
              write |-> DataReady]
      ELSE   [buf |-> Realloc(buffer, buffer_size, size),
              size |-> size, read |-> read_index, write |-> write_index]

\* The two copies at the end of SVR_Encoder_provideData.
Stored(g, data) ==
  LET n         == Len(data)
      end_space == g.size - g.write
  IN  [i \in 0 .. g.size - 1 |->
         IF g.write <= i /\ i < g.write + Least(n, end_space) THEN data[i - g.write + 1]
         ELSE IF i < n - end_space THEN data[end_space + i + 1]
         ELSE g.buf[i]]

\* Mutant: write_index is not taken round the ring.
ProvideDataNoWrap(data) ==
  LET g == Grown(Len(data))
  IN  /\ DataReady + Len(data) <= MaxBuffered
      /\ buffer'      = Stored(g, data)
      /\ buffer_size' = g.size
      /\ read_index'  = g.read
      /\ write_index' = g.write + Len(data)
      /\ UNCHANGED out

\* SVR_Encoder_provideData
ProvideData(data) ==
  LET g == Grown(Len(data))
  IN  /\ DataReady + Len(data) <= MaxBuffered
      /\ buffer'      = Stored(g, data)
      /\ buffer_size' = g.size
      /\ read_index'  = g.read
      /\ write_index' = (g.write + Len(data)) % g.size
      /\ UNCHANGED out

Next == \/ \E data \in Pieces : ProvideData(data)
        \/ \E n \in 0 .. MaxBuffered : ReadData(n)

Spec == Init /\ [][Next]_vars
-----------------------------------------------------------------------------
TypeOK == /\ buffer_size \in Nat \ {0}
          /\ buffer \in [0 .. buffer_size - 1 -> Byte \cup {Junk}]
          /\ read_index \in 0 .. buffer_size - 1
          /\ write_index \in 0 .. buffer_size - 1
          /\ out \in Seq(Byte)

\* The unread bytes: DataReady of them from read_index on, round the ring.
Unread == [i \in 1 .. DataReady |->
             buffer[IF read_index + i - 1 < buffer_size THEN read_index + i - 1
                    ELSE read_index + i - 1 - buffer_size]]

\* The ring implements the FIFO: across wraps, growth in place and growth with a
\* wrapped ring, no byte is lost, repeated, reordered or taken from memory that
\* nobody wrote.
Fifo == INSTANCE ByteQueue WITH queue <- Unread, Data <- Pieces
ImplementsFifo == Fifo!Spec
=============================================================================
