------------------------------ MODULE ByteQueue ------------------------------
(***************************************************************************)
(* What the output buffer of an encoder promises: an unbounded FIFO of     *)
(* bytes.  Data is appended at its end; a read takes the lesser of what    *)
(* was asked for and what is there, from its front.                        *)
(***************************************************************************)
EXTENDS Naturals, Sequences

CONSTANTS Data,         \* the sequences of bytes that may be provided at once
          MaxBuffered   \* bound: bytes buffered at once

VARIABLES queue,  \* the bytes provided and not yet read, oldest first
          out     \* what the last read returned

Provide(data) == /\ Len(queue) + Len(data) <= MaxBuffered
                 /\ queue' = queue \o data
                 /\ UNCHANGED out

Read(n) == LET k == IF n < Len(queue) THEN n ELSE Len(queue)
           IN /\ out'   = SubSeq(queue, 1, k)
              /\ queue' = SubSeq(queue, k + 1, Len(queue))

Init == queue = << >> /\ out = << >>

Next == \/ \E data \in Data : Provide(data)
        \/ \E n \in 0 .. MaxBuffered : Read(n)

Spec == Init /\ [][Next]_<<queue, out>>
=============================================================================
