------------------------------- MODULE MCWire -------------------------------
(* A reply, a Data message whose payload holds a terminator, and a message of the
   greatest length. *)
EXTENDS Wire

MCMessages ==
  {[request_id |-> 1, components |-> << <<1>> >>, payload |-> << >>],
   [request_id |-> 0, components |-> << <<2>>, << >> >>, payload |-> <<0, 3>>],
   [request_id |-> 2, components |-> << <<1, 1, 1>>, <<2, 2>> >>, payload |-> << >>]}

(* Messages of up to three components, of every length that fits the header. *)
Strings == UNION {[1 .. n -> {1, 2}] : n \in 0 .. 3}
Small == {m \in [request_id : {0, Modulus - 1},
                 components : UNION {[1 .. n -> Strings] : n \in 0 .. 3},
                 payload : {[i \in 1 .. n |-> 0] : n \in {0, 1, Modulus - 1}}] :
            Len(PackStrings(m.components)) < Modulus}

\* SVR_PackedMessage_unpack reads what SVR_Message_pack has written.
ASSUME PackRoundTrips == \A m \in Small \cup Messages : RoundTrips(m)
=============================================================================
