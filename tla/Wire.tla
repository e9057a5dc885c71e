-------------------------------- MODULE Wire --------------------------------
(***************************************************************************)
(* One direction of a connection, from the server to a client: the threads *)
(* of the server that send to the client (its own, with replies, and the   *)
(* workers of its streams, with Data) share a socket, and the client's     *)
(* receive thread cuts the bytes that come out into messages again.        *)
(*                                                                         *)
(* A message is packed (lib/message.c, lib/pack.c) and sent, body before   *)
(* payload, with as many calls of send as it takes (lib/net.c), under the  *)
(* client's lock (server/client.c; send_lock of lib/comm.c in the other    *)
(* direction).  SVRD_Client_markForClosing closes the socket, at which its *)
(* number may become that of another connection.                           *)
(*                                                                         *)
(* A cell of the byte stream is a field of the header, 16 bits wide, or a  *)
(* character; 0 ends a component.                                          *)
(***************************************************************************)
EXTENDS Naturals, Sequences, SequencesExt

CONSTANTS Thread,    \* the threads that send
          Messages,  \* the messages they may send
          Modulus,   \* 2^16: what a field of the header can tell apart
          MaxSent,   \* bound: messages sent
          NULL

Prefix == 4   \* the fields of the header

Char    == 0 .. Modulus - 1
Message == [request_id : Char, components : Seq(Seq(Char)), payload : Seq(Char)]
Packed  == [request_id : Char, components : Seq(Seq(Char)), payload_size : Char]

\* SVR_pack: a string and its terminator; the components of a message, one after the other.
PackString(s)  == Append(s, 0)
PackStrings(c) == FlattenSeq([i \in DOMAIN c |-> PackString(c[i])])

\* Components hold no terminator, and their lengths fit the header.
ASSUME WireAssumption ==
  /\ Modulus \in Nat \ {0} /\ MaxSent \in Nat /\ NULL \notin Thread
  /\ \A m \in Messages :
       /\ m \in Message
       /\ \A i \in DOMAIN m.components : 0 \notin Range(m.components[i])
       /\ Len(PackStrings(m.components)) < Modulus
       /\ Len(m.payload) < Modulus

VARIABLES
  \* The server
  state,     \* client->state
  lock,      \* the thread that has the client's lock, or NULL
  fd,        \* client->socket is open, or was closed
  rest,      \* what is left to send of each thread's message: body and payload
  order,     \* the messages, in the order in which their sending began
  \* The connection
  socket,    \* the cells sent and not yet received
  lost,      \* the connection broke
  \* The client's receive thread
  at,        \* what it receives next
  length,    \* the length it has peeked at
  message,   \* the message whose payload it receives
  received   \* the messages received

sender   == <<state, lock, fd, rest, order>>
receiver == <<at, length, message, received>>
vars     == <<sender, socket, lost, receiver>>

\* The sum of SVR_Message_pack, in 16 bits: each component and its terminator.
TotalDataLength(c) ==
  LET total[i \in 0 .. Len(c)] == IF i = 0 THEN 0 ELSE (total[i - 1] + Len(c[i]) + 1) % Modulus
  IN  total

\* SVR_Message_pack: the header, with fields of 16 bits, and the components.
PackHeader(m) == <<TotalDataLength(m.components)[Len(m.components)], m.request_id,
                   Len(m.components), Len(m.payload)>>
Pack(m)       == PackHeader(m) \o PackStrings(m.components)

\* SVR_unpack of strings: pack_offset after each of n, which is that of its terminator.
PackOffset(cells, n) ==
  LET offset[i \in 0 .. n] ==
        IF i = 0 THEN Prefix ELSE Min({j \in offset[i - 1] + 1 .. Len(cells) : cells[j] = 0})
  IN  offset

UnpackStrings(cells, n) ==
  LET offset == PackOffset(cells, n)
  IN  [i \in 1 .. n |-> SubSeq(cells, offset[i - 1] + 1, offset[i] - 1)]

\* SVR_PackedMessage_unpack: as many components as the header says.
Unpack(cells) == [request_id   |-> cells[2],
                  components   |-> UnpackStrings(cells, cells[3]),
                  payload_size |-> cells[4]]

\* Unpack undoes Pack, and the length in the header is that of what follows it.
RoundTrips(m) ==
  /\ Pack(m) \in Seq(Char) /\ Prefix <= Len(Pack(m)) /\ Len(Pack(m)) = Prefix + Pack(m)[1]
  /\ Unpack(Pack(m)) = [request_id   |-> m.request_id,
                        components   |-> m.components,
                        payload_size |-> Len(m.payload)]

Init == /\ state = "CONNECTED" /\ lock = NULL /\ fd = "open"
        /\ rest = [t \in Thread |-> NULL]
        /\ order = << >> /\ socket = << >> /\ lost = FALSE
        /\ at = "length" /\ length = 0 /\ message = NULL /\ received = << >>

-----------------------------------------------------------------------------
(* The server's threads. *)

\* Mutant: the state is tested, but the lock not taken.
BeginUnlocked(t, m) ==
  /\ rest[t] = NULL /\ Len(order) < MaxSent
  /\ state # "CLOSED"
  /\ rest' = [rest EXCEPT ![t] = [body |-> Pack(m), payload |-> m.payload]]
  /\ order' = Append(order, m)
  /\ UNCHANGED <<state, lock, fd, socket, lost, receiver>>

\* SVRD_Client_sendMessage: lock, test the state, pack the message.
Begin(t, m) ==
  /\ rest[t] = NULL /\ lock = NULL /\ Len(order) < MaxSent
  /\ state # "CLOSED"
  /\ lock' = t
  /\ rest' = [rest EXCEPT ![t] = [body |-> Pack(m), payload |-> m.payload]]
  /\ order' = Append(order, m)
  /\ UNCHANGED <<state, fd, socket, lost, receiver>>

\* send takes some of what it is given, of the body first; nothing arrives any more
\* once the connection is lost.
SendSome(t, part) ==
  /\ rest[t] # NULL /\ rest[t][part] # << >>
  /\ part = "payload" => rest[t].body = << >>
  /\ \E n \in 1 .. Len(rest[t][part]) :
       /\ rest' = [rest EXCEPT ![t][part] = SubSeq(@, n + 1, Len(@))]
       /\ socket' = IF lost THEN socket ELSE socket \o SubSeq(rest[t][part], 1, n)
  /\ UNCHANGED <<state, lock, fd, order, lost, receiver>>

\* SVR_Net_sendPackedMessage returns, at its end or when send fails, and the lock is
\* released.
EndSend(t) == /\ rest[t] # NULL
              /\ lost \/ (rest[t].body = << >> /\ rest[t].payload = << >>)
              /\ rest' = [rest EXCEPT ![t] = NULL]
              /\ lock' = IF lock = t THEN NULL ELSE lock
              /\ UNCHANGED <<state, fd, order, socket, lost, receiver>>

\* SVRD_Client_markForClosing sets the state under the lock ...
MarkForClosing == /\ state = "CONNECTED" /\ lock = NULL
                  /\ state' = "CLOSED"
                  /\ UNCHANGED <<lock, fd, rest, order, socket, lost, receiver>>

\* ... and closes the socket without it; what was sent still arrives.
CloseSocket == /\ state = "CLOSED" /\ fd = "open"
               /\ fd' = "closed"
               /\ UNCHANGED <<state, lock, rest, order, socket, lost, receiver>>

\* The connection breaks, with some of what was sent still to arrive.
Lose == /\ ~lost
        /\ lost' = TRUE
        /\ \E n \in 0 .. Len(socket) : socket' = SubSeq(socket, 1, n)
        /\ UNCHANGED <<sender, receiver>>

-----------------------------------------------------------------------------
(* The receive thread.  SVR_Net_recv returns when all of the n cells asked for
   have come, or at the end of the connection. *)

\* Mutant: the last cell that has come is left for later.
AvailableMore(n) == Len(socket) > n

Available(n) == Len(socket) >= n

Over == lost \/ fd = "closed"

\* Mutant: the length includes the header's.
PeekLengthAll == /\ at = "length" /\ Available(1)
                 /\ length' = Prefix + socket[1]
                 /\ at' = "body"
                 /\ UNCHANGED <<sender, socket, lost, message, received>>

\* Peek at the length of the next message ...
PeekLength == /\ at = "length" /\ Available(1)
              /\ length' = socket[1]
              /\ at' = "body"
              /\ UNCHANGED <<sender, socket, lost, message, received>>

Deliver(m) == received' = Append(received, m)

\* Mutant: a payload is left in the socket.
ReceiveBodyOnly ==
  /\ at = "body" /\ Available(Prefix + length)
  /\ socket' = SubSeq(socket, Prefix + length + 1, Len(socket))
  /\ LET m == Unpack(SubSeq(socket, 1, Prefix + length))
     IN  Deliver([request_id |-> m.request_id, components |-> m.components, payload |-> << >>])
  /\ at' = "length"
  /\ UNCHANGED <<sender, lost, length, message>>

\* ... receive that much and the header ...
ReceiveBody ==
  /\ at = "body" /\ Available(Prefix + length)
  /\ socket' = SubSeq(socket, Prefix + length + 1, Len(socket))
  /\ LET m == Unpack(SubSeq(socket, 1, Prefix + length))
     IN  IF m.payload_size > 0
           THEN at' = "payload" /\ message' = m /\ UNCHANGED received
           ELSE /\ Deliver([request_id |-> m.request_id, components |-> m.components,
                            payload |-> << >>])
                /\ at' = "length" /\ UNCHANGED message
  /\ UNCHANGED <<sender, lost, length>>

\* ... and the payload it announces.
ReceivePayload ==
  /\ at = "payload" /\ Available(message.payload_size)
  /\ Deliver([request_id |-> message.request_id, components |-> message.components,
              payload |-> SubSeq(socket, 1, message.payload_size)])
  /\ socket' = SubSeq(socket, message.payload_size + 1, Len(socket))
  /\ at' = "length" /\ message' = NULL
  /\ UNCHANGED <<sender, lost, length>>

\* The connection ends before all of it has come: the thread ends, too.
EndOfStream == /\ Over
               /\ \/ at = "length"  /\ ~Available(1)
                  \/ at = "body"    /\ ~Available(Prefix + length)
                  \/ at = "payload" /\ ~Available(message.payload_size)
               /\ at' = "ended"
               /\ UNCHANGED <<sender, socket, lost, length, message, received>>

-----------------------------------------------------------------------------
SenderStep(t) == SendSome(t, "body") \/ SendSome(t, "payload") \/ EndSend(t)
Receive == PeekLength \/ ReceiveBody \/ ReceivePayload \/ EndOfStream

Next == \/ \E t \in Thread : SenderStep(t) \/ \E m \in Messages : Begin(t, m)
        \/ Receive
        \/ MarkForClosing \/ CloseSocket \/ Lose

Spec == Init /\ [][Next]_vars

(* Threads that have begun to send go on, and the receive thread runs. *)
FairSpec == Spec /\ WF_vars(Receive) /\ \A t \in Thread : WF_vars(SenderStep(t))
-----------------------------------------------------------------------------
(* Properties. *)

TypeOK == /\ state \in {"CONNECTED", "CLOSED"} /\ lock \in Thread \cup {NULL}
          /\ fd \in {"open", "closed"} /\ lost \in BOOLEAN
          /\ rest \in [Thread -> [body : Seq(Char), payload : Seq(Char)] \cup {NULL}]
          /\ order \in Seq(Messages) /\ socket \in Seq(Char)
          /\ at \in {"length", "body", "payload", "ended"} /\ length \in Char
          /\ message \in Packed \cup {NULL}
          /\ received \in Seq(Message)

\* What is received is a prefix of what was sent: messages of several threads, with
\* and without payload, of any length that 16 bits can tell, are not torn, merged or
\* mixed, wherever send stops and whenever the connection breaks or is closed.
ReceivedInOrder == IsPrefix(received, order)

\* Nobody is sending when the socket is closed, whose number may then be that of
\* another client.
NoSendAfterClose == fd = "closed" => \A t \in Thread : rest[t] = NULL

\* Every message is received, unless the connection ends.
AllReceived == \A k \in 1 .. MaxSent : (Len(order) >= k) ~> (Len(received) >= k \/ Over)
=============================================================================
