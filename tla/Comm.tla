-------------------------------- MODULE Comm --------------------------------
(***************************************************************************)
(* The client library's request/response layer: lib/comm.c over            *)
(* lib/responseset.c.  Every operation of the ResponseSet runs under its   *)
(* lock and is one action; the waits of SVR_ResponseSet_getResponse on the *)
(* condition variable new_response are explicit ("wait"), so a wake-up     *)
(* that is not sent is lost.  The server is external: it takes requests    *)
(* from the socket in order and answers each once, echoing its request id  *)
(* (SVRD_Client_reply), until the connection ends.                         *)
(*                                                                         *)
(* A message is abstracted to its request_id and to the call it belongs    *)
(* to, <<t, n>> for the n-th call of thread t: a name for its contents.    *)
(***************************************************************************)
EXTENDS Integers, Sequences, FiniteSets

CONSTANTS Threads,        \* the threads of the client program
          Grow,           \* RESPONSE_SET_GROW
          MaxRequestId,   \* max_request_id, MAX_REQUEST_ID in comm.c
          MaxCalls,       \* bound: requests made by each thread
          NULL,           \* no response yet
          Junk,           \* what realloc leaves in the new entries of response
          Free            \* the owner of an unlocked lock

ASSUME CommAssumption == /\ Grow \in Nat \ {0}
                         /\ MaxRequestId \in Nat
                         /\ MaxCalls \in Nat
                         /\ Free \notin Threads
                         /\ NULL # Junk
                         /\ NULL \notin Threads \X Nat
                         /\ Junk \notin Threads \X Nat

VARIABLES setSize,    \* response_set->set_size
          pending,    \* response_set->response_pending
          response,   \* response_set->response
          nextId,     \* response_set->next_request_id
          lock,       \* who is left holding the ResponseSet's lock between two steps
          pc,         \* where each thread is
          id,         \* id[t]: the response_id of t's call, -1 when it got none
          calls,      \* calls[t]: the number of requests t has made
          got,        \* got[t]: what t's last request returned
          requests,   \* the socket, client to server
          replies,    \* the socket, server to client
          sock        \* "open" or "closed"

set  == <<setSize, pending, response, nextId>>
vars == <<setSize, pending, response, nextId, lock, pc, id, calls, got,
          requests, replies, sock>>

Ids   == 0 .. setSize - 1
Calls == Threads \X Nat
Messages == [request_id : Nat, call : Calls]

TypeOK == /\ setSize \in Nat \ {0}
          /\ pending \in [Ids -> BOOLEAN]
          /\ response \in [Ids -> Calls \cup {NULL, Junk}]
          /\ nextId \in Ids
          /\ lock \in Threads \cup {Free}
          /\ pc \in [Threads -> {"idle", "send", "get", "wait", "lost"}]
          /\ id \in [Threads -> Ids \cup {-1}]
          /\ calls \in [Threads -> Nat]
          /\ got \in [Threads -> Calls \cup {NULL, Junk}]
          /\ requests \in Seq(Messages)
          /\ replies \in Seq(Messages)
          /\ sock \in {"open", "closed"}

Init == /\ setSize  = Grow
        /\ pending  = [i \in 0 .. Grow - 1 |-> FALSE]
        /\ response = [i \in 0 .. Grow - 1 |-> NULL]
        /\ nextId   = 0
        /\ lock     = Free
        /\ pc       = [t \in Threads |-> "idle"]
        /\ id       = [t \in Threads |-> -1]
        /\ calls    = [t \in Threads |-> 0]
        /\ got      = [t \in Threads |-> NULL]
        /\ requests = << >>
        /\ replies  = << >>
        /\ sock     = "open"

-----------------------------------------------------------------------------
(* SVR_ResponseSet_getRequestId, called by SVR_Comm_sendMessage. *)

Begin(t) == /\ pc[t] = "idle" /\ lock = Free /\ calls[t] < MaxCalls
            /\ calls' = [calls EXCEPT ![t] = @ + 1]
            /\ pc' = [pc EXCEPT ![t] = "send"]

\* Mutant: the search does not look at response_pending.
IsFirstFreeUnchecked(i) == i = nextId

\* The first entry at or after next_request_id, cyclically, with no response pending.
IsFirstFree(i) == \E k \in 0 .. setSize - 1 :
                     /\ i = (nextId + k) % setSize
                     /\ ~pending[i]
                     /\ \A j \in 0 .. k - 1 : pending[(nextId + j) % setSize]

\* Mutant: response[response_id] = NULL is forgotten.
ReuseIdNoReset(t) == /\ Begin(t)
                     /\ \E i \in Ids : /\ IsFirstFree(i)
                                       /\ id'       = [id EXCEPT ![t] = i]
                                       /\ nextId'   = (i + 1) % setSize
                                       /\ pending'  = [pending EXCEPT ![i] = TRUE]
                     /\ UNCHANGED <<setSize, response, lock, got, requests, replies, sock>>

ReuseId(t) == /\ Begin(t)
              /\ \E i \in Ids :
                   /\ IsFirstFree(i)
                   /\ id'       = [id EXCEPT ![t] = i]
                   /\ nextId'   = (i + 1) % setSize
                   /\ pending'  = [pending EXCEPT ![i] = TRUE]
                   /\ response' = [response EXCEPT ![i] = NULL]
              /\ UNCHANGED <<setSize, lock, got, requests, replies, sock>>

AllPending == \A i \in Ids : pending[i]

\* Mutant: only response_pending is reallocated.
GrowSetPendingOnly(t) ==
  /\ Begin(t)
  /\ AllPending
  /\ setSize + Grow < MaxRequestId
  /\ setSize' = setSize + Grow
  /\ pending' = [i \in 0 .. setSize + Grow - 1 |-> IF i < setSize THEN pending[i] ELSE i = setSize]
  /\ id'      = [id EXCEPT ![t] = setSize]
  /\ nextId'  = (setSize + 1) % (setSize + Grow)
  /\ UNCHANGED <<response, lock, got, requests, replies, sock>>

GrowSet(t) == /\ Begin(t)
              /\ AllPending
              /\ setSize + Grow < MaxRequestId
              /\ setSize'  = setSize + Grow
              /\ pending'  = [i \in 0 .. setSize + Grow - 1 |->
                                IF i < setSize THEN pending[i] ELSE i = setSize]
              /\ response' = [i \in 0 .. setSize + Grow - 1 |->
                                IF i < setSize THEN response[i]
                                ELSE IF i = setSize THEN NULL ELSE Junk]
              /\ id'       = [id EXCEPT ![t] = setSize]
              /\ nextId'   = (setSize + 1) % (setSize + Grow)
              /\ UNCHANGED <<lock, got, requests, replies, sock>>

\* "return -1" without SVR_UNLOCK: the caller keeps the lock.
NoIdLeft(t) == /\ Begin(t)
               /\ AllPending
               /\ setSize + Grow >= MaxRequestId
               /\ id'   = [id EXCEPT ![t] = -1]
               /\ lock' = t
               /\ UNCHANGED <<set, got, requests, replies, sock>>

GetRequestId(t) == ReuseId(t) \/ GrowSet(t) \/ NoIdLeft(t)

-----------------------------------------------------------------------------
(* The rest of SVR_Comm_sendMessage: the send under send_lock, then          *)
(* SVR_ResponseSet_getResponse.                                              *)

Send(t) == /\ pc[t] = "send"
           /\ requests' = IF sock = "open"
                            THEN Append(requests, [request_id |-> id[t] + 1,
                                                   call |-> <<t, calls[t]>>])
                            ELSE requests
           /\ pc' = [pc EXCEPT ![t] = "get"]
           /\ UNCHANGED <<set, lock, id, calls, got, replies, sock>>

\* Mutant: the id is not made available for reuse.
GetResponseKeepId(t) ==
  /\ pc[t] = "get" /\ lock = Free
  /\ \/ /\ response[id[t]] = NULL
        /\ pc' = [pc EXCEPT ![t] = "wait"]
        /\ UNCHANGED got
     \/ /\ response[id[t]] # NULL
        /\ got' = [got EXCEPT ![t] = response[id[t]]]
        /\ pc'  = [pc EXCEPT ![t] = "idle"]
  /\ UNCHANGED <<set, lock, id, calls, requests, replies, sock>>

GetResponse(t) ==
  /\ pc[t] = "get" /\ lock = Free
  /\ \/ /\ response[id[t]] = NULL
        /\ pc' = [pc EXCEPT ![t] = "wait"]
        /\ UNCHANGED <<pending, got>>
     \/ /\ response[id[t]] # NULL
        /\ got'     = [got EXCEPT ![t] = response[id[t]]]
        /\ pending' = [pending EXCEPT ![id[t]] = FALSE]
        /\ pc'      = [pc EXCEPT ![t] = "idle"]
  /\ UNCHANGED <<setSize, response, nextId, lock, id, calls, requests, replies, sock>>

\* With the id -1 the caller, which still owns the lock, reads response[-1]:
\* nothing is known of it from here on.
GetNoResponse(t) == /\ pc[t] = "get" /\ lock = t /\ id[t] = -1
                    /\ pc' = [pc EXCEPT ![t] = "lost"]
                    /\ UNCHANGED <<set, lock, id, calls, got, requests, replies, sock>>

-----------------------------------------------------------------------------
(* SVR_Comm_receiveThread and SVR_ResponseSet_setResponse. *)

\* Mutant: pthread_cond_signal, which wakes a single one of the waiting threads.
BroadcastToOne == \/ \E t \in Threads : pc[t] = "wait" /\ pc' = [pc EXCEPT ![t] = "get"]
                  \/ (\A t \in Threads : pc[t] # "wait") /\ UNCHANGED pc

\* pthread_cond_broadcast(&new_response)
Broadcast == pc' = [t \in Threads |-> IF pc[t] = "wait" THEN "get" ELSE pc[t]]

SetResponse(i, r) == \/ /\ i \in Ids /\ pending[i]
                        /\ response' = [response EXCEPT ![i] = r]
                        /\ Broadcast
                     \/ /\ ~(i \in Ids /\ pending[i])
                        /\ UNCHANGED <<response, pc>>

\* A message with request id 0 goes to SVR_MessageRouter_processMessage instead.
Receive == /\ replies # << >>
           /\ LET m == Head(replies)
              IN \/ /\ m.request_id # 0 /\ lock = Free
                    /\ SetResponse(m.request_id - 1, m.call)
                 \/ /\ m.request_id = 0
                    /\ UNCHANGED <<response, pc>>
           /\ replies' = Tail(replies)
           /\ UNCHANGED <<setSize, pending, nextId, lock, id, calls, got, requests, sock>>

-----------------------------------------------------------------------------
(* The peer and the connection. *)

\* The server handles one request and answers it with the request's own id.
Reply == /\ sock = "open" /\ requests # << >>
         /\ requests' = Tail(requests)
         /\ replies'  = Append(replies, Head(requests))
         /\ UNCHANGED <<set, lock, pc, id, calls, got, sock>>

\* The server kicks the client or dies; what was not read yet may be lost.
Disconnect == /\ sock = "open"
              /\ sock' = "closed"
              /\ requests' = << >>
              /\ \E n \in 0 .. Len(replies) : replies' = SubSeq(replies, 1, n)
              /\ UNCHANGED <<set, lock, pc, id, calls, got>>

Next == \/ \E t \in Threads : \/ GetRequestId(t) \/ Send(t)
                              \/ GetResponse(t) \/ GetNoResponse(t)
        \/ Receive \/ Reply \/ Disconnect

Spec == Init /\ [][Next]_vars

(* The threads run, the receive thread runs, and a connected server answers. *)
Fairness == /\ \A t \in Threads : WF_vars(Send(t)) /\ WF_vars(GetResponse(t))
            /\ WF_vars(Receive) /\ WF_vars(Reply)

FairSpec == Spec /\ Fairness
-----------------------------------------------------------------------------
(* Properties. *)

InCall(t) == pc[t] \in {"send", "get", "wait"}

\* SVR_ResponseSet_getRequestId: "The request ID will be reserved until it is
\* no longer needed": no two calls that are open at once share an id, whatever
\* the order in which ids are released, reused and added.
ExclusiveIds == \A t, u \in Threads :
                  InCall(t) /\ InCall(u) /\ t # u /\ id[t] # -1 => id[t] # id[u]

\* SVR_Comm_sendMessage returns "The response to the message": a thread gets the
\* answer to its own last request, never one left over from an earlier user of
\* the id, another thread's, or the contents of an entry nobody filled.
OwnResponse == \A t \in Threads :
                  pc[t] = "idle" /\ calls[t] > 0 => got[t] = <<t, calls[t]>>

\* An id whose call has ended is free again: ids do not leak.
NoIdLeak == \A i \in Ids : pending[i] => \E t \in Threads : InCall(t) /\ id[t] = i

(* The inductive invariant from which the above follow (Comm_proofs). *)

\* m is the message of t's open call, which waits for it (or was lost to the -1 id).
Belongs(m, t) == /\ pc[t] \in {"get", "wait", "lost"}
                 /\ m = [request_id |-> id[t] + 1, call |-> <<t, calls[t]>>]

\* An open call's id is reserved; without an id its caller holds the lock.
IdsHeld == \A t \in Threads :
              /\ InCall(t) /\ id[t] # -1 => pending[id[t]]
              /\ InCall(t) /\ id[t] = -1 => pc[t] # "wait" /\ lock = t
              /\ pc[t] = "lost" => id[t] = -1 /\ lock = t

\* No message in the socket outlives its call.
MessagesBelong == /\ \A n \in 1 .. Len(requests) : \E t \in Threads : Belongs(requests[n], t)
                  /\ \A n \in 1 .. Len(replies) : \E t \in Threads : Belongs(replies[n], t)

\* A call has one message in the socket.
MessagesOnce == /\ \A m, n \in 1 .. Len(requests) :
                      requests[m].call = requests[n].call => m = n
                /\ \A m, n \in 1 .. Len(replies) :
                      replies[m].call = replies[n].call => m = n
                /\ \A m \in 1 .. Len(requests), n \in 1 .. Len(replies) :
                      requests[m].call # replies[n].call

\* The entry of an open call is empty or holds its answer, and in that case the
\* socket holds nothing more for it.
EntriesOwn == \A t \in Threads : InCall(t) /\ id[t] # -1 =>
                 \/ response[id[t]] = NULL
                 \/ /\ response[id[t]] = <<t, calls[t]>>
                    /\ pc[t] # "send"
                    /\ \A n \in 1 .. Len(requests) : requests[n].call # <<t, calls[t]>>
                    /\ \A n \in 1 .. Len(replies) : replies[n].call # <<t, calls[t]>>

\* A reserved id never carries two calls' traffic: together the parts say that a
\* reply found in the socket is for the call that holds its id now.
IInv == /\ TypeOK
        /\ ExclusiveIds
        /\ OwnResponse
        /\ NoIdLeak
        /\ IdsHeld
        /\ MessagesBelong
        /\ MessagesOnce
        /\ EntriesOwn

\* The layer implements the abstract remote call: a call is served while its
\* answer is in the socket or in its entry of the ResponseSet.
Answered(t) == /\ InCall(t)
               /\ \/ \E n \in 1 .. Len(replies) : replies[n] = [request_id |-> id[t] + 1,
                                                                call |-> <<t, calls[t]>>]
                  \/ id[t] # -1 /\ response[id[t]] # NULL

Abstract == INSTANCE RPC WITH
               open   <- [t \in Threads |-> pc[t] # "idle"],
               served <- [t \in Threads |-> Answered(t)],
               result <- got,
               None   <- NULL

ImplementsRPC == Abstract!Spec

\* SVR_Comm_sendMessage: "this call will block until a response is available".
\* A call on a connection that stays up returns: the broadcast of its answer is not
\* missed by a caller just going to sleep, and is not used up by another.  (A caller
\* that finds no id left keeps the lock, and nobody returns any more.)
CallsReturn == \A t \in Threads :
                  pc[t] = "send" ~> (pc[t] = "idle" \/ sock = "closed" \/ lock # Free)

=============================================================================
