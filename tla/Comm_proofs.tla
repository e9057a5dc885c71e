----------------------------- MODULE Comm_proofs -----------------------------
(***************************************************************************)
(* Proofs about Comm, for any threads, growth step and id limit: a call    *)
(* owns its request id while it is open, it returns its own response, and  *)
(* no id leaks.  All follow from the inductive invariant IInv of Comm.     *)
(***************************************************************************)
EXTENDS Comm, TLAPS

-----------------------------------------------------------------------------
(* The id that getRequestId's next_request_id wraps to is an index. *)
LEMMA ModIndex == ASSUME NEW a \in Nat, NEW b \in Nat \ {0}
                  PROVE  a % b \in 0 .. b - 1
  BY SMT

(* What the socket's queue operations do to the messages in it. *)
LEMMA AppendAt == ASSUME NEW S, NEW s \in Seq(S), NEW e \in S
                  PROVE  /\ Append(s, e) \in Seq(S)
                         /\ \A n \in 1 .. Len(Append(s, e)) :
                               \/ n \in 1 .. Len(s) /\ Append(s, e)[n] = s[n]
                               \/ n = Len(s) + 1 /\ Append(s, e)[n] = e
  OBVIOUS

LEMMA TailAt == ASSUME NEW S, NEW s \in Seq(S), s # << >>
                PROVE  /\ Tail(s) \in Seq(S) /\ Head(s) \in S
                       /\ 1 \in 1 .. Len(s) /\ Head(s) = s[1]
                       /\ \A n \in 1 .. Len(Tail(s)) :
                             n + 1 \in 2 .. Len(s) /\ Tail(s)[n] = s[n + 1]
  OBVIOUS

LEMMA PrefixAt == ASSUME NEW S, NEW s \in Seq(S), NEW k \in 0 .. Len(s)
                  PROVE  /\ SubSeq(s, 1, k) \in Seq(S)
                         /\ \A n \in 1 .. Len(SubSeq(s, 1, k)) :
                               n \in 1 .. Len(s) /\ SubSeq(s, 1, k)[n] = s[n]
  OBVIOUS

(* The empty response set of SVR_ResponseSet_new satisfies the invariant. *)
LEMMA InitIInv == Init => IInv
  <1> SUFFICES ASSUME Init PROVE IInv
    OBVIOUS
  <1> USE CommAssumption
  <1>1. TypeOK
    BY DEF Init, TypeOK, Ids, Messages, Calls
  <1>2. ExclusiveIds /\ OwnResponse /\ NoIdLeak /\ IdsHeld
    BY DEF Init, ExclusiveIds, OwnResponse, NoIdLeak, IdsHeld, InCall, Ids
  <1>3. MessagesBelong /\ MessagesOnce /\ EntriesOwn
    BY DEF Init, MessagesBelong, MessagesOnce, EntriesOwn, InCall
  <1> QED
    BY <1>1, <1>2, <1>3 DEF IInv

(* What getRequestId does to the state, whichever way the id was found: the
   caller becomes the only user of an entry that nobody waited for. *)
LEMMA FreshId ==
  ASSUME IInv, NEW t \in Threads, Begin(t),
         NEW i \in Nat,
         i \in Ids => ~pending[i],
         TypeOK',
         id' = [id EXCEPT ![t] = i],
         i \in Ids', pending'[i], response'[i] = NULL,
         \A j \in Ids : j \in Ids' /\ (j # i => pending'[j] = pending[j]
                                              /\ response'[j] = response[j]),
         \A j \in Ids' : j \in Ids \/ j = i \/ ~pending'[j],
         UNCHANGED <<lock, got, requests, replies, sock>>
  PROVE  IInv'
  <1> USE CommAssumption
  <1>0. pc \in [Threads -> {"idle", "send", "get", "wait", "lost"}] /\ calls \in [Threads -> Nat]
        /\ id \in [Threads -> Ids \cup {-1}]
    BY DEF IInv, TypeOK
  <1>1. /\ pc[t] = "idle" /\ pc'[t] = "send" /\ id'[t] = i /\ calls'[t] = calls[t] + 1
        /\ \A u \in Threads \ {t} : pc'[u] = pc[u] /\ id'[u] = id[u] /\ calls'[u] = calls[u]
    BY <1>0 DEF Begin
  <1>2. \A u \in Threads : InCall(u) => id[u] # i
    BY <1>0 DEF IInv, IdsHeld
  <1>3. ExclusiveIds'
    BY <1>0, <1>1, <1>2 DEF IInv, ExclusiveIds, InCall
  <1>4. OwnResponse'
    BY <1>1 DEF IInv, OwnResponse
  <1>5. NoIdLeak'
    BY <1>0, <1>1, <1>2 DEF IInv, NoIdLeak, InCall
  <1>6. IdsHeld'
    BY <1>0, <1>1, <1>2 DEF IInv, IdsHeld, InCall
  <1>7. MessagesBelong'
    <2>1. \A m : \A u \in Threads : Belongs(m, u) => u # t /\ Belongs(m, u)'
      BY <1>0, <1>1 DEF Belongs
    <2> QED
      BY <2>1 DEF IInv, MessagesBelong
  <1>8. MessagesOnce'
    BY DEF IInv, MessagesOnce
  <1>9. EntriesOwn'
    BY <1>0, <1>1, <1>2 DEF IInv, EntriesOwn, InCall
  <1> QED
    BY <1>3, <1>4, <1>5, <1>6, <1>7, <1>8, <1>9 DEF IInv

LEMMA ReuseIdIInv == ASSUME IInv, NEW t \in Threads, ReuseId(t) PROVE IInv'
  <1> USE CommAssumption
  <1>1. PICK i \in Ids : /\ IsFirstFree(i)
                         /\ id'       = [id EXCEPT ![t] = i]
                         /\ nextId'   = (i + 1) % setSize
                         /\ pending'  = [pending EXCEPT ![i] = TRUE]
                         /\ response' = [response EXCEPT ![i] = NULL]
    BY DEF ReuseId
  <1>2. ~pending[i]
    BY <1>1 DEF IsFirstFree
  <1>3. TypeOK'
    <2>1. nextId' \in Ids
      <3>1. i + 1 \in Nat /\ setSize \in Nat \ {0}
        BY DEF IInv, TypeOK, Ids
      <3> QED
        BY <1>1, <3>1, ModIndex DEF Ids
    <2> QED
      BY <1>1, <2>1 DEF IInv, TypeOK, ReuseId, Begin, Ids, Messages, Calls
  <1>4. i \in Nat /\ Ids' = Ids
    BY DEF ReuseId, Ids, IInv, TypeOK
  <1>5. pending'[i] /\ response'[i] = NULL
    BY <1>1 DEF IInv, TypeOK
  <1>6. \A j \in Ids : j # i => pending'[j] = pending[j] /\ response'[j] = response[j]
    BY <1>1 DEF IInv, TypeOK
  <1>7. Begin(t) /\ UNCHANGED <<lock, got, requests, replies, sock>>
    BY DEF ReuseId
  <1> QED
    BY <1>1, <1>2, <1>3, <1>4, <1>5, <1>6, <1>7, FreshId

LEMMA GrowSetIInv == ASSUME IInv, NEW t \in Threads, GrowSet(t) PROVE IInv'
  <1> USE CommAssumption
  <1>1. setSize \in Nat \ {0} /\ setSize' = setSize + Grow /\ setSize' \in Nat \ {0}
    BY DEF GrowSet, IInv, TypeOK
  <1>2. /\ pending' = [i \in Ids' |-> IF i < setSize THEN pending[i] ELSE i = setSize]
        /\ response' = [i \in Ids' |-> IF i < setSize THEN response[i]
                                      ELSE IF i = setSize THEN NULL ELSE Junk]
    BY <1>1 DEF GrowSet, Ids
  <1>3. setSize \in Ids' /\ setSize \notin Ids /\ \A j \in Ids : j \in Ids' /\ j < setSize
    BY <1>1 DEF Ids
  <1>4. nextId' \in Ids'
    <2>1. setSize + 1 \in Nat /\ nextId' = (setSize + 1) % setSize'
      BY <1>1 DEF GrowSet
    <2> QED
      BY <1>1, <2>1, ModIndex DEF Ids
  <1>5. pending' \in [Ids' -> BOOLEAN] /\ response' \in [Ids' -> Calls \cup {NULL, Junk}]
    <2>1. pending \in [Ids -> BOOLEAN] /\ response \in [Ids -> Calls \cup {NULL, Junk}]
      BY DEF IInv, TypeOK
    <2>2. \A j \in Ids' : j < setSize => j \in Ids
      BY <1>1 DEF Ids
    <2> QED
      BY <1>2, <2>1, <2>2
  <1>6. id' \in [Threads -> Ids' \cup {-1}]
    BY <1>3 DEF GrowSet, IInv, TypeOK
  <1>7. TypeOK'
    BY <1>1, <1>4, <1>5, <1>6 DEF IInv, TypeOK, GrowSet, Begin, Messages, Calls
  <1>8. \A j \in Ids' : j \in Ids \/ j = setSize \/ ~pending'[j]
    <2> SUFFICES ASSUME NEW j \in Ids', j \notin Ids, j # setSize PROVE ~pending'[j]
      OBVIOUS
    <2>1. ~(j < setSize)
      BY <1>1 DEF Ids
    <2>2. pending'[j] = (j = setSize)
      BY <1>2, <2>1, Zenon
    <2> QED
      BY <2>2
  <1>9. /\ pending'[setSize] /\ response'[setSize] = NULL
        /\ \A j \in Ids : pending'[j] = pending[j] /\ response'[j] = response[j]
    <2>1. ~(setSize < setSize)
      BY <1>1
    <2>2. pending'[setSize] /\ response'[setSize] = NULL
      BY <1>2, <1>3, <2>1, Zenon
    <2>3. \A j \in Ids : pending'[j] = pending[j] /\ response'[j] = response[j]
      BY <1>2, <1>3, Zenon
    <2> QED
      BY <2>2, <2>3
  <1>10. /\ Begin(t) /\ id' = [id EXCEPT ![t] = setSize]
         /\ UNCHANGED <<lock, got, requests, replies, sock>>
    BY DEF GrowSet
  <1> QED
    BY <1>1, <1>3, <1>7, <1>8, <1>9, <1>10, FreshId

(* The call that gets no id keeps the lock, and is nobody's rival for an entry. *)
LEMMA NoIdLeftIInv == ASSUME IInv, NEW t \in Threads, NoIdLeft(t) PROVE IInv'
  <1> USE CommAssumption
  <1>0. TypeOK
    BY DEF IInv
  <1>1. /\ pc[t] = "idle" /\ pc'[t] = "send" /\ id'[t] = -1 /\ lock = Free /\ lock' = t
        /\ \A u \in Threads \ {t} : pc'[u] = pc[u] /\ id'[u] = id[u] /\ calls'[u] = calls[u]
    BY <1>0 DEF NoIdLeft, Begin, TypeOK
  <1>2. Ids' = Ids /\ UNCHANGED <<pending, response, got, requests, replies>>
    BY DEF NoIdLeft, set, Ids
  <1>3. TypeOK'
    BY <1>0, <1>2 DEF TypeOK, NoIdLeft, Begin, set, Messages, Calls
  <1>4. /\ ~InCall(t) /\ \A u \in Threads \ {t} : InCall(u)' = InCall(u)
        /\ \A u \in Threads : InCall(u)' => u = t \/ InCall(u)
    BY <1>1 DEF InCall
  <1>5. ExclusiveIds' /\ OwnResponse' /\ NoIdLeak'
    <2>1. ExclusiveIds'
      BY <1>1, <1>4 DEF IInv, ExclusiveIds
    <2>2. OwnResponse'
      BY <1>1, <1>2 DEF IInv, OwnResponse
    <2>3. NoIdLeak'
      <3> SUFFICES ASSUME NEW i \in Ids, pending[i]
                   PROVE  \E u \in Threads : InCall(u)' /\ id'[u] = i
        BY <1>2 DEF NoIdLeak
      <3>1. PICK u \in Threads : InCall(u) /\ id[u] = i
        BY DEF IInv, NoIdLeak
      <3>2. u # t /\ InCall(u)' /\ id'[u] = i
        BY <1>1, <1>4, <3>1
      <3> QED
        BY <3>2
    <2> QED
      BY <2>1, <2>2, <2>3
  <1>6. IdsHeld'
    BY <1>0, <1>1, <1>2 DEF IInv, IdsHeld, InCall, TypeOK
  <1>7. MessagesBelong'
    <2>1. \A m : \A u \in Threads : Belongs(m, u) => Belongs(m, u)'
      BY <1>0, <1>1 DEF Belongs
    <2> QED
      BY <1>2, <2>1 DEF IInv, MessagesBelong
  <1>8. MessagesOnce'
    BY <1>2 DEF IInv, MessagesOnce
  <1>9. EntriesOwn'
    <2>1. \A u \in Threads : InCall(u)' /\ id'[u] # -1 =>
             /\ InCall(u) /\ id[u] # -1 /\ id'[u] = id[u]
             /\ calls'[u] = calls[u] /\ pc'[u] = pc[u]
      BY <1>1, <1>4
    <2> QED
      BY <1>2, <2>1 DEF IInv, EntriesOwn
  <1> QED
    BY <1>3, <1>5, <1>6, <1>7, <1>8, <1>9 DEF IInv

LEMMA GetResponseIInv == ASSUME IInv, NEW t \in Threads, GetResponse(t) PROVE IInv'
  <1> USE CommAssumption
  <1>0. TypeOK /\ id[t] # -1 /\ id[t] \in Ids
    BY DEF IInv, TypeOK, GetResponse, IdsHeld, InCall
  <1>1. UNCHANGED <<setSize, response, nextId, lock, id, calls, requests, replies, sock>> /\ Ids' = Ids
    BY DEF GetResponse, Ids
  <1>2. CASE response[id[t]] = NULL
    <2>1. /\ pc[t] = "get" /\ pc' = [pc EXCEPT ![t] = "wait"] /\ UNCHANGED <<pending, got>>
      BY <1>2 DEF GetResponse
    <2>2. \A u \in Threads : InCall(u)' = InCall(u) /\ (pc'[u] = "idle") = (pc[u] = "idle")
                             /\ (pc'[u] = "lost") = (pc[u] = "lost")
      BY <1>0, <2>1 DEF InCall, TypeOK
    <2>3. TypeOK'
      BY <1>0, <1>1, <2>1 DEF TypeOK, Messages, Calls
    <2>4. ExclusiveIds' /\ OwnResponse' /\ NoIdLeak'
      BY <1>1, <2>1, <2>2 DEF IInv, ExclusiveIds, OwnResponse, NoIdLeak
    <2>5. IdsHeld'
      BY <1>0, <1>1, <2>1, <2>2 DEF IInv, IdsHeld, TypeOK
    <2>6. \A m : \A u \in Threads : Belongs(m, u) => Belongs(m, u)'
      BY <1>0, <1>1, <2>1 DEF Belongs, TypeOK
    <2>7. MessagesBelong' /\ MessagesOnce'
      BY <1>1, <2>6 DEF IInv, MessagesBelong, MessagesOnce
    <2>8. EntriesOwn'
      BY <1>0, <1>1, <2>1, <2>2 DEF IInv, EntriesOwn, TypeOK
    <2> QED
      BY <2>3, <2>4, <2>5, <2>7, <2>8 DEF IInv
  <1>3. CASE response[id[t]] # NULL
    <2>1. /\ pc[t] = "get" /\ got' = [got EXCEPT ![t] = response[id[t]]]
          /\ pending' = [pending EXCEPT ![id[t]] = FALSE]
          /\ pc' = [pc EXCEPT ![t] = "idle"]
      BY <1>3 DEF GetResponse
    <2>2. /\ InCall(t) /\ ~InCall(t)' /\ pc'[t] = "idle"
          /\ \A u \in Threads \ {t} : pc'[u] = pc[u] /\ InCall(u)' = InCall(u)
      BY <1>0, <2>1 DEF InCall, TypeOK
    <2>3. /\ response[id[t]] = <<t, calls[t]>>
          /\ \A n \in 1 .. Len(requests) : requests[n].call # <<t, calls[t]>>
          /\ \A n \in 1 .. Len(replies) : replies[n].call # <<t, calls[t]>>
      BY <1>0, <1>3, <2>2 DEF IInv, EntriesOwn
    <2>4. \A u \in Threads \ {t} : InCall(u) => id[u] # id[t]
      BY <1>0, <2>2 DEF IInv, ExclusiveIds
    <2>5. TypeOK'
      BY <1>0, <1>1, <2>1 DEF TypeOK, Messages, Calls
    <2>6. ExclusiveIds'
      BY <1>1, <2>2 DEF IInv, ExclusiveIds
    <2>7. OwnResponse'
      BY <1>0, <1>1, <2>1, <2>2, <2>3 DEF IInv, OwnResponse, TypeOK
    <2>8. NoIdLeak'
      BY <1>0, <1>1, <2>1, <2>2, <2>4 DEF IInv, NoIdLeak, TypeOK
    <2>9. IdsHeld'
      BY <1>0, <1>1, <2>1, <2>2, <2>4 DEF IInv, IdsHeld, TypeOK
    <2>10. \A m : \A u \in Threads : Belongs(m, u) /\ m.call # <<t, calls[t]>> => Belongs(m, u)'
      BY <1>0, <1>1, <2>2 DEF Belongs
    <2>11. MessagesBelong' /\ MessagesOnce'
      BY <1>1, <2>3, <2>10 DEF IInv, MessagesBelong, MessagesOnce
    <2>12. EntriesOwn'
      BY <1>0, <1>1, <2>2 DEF IInv, EntriesOwn, TypeOK
    <2> QED
      BY <2>5, <2>6, <2>7, <2>8, <2>9, <2>11, <2>12 DEF IInv
  <1> QED
    BY <1>2, <1>3

LEMMA GetNoResponseIInv == ASSUME IInv, NEW t \in Threads, GetNoResponse(t) PROVE IInv'
  <1> USE CommAssumption
  <1>0. TypeOK
    BY DEF IInv
  <1>1. /\ pc[t] = "get" /\ id[t] = -1 /\ lock = t
        /\ pc' = [pc EXCEPT ![t] = "lost"]
        /\ UNCHANGED <<set, lock, id, calls, got, requests, replies, sock>> /\ Ids' = Ids
        /\ UNCHANGED <<setSize, pending, response, nextId>>
    BY DEF GetNoResponse, set, Ids
  <1>2. /\ InCall(t) /\ ~InCall(t)' /\ pc'[t] = "lost"
        /\ \A u \in Threads \ {t} : pc'[u] = pc[u] /\ InCall(u)' = InCall(u)
    BY <1>0, <1>1 DEF InCall, TypeOK
  <1>3. TypeOK'
    BY <1>0, <1>1 DEF TypeOK, Messages, Calls
  <1>4. ExclusiveIds' /\ OwnResponse'
    BY <1>1, <1>2 DEF IInv, ExclusiveIds, OwnResponse
  <1>5. NoIdLeak'
    BY <1>1, <1>2 DEF IInv, NoIdLeak, Ids
  <1>6. IdsHeld'
    BY <1>1, <1>2 DEF IInv, IdsHeld
  <1>7. \A m : \A u \in Threads : Belongs(m, u) => Belongs(m, u)'
    BY <1>1, <1>2 DEF Belongs
  <1>8. MessagesBelong' /\ MessagesOnce'
    BY <1>1, <1>7 DEF IInv, MessagesBelong, MessagesOnce
  <1>9. EntriesOwn'
    BY <1>1, <1>2 DEF IInv, EntriesOwn
  <1> QED
    BY <1>3, <1>4, <1>5, <1>6, <1>8, <1>9 DEF IInv

(* A request is sent once, when nothing of its thread is in the socket. *)
LEMMA SendIInv == ASSUME IInv, NEW t \in Threads, Send(t) PROVE IInv'
  <1> USE CommAssumption
  <1> DEFINE m == [request_id |-> id[t] + 1, call |-> <<t, calls[t]>>]
  <1>0. TypeOK
    BY DEF IInv
  <1>1. /\ pc[t] = "send" /\ pc' = [pc EXCEPT ![t] = "get"]
        /\ UNCHANGED <<lock, id, calls, got, replies, sock>> /\ Ids' = Ids
        /\ UNCHANGED <<setSize, pending, response, nextId>>
        /\ requests' \in {requests, Append(requests, m)}
    BY DEF Send, set, Ids
  <1>2. /\ pc'[t] = "get"
        /\ \A u \in Threads \ {t} : pc'[u] = pc[u]
        /\ \A u \in Threads : InCall(u)' = InCall(u) /\ InCall(t)
    BY <1>0, <1>1 DEF InCall, TypeOK
  <1>3. m \in Messages
    BY <1>0 DEF TypeOK, Messages, Calls, Ids
  <1>4. TypeOK'
    <2>1. Messages' = Messages /\ Calls' = Calls
      BY DEF Messages, Calls
    <2>2. requests' \in Seq(Messages)
      <3> HIDE DEF m
      <3>1. requests \in Seq(Messages)
        BY <1>0 DEF TypeOK
      <3>2. Append(requests, m) \in Seq(Messages)
        BY <1>3, <3>1, AppendAt
      <3> QED
        BY <1>1, <3>1, <3>2
    <2> QED
      BY <1>0, <1>1, <2>1, <2>2 DEF TypeOK
  <1>5. ExclusiveIds' /\ OwnResponse' /\ NoIdLeak'
    BY <1>1, <1>2 DEF IInv, ExclusiveIds, OwnResponse, NoIdLeak
  <1>6. IdsHeld'
    BY <1>1, <1>2 DEF IInv, IdsHeld
  <1>7. \A x : \A u \in Threads : Belongs(x, u) => Belongs(x, u)' /\ x.call # <<t, calls[t]>>
    BY <1>1, <1>2 DEF Belongs
  <1>8. requests \in Seq(Messages)
    BY <1>0 DEF TypeOK
  <1>9. /\ \A n \in 1 .. Len(requests) : requests[n].call # <<t, calls[t]>>
        /\ \A n \in 1 .. Len(replies) : replies[n].call # <<t, calls[t]>>
    BY <1>7 DEF IInv, MessagesBelong
  <1>10. \A n \in 1 .. Len(requests') :
            \/ n \in 1 .. Len(requests) /\ requests'[n] = requests[n]
            \/ n = Len(requests) + 1 /\ requests'[n] = m
    BY <1>1, <1>3, <1>8, AppendAt
  <1> HIDE DEF m
  <1>11. MessagesBelong'
    <2>1. ASSUME NEW n \in 1 .. Len(requests') PROVE \E u \in Threads : Belongs(requests[n], u)'
      <3>1. CASE n \in 1 .. Len(requests) /\ requests'[n] = requests[n]
        <4>1. PICK u \in Threads : Belongs(requests[n], u)
          BY <3>1 DEF IInv, MessagesBelong
        <4>2. Belongs(requests[n], u)'
          BY <1>1, <1>2, <3>1, <4>1 DEF Belongs
        <4> QED
          BY <4>2
      <3>2. CASE requests'[n] = m
        <4>1. Belongs(requests[n], t)'
          BY <1>1, <1>2, <3>2 DEF Belongs, m
        <4> QED
          BY <4>1
      <3> QED
        BY <1>10, <3>1, <3>2
    <2>2. ASSUME NEW n \in 1 .. Len(replies) PROVE \E u \in Threads : Belongs(replies[n], u)'
      BY <1>1, <1>7 DEF IInv, MessagesBelong
    <2> QED
      BY <1>1, <2>1, <2>2 DEF MessagesBelong
  <1>12. MessagesOnce'
    <2>1. m.call = <<t, calls[t]>>
      BY DEF m
    <2>2. ASSUME NEW a \in 1 .. Len(requests'), NEW b \in 1 .. Len(requests'),
                 requests'[a].call = requests'[b].call
          PROVE  a = b
      BY <1>9, <1>10, <2>1, <2>2 DEF IInv, MessagesOnce
    <2>3. ASSUME NEW a \in 1 .. Len(requests'), NEW b \in 1 .. Len(replies)
          PROVE  requests'[a].call # replies[b].call
      BY <1>9, <1>10, <2>1 DEF IInv, MessagesOnce
    <2>4. \A a, b \in 1 .. Len(replies) : replies[a].call = replies[b].call => a = b
      BY DEF IInv, MessagesOnce
    <2> QED
      BY <1>1, <2>2, <2>3, <2>4 DEF MessagesOnce
  <1>13. EntriesOwn'
    <2>1. m.call = <<t, calls[t]>> /\ (response[id[t]] = NULL \/ id[t] = -1)
      BY <1>1, <1>2 DEF m, IInv, EntriesOwn
    <2>2. \A u \in Threads \ {t} : m.call # <<u, calls[u]>>
      BY DEF m
    <2>3. ASSUME NEW u \in Threads, InCall(u), id[u] # -1, response[id[u]] # NULL
          PROVE  /\ response[id[u]] = <<u, calls[u]>> /\ pc'[u] # "send"
                 /\ \A n \in 1 .. Len(requests') : requests'[n].call # <<u, calls[u]>>
                 /\ \A n \in 1 .. Len(replies) : replies[n].call # <<u, calls[u]>>
      <3>1. u # t /\ m.call # <<u, calls[u]>>
        BY <2>1, <2>2, <2>3
      <3>2. /\ response[id[u]] = <<u, calls[u]>> /\ pc[u] # "send"
            /\ \A n \in 1 .. Len(requests) : requests[n].call # <<u, calls[u]>>
            /\ \A n \in 1 .. Len(replies) : replies[n].call # <<u, calls[u]>>
        BY <2>3 DEF IInv, EntriesOwn
      <3> QED
        BY <1>2, <1>10, <3>1, <3>2
    <2> QED
      BY <1>1, <1>2, <2>3 DEF EntriesOwn
  <1> QED
    BY <1>4, <1>5, <1>6, <1>11, <1>12, <1>13 DEF IInv

(* The server moves the oldest request, as its reply, to the other direction. *)
LEMMA ReplyIInv == ASSUME IInv, Reply PROVE IInv'
  <1> USE CommAssumption
  <1>0. TypeOK /\ requests \in Seq(Messages) /\ replies \in Seq(Messages)
    BY DEF IInv, TypeOK
  <1>1. /\ requests # << >> /\ requests' = Tail(requests)
        /\ replies' = Append(replies, Head(requests))
        /\ UNCHANGED <<lock, pc, id, calls, got, sock>> /\ Ids' = Ids
        /\ UNCHANGED <<setSize, pending, response, nextId>>
    BY DEF Reply, set, Ids
  <1>2. /\ Messages' = Messages /\ Calls' = Calls
        /\ requests' \in Seq(Messages) /\ replies' \in Seq(Messages)
    BY <1>0, <1>1, AppendAt, TailAt DEF Messages, Calls
  <1>3. TypeOK'
    BY <1>0, <1>1, <1>2 DEF TypeOK
  <1>4. \A u \in Threads : InCall(u)' = InCall(u)
    BY <1>1 DEF InCall
  <1>5. ExclusiveIds' /\ OwnResponse' /\ NoIdLeak' /\ IdsHeld'
    BY <1>1, <1>4 DEF IInv, ExclusiveIds, OwnResponse, NoIdLeak, IdsHeld
  <1>6. /\ 1 \in 1 .. Len(requests)
        /\ \A n \in 1 .. Len(requests') : n + 1 \in 2 .. Len(requests)
                                          /\ requests'[n] = requests[n + 1]
        /\ \A n \in 1 .. Len(replies') :
              \/ n \in 1 .. Len(replies) /\ replies'[n] = replies[n]
              \/ n = Len(replies) + 1 /\ replies'[n] = requests[1]
    BY <1>0, <1>1, AppendAt, TailAt
  <1>7. \A x : \A u \in Threads : Belongs(x, u) => Belongs(x, u)'
    BY <1>1 DEF Belongs
  <1>8. MessagesBelong'
    BY <1>6, <1>7 DEF IInv, MessagesBelong
  <1>9. MessagesOnce'
    <2>1. /\ \A k, n \in 1 .. Len(requests) : requests[k].call = requests[n].call => k = n
          /\ \A k, n \in 1 .. Len(replies) : replies[k].call = replies[n].call => k = n
          /\ \A k \in 1 .. Len(requests), n \in 1 .. Len(replies) :
                requests[k].call # replies[n].call
      BY DEF IInv, MessagesOnce
    <2>2. ASSUME NEW k \in 1 .. Len(requests'), NEW n \in 1 .. Len(requests'),
                 requests'[k].call = requests'[n].call
          PROVE  k = n
      <3>1. k + 1 = n + 1
        BY <1>6, <2>1, <2>2
      <3> QED
        BY <3>1
    <2>3. ASSUME NEW k \in 1 .. Len(replies'), NEW n \in 1 .. Len(replies'),
                 replies'[k].call = replies'[n].call
          PROVE  k = n
      BY <1>6, <2>1, <2>3
    <2>4. ASSUME NEW k \in 1 .. Len(requests'), NEW n \in 1 .. Len(replies')
          PROVE  requests'[k].call # replies'[n].call
      <3>1. k + 1 \in 1 .. Len(requests) /\ k + 1 # 1 /\ requests'[k] = requests[k + 1]
        BY <1>6
      <3> QED
        BY <1>6, <2>1, <3>1
    <2> QED
      BY <2>2, <2>3, <2>4 DEF MessagesOnce
  <1>10. EntriesOwn'
    <2>1. ASSUME NEW u \in Threads, InCall(u), id[u] # -1, response[id[u]] # NULL
          PROVE  /\ response[id[u]] = <<u, calls[u]>> /\ pc[u] # "send"
                 /\ \A n \in 1 .. Len(requests') : requests'[n].call # <<u, calls[u]>>
                 /\ \A n \in 1 .. Len(replies') : replies'[n].call # <<u, calls[u]>>
      <3>1. /\ response[id[u]] = <<u, calls[u]>> /\ pc[u] # "send"
            /\ \A n \in 1 .. Len(requests) : requests[n].call # <<u, calls[u]>>
            /\ \A n \in 1 .. Len(replies) : replies[n].call # <<u, calls[u]>>
        BY <2>1 DEF IInv, EntriesOwn
      <3>2. ASSUME NEW n \in 1 .. Len(requests') PROVE requests'[n].call # <<u, calls[u]>>
        <4>1. n + 1 \in 1 .. Len(requests) /\ requests'[n] = requests[n + 1]
          BY <1>6
        <4> QED
          BY <3>1, <4>1
      <3>3. ASSUME NEW n \in 1 .. Len(replies') PROVE replies'[n].call # <<u, calls[u]>>
        BY <1>6, <3>1
      <3> QED
        BY <3>1, <3>2, <3>3
    <2> QED
      BY <1>1, <1>4, <2>1 DEF EntriesOwn
  <1> QED
    BY <1>3, <1>5, <1>8, <1>9, <1>10 DEF IInv

(* An answer reaches the entry of the call it belongs to, which is the only one
   to use that entry; an answer without an id is not for the ResponseSet. *)
LEMMA ReceiveIInv == ASSUME IInv, Receive PROVE IInv'
  <1> USE CommAssumption
  <1>0. TypeOK /\ replies \in Seq(Messages)
    BY DEF IInv, TypeOK
  <1>1. /\ replies # << >> /\ replies' = Tail(replies)
        /\ UNCHANGED <<setSize, pending, nextId, lock, id, calls, got, requests, sock>>
        /\ Ids' = Ids
    BY DEF Receive, Ids
  <1>2. /\ Messages' = Messages /\ Calls' = Calls /\ replies' \in Seq(Messages)
        /\ 1 \in 1 .. Len(replies) /\ Head(replies) = replies[1] /\ replies[1] \in Messages
        /\ \A n \in 1 .. Len(replies') : n + 1 \in 2 .. Len(replies)
                                         /\ replies'[n] = replies[n + 1]
    <2>1. Messages' = Messages /\ Calls' = Calls
      BY DEF Messages, Calls
    <2> QED
      BY <1>0, <1>1, <2>1, TailAt
  <1>3. \A n \in 1 .. Len(replies') : /\ n + 1 \in 1 .. Len(replies) /\ replies'[n] = replies[n + 1]
                                      /\ replies'[n].call # replies[1].call
    BY <1>2 DEF IInv, MessagesOnce
  <1>4. PICK t \in Threads : Belongs(replies[1], t)
    BY <1>2 DEF IInv, MessagesBelong
  <1>5. /\ pc[t] \in {"get", "wait", "lost"} /\ replies[1].request_id = id[t] + 1
        /\ replies[1].call = <<t, calls[t]>> /\ <<t, calls[t]>> \in Calls
        /\ id[t] \in Ids \cup {-1} /\ Ids \subseteq Nat
    BY <1>0, <1>4 DEF Belongs, TypeOK, Calls, Ids
  <1>6. MessagesOnce'
    <2>1. /\ \A k, n \in 1 .. Len(requests) : requests[k].call = requests[n].call => k = n
          /\ \A k, n \in 1 .. Len(replies) : replies[k].call = replies[n].call => k = n
          /\ \A k \in 1 .. Len(requests), n \in 1 .. Len(replies) :
                requests[k].call # replies[n].call
      BY DEF IInv, MessagesOnce
    <2>2. ASSUME NEW k \in 1 .. Len(replies'), NEW n \in 1 .. Len(replies'),
                 replies'[k].call = replies'[n].call
          PROVE  k = n
      <3>1. k + 1 = n + 1
        BY <1>3, <2>1, <2>2
      <3> QED
        BY <3>1
    <2>3. ASSUME NEW k \in 1 .. Len(requests), NEW n \in 1 .. Len(replies')
          PROVE  requests[k].call # replies'[n].call
      <3>1. n + 1 \in 1 .. Len(replies) /\ replies'[n] = replies[n + 1]
        BY <1>3
      <3> QED
        BY <2>1, <3>1
    <2> QED
      BY <1>1, <2>1, <2>2, <2>3 DEF MessagesOnce
  <1>7. CASE id[t] = -1
    <2>1. UNCHANGED <<response, pc>>
      BY <1>1, <1>2, <1>5, <1>7 DEF Receive
    <2>2. TypeOK'
      BY <1>0, <1>1, <1>2, <2>1 DEF TypeOK
    <2>3. \A u \in Threads : InCall(u)' = InCall(u)
      BY <2>1 DEF InCall
    <2>4. ExclusiveIds' /\ OwnResponse' /\ NoIdLeak' /\ IdsHeld'
      BY <1>1, <2>1, <2>3 DEF IInv, ExclusiveIds, OwnResponse, NoIdLeak, IdsHeld
    <2>5. MessagesBelong'
      <3>1. \A x : \A u \in Threads : Belongs(x, u) => Belongs(x, u)'
        BY <1>1, <2>1 DEF Belongs
      <3> QED
        BY <1>1, <1>3, <3>1 DEF IInv, MessagesBelong
    <2>6. EntriesOwn'
      BY <1>1, <1>3, <2>1, <2>3 DEF IInv, EntriesOwn
    <2> QED
      BY <1>6, <2>2, <2>4, <2>5, <2>6 DEF IInv
  <1>8. CASE id[t] # -1
    <2>1. id[t] \in Ids /\ pc[t] \in {"get", "wait"} /\ InCall(t) /\ pending[id[t]]
      BY <1>5, <1>8 DEF IInv, IdsHeld, InCall
    <2>2. /\ response' = [response EXCEPT ![id[t]] = <<t, calls[t]>>]
          /\ pc' = [u \in Threads |-> IF pc[u] = "wait" THEN "get" ELSE pc[u]]
      <3>1. replies[1].request_id # 0 /\ replies[1].request_id - 1 = id[t]
        <4>1. id[t] \in Nat /\ replies[1].request_id = id[t] + 1
          BY <1>5, <2>1
        <4> QED
          BY <4>1
      <3>2. SetResponse(id[t], <<t, calls[t]>>)
        BY <1>1, <1>2, <1>5, <3>1 DEF Receive
      <3> QED
        BY <2>1, <3>2 DEF SetResponse, Broadcast
    <2>3. TypeOK'
      <3>1. response' \in [Ids -> Calls \cup {NULL, Junk}]
        BY <1>0, <1>5, <2>2 DEF TypeOK
      <3>2. pc' \in [Threads -> {"idle", "send", "get", "wait", "lost"}]
        BY <1>0, <2>2 DEF TypeOK
      <3> QED
        BY <1>0, <1>1, <1>2, <3>1, <3>2 DEF TypeOK
    <2>4. \A u \in Threads : /\ InCall(u)' = InCall(u)
                             /\ (pc'[u] = "idle") = (pc[u] = "idle")
                             /\ (pc'[u] = "lost") = (pc[u] = "lost")
                             /\ (pc'[u] = "send") = (pc[u] = "send")
                             /\ pc'[u] # "wait"
                             /\ pc[u] \in {"get", "wait", "lost"} => pc'[u] \in {"get", "wait", "lost"}
      BY <1>0, <2>2 DEF InCall, TypeOK
    <2>5. ExclusiveIds' /\ OwnResponse' /\ NoIdLeak' /\ IdsHeld'
      BY <1>1, <2>4 DEF IInv, ExclusiveIds, OwnResponse, NoIdLeak, IdsHeld
    <2>6. MessagesBelong'
      <3>1. \A x : \A u \in Threads : Belongs(x, u) => Belongs(x, u)'
        BY <1>1, <2>4 DEF Belongs
      <3> QED
        BY <1>1, <1>3, <3>1 DEF IInv, MessagesBelong
    <2>7. response \in [Ids -> Calls \cup {NULL, Junk}] /\ id \in [Threads -> Ids \cup {-1}]
      BY <1>0 DEF TypeOK
    <2>8. ASSUME NEW u \in Threads, InCall(u), id[u] # -1, response'[id[u]] # NULL
          PROVE  /\ response'[id[u]] = <<u, calls[u]>> /\ pc[u] # "send"
                 /\ \A n \in 1 .. Len(requests) : requests[n].call # <<u, calls[u]>>
                 /\ \A n \in 1 .. Len(replies') : replies'[n].call # <<u, calls[u]>>
      <3>1. CASE u = t
        <4>1. response'[id[t]] = <<t, calls[t]>>
          BY <2>1, <2>2, <2>7
        <4>2. \A n \in 1 .. Len(requests) : requests[n].call # <<t, calls[t]>>
          <5>1. \A n \in 1 .. Len(requests) : requests[n].call # replies[1].call
            BY <1>2 DEF IInv, MessagesOnce
          <5> QED
            BY <1>5, <5>1
        <4> QED
          BY <1>3, <1>5, <2>1, <3>1, <4>1, <4>2
      <3>2. CASE u # t
        <4>1. id[u] # id[t] /\ id[u] \in Ids
          BY <1>8, <2>1, <2>7, <2>8, <3>2 DEF IInv, ExclusiveIds
        <4>2. response'[id[u]] = response[id[u]]
          BY <2>2, <2>7, <4>1
        <4>3. /\ response[id[u]] = <<u, calls[u]>> /\ pc[u] # "send"
              /\ \A n \in 1 .. Len(requests) : requests[n].call # <<u, calls[u]>>
              /\ \A n \in 1 .. Len(replies) : replies[n].call # <<u, calls[u]>>
          BY <2>8, <4>2 DEF IInv, EntriesOwn
        <4> QED
          BY <1>3, <4>2, <4>3
      <3> QED
        BY <3>1, <3>2
    <2>9. EntriesOwn'
      BY <1>1, <2>4, <2>8 DEF EntriesOwn
    <2> QED
      BY <1>6, <2>3, <2>5, <2>6, <2>9 DEF IInv
  <1> QED
    BY <1>7, <1>8

(* Losing messages with the connection takes nothing that a call depends on. *)
LEMMA DisconnectIInv == ASSUME IInv, Disconnect PROVE IInv'
  <1> USE CommAssumption
  <1>0. TypeOK /\ replies \in Seq(Messages)
    BY DEF IInv, TypeOK
  <1>1. PICK k \in 0 .. Len(replies) : replies' = SubSeq(replies, 1, k)
    BY DEF Disconnect
  <1>2. /\ requests' = << >> /\ sock' = "closed" /\ Ids' = Ids
        /\ UNCHANGED <<setSize, pending, response, nextId, lock, pc, id, calls, got>>
    BY DEF Disconnect, set, Ids
  <1>3. /\ Messages' = Messages /\ Calls' = Calls /\ replies' \in Seq(Messages)
        /\ \A n \in 1 .. Len(replies') : n \in 1 .. Len(replies) /\ replies'[n] = replies[n]
    <2>1. Messages' = Messages /\ Calls' = Calls
      BY DEF Messages, Calls
    <2> QED
      BY <1>0, <1>1, <2>1, PrefixAt
  <1>4. TypeOK'
    BY <1>0, <1>2, <1>3 DEF TypeOK
  <1>5. \A u \in Threads : InCall(u)' = InCall(u)
    BY <1>2 DEF InCall
  <1>6. ExclusiveIds' /\ OwnResponse' /\ NoIdLeak' /\ IdsHeld'
    BY <1>2, <1>5 DEF IInv, ExclusiveIds, OwnResponse, NoIdLeak, IdsHeld
  <1>7. 1 .. Len(requests') = {}
    BY <1>2
  <1>8. MessagesBelong' /\ MessagesOnce'
    <2>1. \A x : \A u \in Threads : Belongs(x, u) => Belongs(x, u)'
      BY <1>2 DEF Belongs
    <2> QED
      BY <1>3, <1>7, <2>1 DEF IInv, MessagesBelong, MessagesOnce
  <1>9. EntriesOwn'
    BY <1>2, <1>3, <1>5, <1>7 DEF IInv, EntriesOwn
  <1> QED
    BY <1>4, <1>6, <1>8, <1>9 DEF IInv

-----------------------------------------------------------------------------
(* A stuttering step changes nothing the invariant reads. *)
LEMMA StutterIInv == ASSUME IInv, UNCHANGED vars PROVE IInv'
  <1>1. UNCHANGED <<setSize, pending, response, nextId, lock, pc, id, calls, got, requests, replies, sock>>
    BY DEF vars
  <1>2. TypeOK'
    BY <1>1 DEF IInv, TypeOK, Ids, Calls, Messages
  <1>3. ExclusiveIds' /\ OwnResponse' /\ NoIdLeak' /\ IdsHeld'
    BY <1>1 DEF IInv, ExclusiveIds, OwnResponse, NoIdLeak, IdsHeld, InCall, Ids
  <1>4. MessagesBelong' /\ MessagesOnce' /\ EntriesOwn'
    BY <1>1 DEF IInv, MessagesBelong, MessagesOnce, EntriesOwn, Belongs, InCall
  <1> QED
    BY <1>2, <1>3, <1>4 DEF IInv

(* IInv is an invariant of the request/response layer. *)
THEOREM CommInvariant == Spec => []IInv
  <1>1. IInv /\ [Next]_vars => IInv'
    <2> SUFFICES ASSUME IInv, [Next]_vars PROVE IInv'
      OBVIOUS
    <2>1. ASSUME NEW t \in Threads, GetRequestId(t) PROVE IInv'
      BY <2>1, ReuseIdIInv, GrowSetIInv, NoIdLeftIInv DEF GetRequestId
    <2>2. ASSUME NEW t \in Threads, Send(t) PROVE IInv'
      BY <2>2, SendIInv
    <2>3. ASSUME NEW t \in Threads, GetResponse(t) PROVE IInv'
      BY <2>3, GetResponseIInv
    <2>4. ASSUME NEW t \in Threads, GetNoResponse(t) PROVE IInv'
      BY <2>4, GetNoResponseIInv
    <2>5. CASE Receive
      BY <2>5, ReceiveIInv
    <2>6. CASE Reply
      BY <2>6, ReplyIInv
    <2>7. CASE Disconnect
      BY <2>7, DisconnectIInv
    <2>8. CASE UNCHANGED vars
      BY <2>8, StutterIInv
    <2> QED
      BY <2>1, <2>2, <2>3, <2>4, <2>5, <2>6, <2>7, <2>8 DEF Next
  <1> QED
    BY <1>1, InitIInv, PTL DEF Spec

(* No two open calls share a request id, whatever the growth of the set and the
   order of releases: SVR_ResponseSet_getRequestId reserves ids exclusively. *)
THEOREM ExclusiveIdsAlways == Spec => []ExclusiveIds
  <1>1. IInv => ExclusiveIds
    BY DEF IInv
  <1> QED
    BY <1>1, CommInvariant, PTL

(* SVR_Comm_sendMessage returns the response to the message it sent. *)
THEOREM OwnResponseAlways == Spec => []OwnResponse
  <1>1. IInv => OwnResponse
    BY DEF IInv
  <1> QED
    BY <1>1, CommInvariant, PTL

(* A reserved id has an open call: SVR_ResponseSet_getResponse gives every id back. *)
THEOREM NoIdLeakAlways == Spec => []NoIdLeak
  <1>1. IInv => NoIdLeak
    BY DEF IInv
  <1> QED
    BY <1>1, CommInvariant, PTL

(* Every variable of the request/response layer keeps its type. *)
THEOREM TypeOKAlways == Spec => []TypeOK
  <1>1. IInv => TypeOK
    BY DEF IInv
  <1> QED
    BY <1>1, CommInvariant, PTL

-----------------------------------------------------------------------------
(* Refinement: the layer implements the abstract remote call. *)

(* A step that keeps the calls, results and answered calls is invisible. *)
LEMMA Invisible ==
  ASSUME UNCHANGED <<calls, got>>,
         \A t \in Threads : (pc'[t] # "idle") = (pc[t] # "idle") /\ Answered(t)' = Answered(t)
  PROVE  UNCHANGED Abstract!vars
  BY Zenon DEF Abstract!vars

(* So is, to the caller, an answer that is lost: RPC's Lose. *)
LEMMA Losing ==
  ASSUME UNCHANGED <<calls, got>>,
         \A t \in Threads : (pc'[t] # "idle") = (pc[t] # "idle") /\ (Answered(t)' => Answered(t))
  PROVE  Abstract!Lose
  <1> DEFINE T == {t \in Threads : ~Answered(t)'}
  <1>1. T \in SUBSET Threads
    OBVIOUS
  <1>2. \A t \in Threads : Answered(t)' = (Answered(t) /\ t \notin T)
    BY Zenon DEF Answered
  <1>3. [t \in Threads |-> Answered(t)]' = [t \in Threads |-> [u \in Threads |-> Answered(u)][t] /\ t \notin T]
    BY <1>2, Zenon
  <1>4. [t \in Threads |-> pc[t] # "idle"]' = [t \in Threads |-> pc[t] # "idle"]
    BY Zenon
  <1> QED
    BY <1>1, <1>3, <1>4, Zenon DEF Abstract!Lose

(* An answer in the socket or in its entry is one and the same for its thread. *)
LEMMA AnsweredBy ==
  ASSUME IInv, NEW t \in Threads
  PROVE  Answered(t) <=> /\ InCall(t)
                         /\ \/ \E n \in 1 .. Len(replies) : replies[n].call = <<t, calls[t]>>
                            \/ id[t] # -1 /\ response[id[t]] # NULL
  <1>1. ASSUME NEW n \in 1 .. Len(replies), replies[n].call = <<t, calls[t]>>
        PROVE  replies[n] = [request_id |-> id[t] + 1, call |-> <<t, calls[t]>>]
    <2>1. PICK u \in Threads : Belongs(replies[n], u)
      BY DEF IInv, MessagesBelong
    <2>2. replies[n].call = <<u, calls[u]>>
      BY <2>1 DEF Belongs
    <2>3. u = t
      BY <1>1, <2>2
    <2> QED
      BY <2>1, <2>3 DEF Belongs
  <1>2. ASSUME NEW n \in 1 .. Len(replies),
               replies[n] = [request_id |-> id[t] + 1, call |-> <<t, calls[t]>>]
        PROVE  replies[n].call = <<t, calls[t]>>
    BY <1>2
  <1> QED
    BY <1>1, <1>2 DEF Answered

(* getRequestId opens a call that nobody has served. *)
LEMMA GetRequestIdRefines ==
  ASSUME IInv, IInv', NEW t \in Threads, GetRequestId(t) PROVE Abstract!Call(t)
  <1>0. TypeOK /\ TypeOK'
    BY DEF IInv
  <1>1. /\ pc[t] = "idle" /\ calls[t] < MaxCalls /\ calls' = [calls EXCEPT ![t] = @ + 1]
        /\ pc' = [pc EXCEPT ![t] = "send"] /\ UNCHANGED <<got, replies>>
    BY DEF GetRequestId, ReuseId, GrowSet, NoIdLeft, Begin
  <1>2. /\ ~InCall(t) /\ pc'[t] = "send"
        /\ \A u \in Threads \ {t} : pc'[u] = pc[u] /\ InCall(u)' = InCall(u) /\ calls'[u] = calls[u]
    BY <1>0, <1>1 DEF InCall, TypeOK
  <1>3. \A u \in Threads \ {t} : /\ id'[u] = id[u]
                                 /\ InCall(u) /\ id[u] # -1 => response'[id[u]] = response[id[u]]
    <2>1. CASE ReuseId(t)
      <3>1. PICK i \in Ids : /\ IsFirstFree(i) /\ id' = [id EXCEPT ![t] = i]
                             /\ response' = [response EXCEPT ![i] = NULL]
        BY <2>1 DEF ReuseId
      <3>2. ~pending[i]
        BY <3>1 DEF IsFirstFree
      <3>3. response \in [Ids -> Calls \cup {NULL, Junk}] /\ id \in [Threads -> Ids \cup {-1}]
        BY <1>0 DEF TypeOK
      <3>4. \A u \in Threads : InCall(u) /\ id[u] # -1 => id[u] # i /\ id[u] \in Ids
        BY <3>2, <3>3 DEF IInv, IdsHeld
      <3> QED
        BY <3>1, <3>3, <3>4
    <2>2. CASE GrowSet(t)
      <3>1. setSize \in Nat /\ id \in [Threads -> Ids \cup {-1}] /\ Grow \in Nat
        BY <1>0, CommAssumption DEF TypeOK
      <3>2. /\ id' = [id EXCEPT ![t] = setSize]
            /\ response' = [i \in 0 .. setSize + Grow - 1 |->
                              IF i < setSize THEN response[i]
                              ELSE IF i = setSize THEN NULL ELSE Junk]
        BY <2>2 DEF GrowSet
      <3>3. \A j \in Ids : j \in 0 .. setSize + Grow - 1 /\ j < setSize
        BY <3>1 DEF Ids
      <3>4. \A j \in Ids : response'[j] = response[j]
        BY <3>2, <3>3
      <3> QED
        BY <3>1, <3>2, <3>4
    <2>3. CASE NoIdLeft(t)
      BY <1>0, <2>3 DEF NoIdLeft, set, TypeOK
    <2> QED
      BY <2>1, <2>2, <2>3 DEF GetRequestId
  <1>4. \A u \in Threads \ {t} : Answered(u)' = Answered(u)
    BY <1>1, <1>2, <1>3 DEF Answered
  <1>5. ~Answered(t)
    BY <1>2 DEF Answered
  <1>6. ~Answered(t)'
    <2>1. id'[t] = -1 \/ response'[id'[t]] = NULL
      BY <1>2 DEF IInv, EntriesOwn, InCall
    <2>2. ASSUME NEW n \in 1 .. Len(replies') PROVE replies'[n].call # <<t, calls'[t]>>
      <3>1. PICK u \in Threads : Belongs(replies[n], u)'
        BY DEF IInv, MessagesBelong
      <3>2. u # t /\ replies'[n].call = <<u, calls'[u]>>
        BY <1>2, <3>1 DEF Belongs
      <3> QED
        BY <3>2
    <2>3. \A n \in 1 .. Len(replies') :
             replies'[n] # [request_id |-> id'[t] + 1, call |-> <<t, calls'[t]>>]
      BY <2>2
    <2> QED
      BY <2>1, <2>3 DEF Answered
  <1>7. [u \in Threads |-> Answered(u)]' = [u \in Threads |-> Answered(u)]
    <2>1. Answered(t)' = Answered(t)
      BY <1>5, <1>6, Zenon DEF Answered
    <2> QED
      BY <1>4, <2>1, Zenon
  <1>8. [u \in Threads |-> pc[u] # "idle"]' = [[u \in Threads |-> pc[u] # "idle"] EXCEPT ![t] = TRUE]
    BY <1>2, Zenon
  <1>9. ~[u \in Threads |-> pc[u] # "idle"][t]
    BY <1>1
  <1> QED
    BY <1>1, <1>7, <1>8, <1>9 DEF Abstract!Call

(* getResponse returns to the caller the answer that served it. *)
LEMMA GetResponseRefines ==
  ASSUME IInv, NEW t \in Threads, GetResponse(t)
  PROVE  Abstract!Return(t) \/ UNCHANGED Abstract!vars
  <1>0. TypeOK
    BY DEF IInv
  <1>1. pc[t] = "get" /\ UNCHANGED <<setSize, response, nextId, lock, id, calls, requests, replies, sock>>
    BY DEF GetResponse
  <1>2. id[t] # -1 /\ InCall(t)
    BY <1>1, CommAssumption DEF GetResponse, IInv, IdsHeld, InCall
  <1>3. CASE response[id[t]] = NULL
    <2>1. pc' = [pc EXCEPT ![t] = "wait"] /\ UNCHANGED got
      BY <1>3 DEF GetResponse
    <2>2. \A u \in Threads : InCall(u)' = InCall(u) /\ (pc'[u] # "idle") = (pc[u] # "idle")
      BY <1>0, <1>1, <2>1 DEF InCall, TypeOK
    <2>3. \A u \in Threads : Answered(u)' = Answered(u)
      BY <1>1, <2>2 DEF Answered
    <2> QED
      BY <1>1, <2>1, <2>2, <2>3, Invisible
  <1>4. CASE response[id[t]] # NULL
    <2>1. /\ pc' = [pc EXCEPT ![t] = "idle"] /\ got' = [got EXCEPT ![t] = response[id[t]]]
          /\ response[id[t]] = <<t, calls[t]>>
      BY <1>2, <1>4 DEF GetResponse, IInv, EntriesOwn
    <2>2. /\ pc'[t] = "idle" /\ ~InCall(t)'
          /\ \A u \in Threads \ {t} : pc'[u] = pc[u] /\ InCall(u)' = InCall(u)
      BY <1>0, <2>1 DEF InCall, TypeOK
    <2>3. Answered(t) /\ ~Answered(t)' /\ \A u \in Threads \ {t} : Answered(u)' = Answered(u)
      BY <1>1, <1>2, <1>4, <2>2 DEF Answered
    <2>4. [u \in Threads |-> Answered(u)]' = [[u \in Threads |-> Answered(u)] EXCEPT ![t] = FALSE]
      <3>1. Answered(t)' = FALSE
        BY <2>3, Zenon DEF Answered
      <3> QED
        BY <2>3, <3>1, Zenon
    <2>5. [u \in Threads |-> pc[u] # "idle"]' = [[u \in Threads |-> pc[u] # "idle"] EXCEPT ![t] = FALSE]
      BY <2>2, Zenon
    <2>6. [u \in Threads |-> pc[u] # "idle"][t] /\ [u \in Threads |-> Answered(u)][t]
      BY <1>1, <2>3
    <2> QED
      BY <1>1, <2>1, <2>4, <2>5, <2>6 DEF Abstract!Return
  <1> QED
    BY <1>3, <1>4

(* The receive thread moves an answer from the socket to its entry; the answer
   to a call that got no id is dropped. *)
LEMMA ReceiveRefines == ASSUME IInv, IInv', Receive PROVE Abstract!Lose
  <1>0. TypeOK /\ TypeOK' /\ replies \in Seq(Messages)
    BY DEF IInv, TypeOK
  <1>1. replies # << >> /\ replies' = Tail(replies) /\ UNCHANGED <<calls, got, id, setSize, pending>>
    BY DEF Receive
  <1>2. /\ pc' = pc \/ pc' = [t \in Threads |-> IF pc[t] = "wait" THEN "get" ELSE pc[t]]
    BY DEF Receive, SetResponse, Broadcast
  <1>3. \A u \in Threads : InCall(u)' = InCall(u) /\ (pc'[u] # "idle") = (pc[u] # "idle")
    BY <1>0, <1>2 DEF InCall, TypeOK
  <1>4. /\ 1 \in 1 .. Len(replies) /\ Head(replies) = replies[1]
        /\ \A n \in 1 .. Len(replies') : n + 1 \in 1 .. Len(replies) /\ replies'[n] = replies[n + 1]
    BY <1>0, <1>1, TailAt
  <1>5. ASSUME NEW u \in Threads, Answered(u)' PROVE Answered(u)
    <2>1. InCall(u)
      BY <1>3, <1>5, AnsweredBy DEF Answered
    <2>2. CASE \E n \in 1 .. Len(replies') : replies'[n] = [request_id |-> id'[u] + 1,
                                                             call |-> <<u, calls'[u]>>]
      <3>1. PICK n \in 1 .. Len(replies') : replies'[n] = [request_id |-> id[u] + 1,
                                                           call |-> <<u, calls[u]>>]
        BY <1>1, <2>2
      <3>2. n + 1 \in 1 .. Len(replies) /\ replies[n + 1].call = <<u, calls[u]>>
        BY <1>4, <3>1
      <3> QED
        BY <2>1, <3>2, AnsweredBy
    <2>3. CASE id'[u] # -1 /\ response'[id'[u]] # NULL
      <3>1. response'[id[u]] = response[id[u]] \/ Head(replies).call = response'[id[u]]
        <4>1. response \in [Ids -> Calls \cup {NULL, Junk}] /\ id[u] \in Ids
          BY <1>0, <1>1, <2>3 DEF TypeOK
        <4>2. \/ UNCHANGED response
              \/ \E i \in Ids : response' = [response EXCEPT ![i] = Head(replies).call]
          BY DEF Receive, SetResponse
        <4> QED
          BY <4>1, <4>2
      <3>2. response'[id[u]] = <<u, calls[u]>>
        BY <1>1, <1>3, <2>1, <2>3 DEF IInv, EntriesOwn
      <3> QED
        BY <1>1, <1>4, <2>1, <2>3, <3>1, <3>2, AnsweredBy
    <2> QED
      BY <1>5, <2>2, <2>3 DEF Answered
  <1> QED
    BY <1>1, <1>3, <1>5, Losing

(* The server's answer serves the call, unless it was lost to the -1 id. *)
LEMMA ReplyRefines ==
  ASSUME IInv, IInv', Reply
  PROVE  (\E t \in Threads : Abstract!Serve(t)) \/ UNCHANGED Abstract!vars
  <1>0. TypeOK /\ requests \in Seq(Messages) /\ replies \in Seq(Messages)
    BY DEF IInv, TypeOK
  <1>1. /\ requests # << >> /\ replies' = Append(replies, Head(requests))
        /\ UNCHANGED <<calls, got, id, pc, response>>
    BY DEF Reply, set
  <1>2. 1 \in 1 .. Len(requests) /\ Head(requests) = requests[1] /\ requests[1] \in Messages
    BY <1>0, <1>1, TailAt
  <1>3. PICK t \in Threads : Belongs(requests[1], t)
    BY <1>2 DEF IInv, MessagesBelong
  <1>4. requests[1].call = <<t, calls[t]>> /\ pc[t] # "idle"
    BY <1>3 DEF Belongs
  <1>5. \A n \in 1 .. Len(replies') : \/ n \in 1 .. Len(replies) /\ replies'[n] = replies[n]
                                      \/ n = Len(replies) + 1 /\ replies'[n] = requests[1]
    BY <1>0, <1>1, <1>2, AppendAt
  <1>6. /\ \A n \in 1 .. Len(replies) : n \in 1 .. Len(replies') /\ replies'[n] = replies[n]
        /\ Len(replies) + 1 \in 1 .. Len(replies') /\ replies'[Len(replies) + 1] = requests[1]
    BY <1>0, <1>1, <1>2
  <1>7. \A u \in Threads : InCall(u)' = InCall(u)
    BY <1>1 DEF InCall
  <1>8. \A u \in Threads \ {t} : Answered(u)' = Answered(u)
    <2> SUFFICES ASSUME NEW u \in Threads \ {t} PROVE Answered(u)' <=> Answered(u)
      BY Zenon DEF Answered
    <2> DEFINE r == [request_id |-> id[u] + 1, call |-> <<u, calls[u]>>]
    <2>1. requests[1] # r
      BY <1>4
    <2>2. (\E n \in 1 .. Len(replies') : replies'[n] = r) <=> (\E n \in 1 .. Len(replies) : replies[n] = r)
      <3> HIDE DEF r
      <3> QED
        BY <1>5, <1>6, <2>1
    <2> QED
      BY <1>1, <1>7, <2>2 DEF Answered
  <1>9. CASE ~InCall(t)
    <2>1. Answered(t)' = Answered(t)
      BY <1>7, <1>9, Zenon DEF Answered
    <2> QED
      BY <1>1, <1>8, <2>1, Invisible
  <1>10. CASE InCall(t)
    <2>1. ~Answered(t)
      <3>1. \A n \in 1 .. Len(replies) : replies[n].call # <<t, calls[t]>>
        BY <1>2, <1>4 DEF IInv, MessagesOnce
      <3>2. id[t] = -1 \/ response[id[t]] = NULL
        BY <1>2, <1>4, <1>10 DEF IInv, EntriesOwn
      <3> QED
        BY <3>1, <3>2, AnsweredBy
    <2>2. Answered(t)'
      BY <1>1, <1>3, <1>6, <1>7, <1>10 DEF Answered, Belongs
    <2>3. [u \in Threads |-> Answered(u)]' = [[u \in Threads |-> Answered(u)] EXCEPT ![t] = TRUE]
      <3>1. Answered(t)' = TRUE
        BY <2>2, Zenon DEF Answered
      <3> QED
        BY <1>8, <3>1, Zenon
    <2>4. [u \in Threads |-> pc[u] # "idle"][t] /\ ~[u \in Threads |-> Answered(u)][t]
      BY <1>4, <2>1
    <2> QED
      BY <1>1, <2>3, <2>4 DEF Abstract!Serve
  <1> QED
    BY <1>9, <1>10

(* SVR_Comm_sendMessage over the ResponseSet implements the remote call of RPC. *)
THEOREM CommImplementsRPC == Spec => ImplementsRPC
  <1>1. Init => Abstract!Init
    <2> SUFFICES ASSUME Init PROVE Abstract!Init
      OBVIOUS
    <2>1. \A t \in Threads : (pc[t] # "idle") = FALSE /\ Answered(t) = FALSE
      BY Zenon DEF Init, Answered, InCall
    <2>2. [t \in Threads |-> pc[t] # "idle"] = [t \in Threads |-> FALSE]
      BY <2>1, Zenon
    <2>3. [t \in Threads |-> Answered(t)] = [t \in Threads |-> FALSE]
      BY <2>1, Zenon
    <2> QED
      BY <2>2, <2>3, Zenon DEF Abstract!Init, Init
  <1>2. IInv /\ IInv' /\ [Next]_vars => [Abstract!Next]_Abstract!vars
    <2> SUFFICES ASSUME IInv, IInv', [Next]_vars PROVE Abstract!Next \/ UNCHANGED Abstract!vars
      OBVIOUS
    <2>1. ASSUME NEW t \in Threads, GetRequestId(t) PROVE Abstract!Next
      BY <2>1, GetRequestIdRefines DEF Abstract!Next
    <2>2. ASSUME NEW t \in Threads, Send(t) PROVE UNCHANGED Abstract!vars
      <3>1. /\ pc[t] = "send" /\ pc' = [pc EXCEPT ![t] = "get"]
            /\ UNCHANGED <<response, id, calls, got, replies>>
        BY <2>2 DEF Send, set
      <3>2. \A u \in Threads : InCall(u)' = InCall(u) /\ (pc'[u] # "idle") = (pc[u] # "idle")
        BY <3>1 DEF InCall, IInv, TypeOK
      <3>3. \A u \in Threads : Answered(u)' = Answered(u)
        BY <3>1, <3>2 DEF Answered
      <3> QED
        BY <3>1, <3>2, <3>3, Invisible
    <2>3. ASSUME NEW t \in Threads, GetResponse(t) PROVE Abstract!Next \/ UNCHANGED Abstract!vars
      BY <2>3, GetResponseRefines DEF Abstract!Next
    <2>4. ASSUME NEW t \in Threads, GetNoResponse(t) PROVE Abstract!Next
      <3>1. /\ pc[t] = "get" /\ pc' = [pc EXCEPT ![t] = "lost"]
            /\ UNCHANGED <<response, id, calls, got, replies>>
        BY <2>4 DEF GetNoResponse, set
      <3>2. \A u \in Threads : (InCall(u)' => InCall(u)) /\ (pc'[u] # "idle") = (pc[u] # "idle")
        BY <3>1 DEF InCall, IInv, TypeOK
      <3>3. \A u \in Threads : Answered(u)' => Answered(u)
        BY <3>1, <3>2 DEF Answered
      <3> QED
        BY <3>1, <3>2, <3>3, Losing DEF Abstract!Next
    <2>5. CASE Receive
      BY <2>5, ReceiveRefines DEF Abstract!Next
    <2>6. CASE Reply
      BY <2>6, ReplyRefines DEF Abstract!Next
    <2>7. CASE Disconnect
      <3>1. PICK k \in 0 .. Len(replies) : replies' = SubSeq(replies, 1, k)
        BY <2>7 DEF Disconnect
      <3>2. \A n \in 1 .. Len(replies') : n \in 1 .. Len(replies) /\ replies'[n] = replies[n]
        <4>1. replies \in Seq(Messages)
          BY DEF IInv, TypeOK
        <4> QED
          BY <3>1, <4>1, PrefixAt
      <3>3. UNCHANGED <<calls, got, pc, id, response>>
        BY <2>7 DEF Disconnect, set
      <3>4. \A u \in Threads : Answered(u)' => Answered(u)
        BY <3>2, <3>3 DEF Answered, InCall
      <3> QED
        BY <3>3, <3>4, Losing DEF Abstract!Next
    <2>8. CASE UNCHANGED vars
      BY <2>8 DEF vars, Abstract!vars, Answered, InCall
    <2> QED
      BY <2>1, <2>2, <2>3, <2>4, <2>5, <2>6, <2>7, <2>8 DEF Next
  <1> QED
    BY <1>1, <1>2, CommInvariant, PTL DEF Spec, ImplementsRPC, Abstract!Spec
=============================================================================
