------------------------ MODULE SourceRegistry_proofs ------------------------
(***************************************************************************)
(* Proofs about SourceRegistry, for any clients, names and number of       *)
(* source objects: every property the module states.  The properties are   *)
(* not inductive by themselves: why a client that is closing may use the   *)
(* sources it provides, to which it holds no reference, rests on who can   *)
(* close which source, and that on what each thread knows of its source at *)
(* each place.  The invariant Lifetime says so, part by part.              *)
(***************************************************************************)
EXTENDS SourceRegistry, FiniteSetTheorems, TLAPS

(* A source has its name from SVRD_Source_new to SVRD_Source_cleanup; until it is
   closed it is in the dictionary; one with a type belongs to the server. *)
ObjectsNamed ==
  /\ \A n \in Names : dict[n] # NULL => dict[n] \in live /\ name[dict[n]] = n /\ self[dict[n]]
  /\ \A o \in live : /\ name[o] \in Names
                     /\ ~closed[o] => dict[name[o]] = o
                     /\ typed[o] => owner[o] = Server

(* The entries of client->sources that the client may still use. *)
Usable(c) == {n \in Names : mine[c][n] # NULL /\ (ending[c] => n \in todo[c])}

(* They are the client's own open sources. *)
MineOpen(c) ==
  /\ \A n \in Usable(c) : /\ mine[c][n] = dict[n] /\ mine[c][n] \in live
                          /\ owner[mine[c][n]] = c
                          /\ ~closed[mine[c][n]]
  /\ \A n \in todo[c] : mine[c][n] # NULL

(* Conversely, the client has every source it owns that is in the dictionary among
   its entries, or it is just entering it there or closing it. *)
OwnedTracked(c) ==
  \A n \in Names :
    dict[n] # NULL /\ owner[dict[n]] = c =>
      \/ n \in Usable(c) /\ mine[c][n] = dict[n]
      \/ pc[c] \in {"provide", "mark", "remove"} /\ src[c] = dict[n]

(* What the client's thread knows of itself: its arguments and whether it is closing. *)
PlaceOK(c) ==
  /\ pc[c] \in {"newClient", "newServer", "provide", "check"} => arg[c] \in Names
  /\ pc[c] \in {"ending", "gone"} => ending[c]
  /\ ending[c] => pc[c] \in {"ending", "gone", "mark", "remove", "release", "unref"}
  /\ ~ending[c] => todo[c] = {}
  /\ pc[c] = "gone" => todo[c] = {}

(* A source that is being opened is open, and is closed by nobody: rClose refuses it. *)
OpeningKnown(c) ==
  /\ pc[c] = "provide" => /\ src[c] \in live /\ ~closed[src[c]]
                          /\ dict[arg[c]] = src[c] /\ owner[src[c]] = c
  /\ pc[c] = "type" => /\ src[c] \in live /\ ~closed[src[c]] /\ ~typed[src[c]]
                       /\ owner[src[c]] = Server

(* What rClose and destroy know of the source they work on: whoever closes a client
   source is its owner, and finds it open. *)
ClosingKnown(c) ==
  /\ Handling(c) => src[c] \in live
  /\ pc[c] = "check" => /\ name[src[c]] = arg[c]
                        /\ mine[c][arg[c]] # NULL => mine[c][arg[c]] = src[c]
  /\ pc[c] \in {"mark", "remove", "release"} =>
        /\ src[c] \in live
        /\ typed[src[c]] \/ owner[src[c]] = c
        /\ ending[c] => owner[src[c]] = c
        /\ \A n \in Usable(c) : mine[c][n] # src[c]
  /\ pc[c] = "mark" => (owner[src[c]] = c => ~closed[src[c]])
  /\ pc[c] = "remove" => closed[src[c]] /\ self[src[c]] /\ dict[name[src[c]]] = src[c]
  /\ pc[c] = "release" => /\ closed[src[c]] /\ self[src[c]]
                          /\ \A n \in Names : dict[n] # src[c]

(* The source a stream has a reference to. *)
StreamOK(c) == Attached(c) => stream[c] \in live

ClientOK(c) == /\ MineOpen(c) /\ OwnedTracked(c) /\ PlaceOK(c) /\ OpeningKnown(c)
               /\ ClosingKnown(c) /\ StreamOK(c)

(* One opener sets the type of a source; one closer gets past the mark. *)
Alone(places) == \A c, d \in Clients :
                   c # d /\ pc[c] \in places /\ pc[d] \in places => src[c] # src[d]

Lifetime == /\ ObjectsNamed
            /\ \A c \in Clients : ClientOK(c)
            /\ Alone({"type"}) /\ Alone({"remove", "release"})

IInv == TypeOK /\ RefsExact /\ Lifetime
-----------------------------------------------------------------------------
(* Counting references. *)

Handlers(o) == {c \in Clients : Handling(c) /\ src[c] = o}
Streams(o) == {c \in Clients : Attached(c) /\ stream[c] = o}

(* The streams keep the references they have. *)
StreamsKept == \A d \in Clients : /\ Attached(d)' <=> Attached(d)
                                  /\ Attached(d) => stream'[d] = stream[d]

(* A set of clients that one client joins or leaves. *)
LEMMA Counting ==
  ASSUME NEW S \in SUBSET Clients, NEW c \in Clients
  PROVE  /\ Cardinality(S) \in Nat
         /\ c \in S => Cardinality(S) > 0 /\ Cardinality(S \ {c}) = Cardinality(S) - 1
         /\ c \notin S => Cardinality(S \cup {c}) = Cardinality(S) + 1
  <1>1. IsFiniteSet(S)
    BY FS_Subset, RegistryAssumption
  <1>2. Cardinality(S) \in Nat
    BY <1>1, FS_CardinalityType
  <1>3. c \in S => Cardinality(S) # 0
    BY <1>1, FS_EmptySet
  <1>4. c \in S => Cardinality(S \ {c}) = Cardinality(S) - 1
    BY <1>1, FS_RemoveElement
  <1>5. c \notin S => Cardinality(S \cup {c}) = Cardinality(S) + 1
    BY <1>1, FS_AddElement
  <1> QED
    BY <1>2, <1>3, <1>4, <1>5

(* A source that is registered, handled or attached to has a reference. *)
LEMMA Referenced ==
  ASSUME TypeOK, RefsExact, NEW o \in live
  PROVE  /\ Cardinality(Handlers(o)) \in Nat /\ Cardinality(Streams(o)) \in Nat
         /\ self[o] => refs[o] > 0
         /\ \A c \in Clients : (Handling(c) /\ src[c] = o) \/ (Attached(c) /\ stream[c] = o)
                              => refs[o] > 0
  <1>1. \A c \in Clients : c \in Handlers(o) => Cardinality(Handlers(o)) > 0
    BY Counting DEF Handlers
  <1>2. \A c \in Clients : c \in Streams(o) => Cardinality(Streams(o)) > 0
    BY Counting DEF Streams
  <1>3. Cardinality(Handlers(o)) \in Nat /\ Cardinality(Streams(o)) \in Nat
    BY FS_Subset, FS_CardinalityType, RegistryAssumption DEF Handlers, Streams
  <1>4. refs[o] = (IF self[o] THEN 1 ELSE 0) + leaked[o]
                  + Cardinality(Handlers(o)) + Cardinality(Streams(o))
    BY DEF RefsExact, Handlers, Streams
  <1>5. leaked[o] \in Nat
    BY DEF TypeOK
  <1>6. self[o] => refs[o] > 0
    BY <1>3, <1>4, <1>5
  <1>7. ASSUME NEW c \in Clients,
               (Handling(c) /\ src[c] = o) \/ (Attached(c) /\ stream[c] = o)
        PROVE  refs[o] > 0
    <2>1. c \in Handlers(o) \/ c \in Streams(o)
      BY <1>7 DEF Handlers, Streams
    <2> QED
      BY <1>1, <1>2, <1>3, <1>4, <1>5, <2>1
  <1> QED
    BY <1>3, <1>6, <1>7

(* A step that takes no handler off its source, nor puts one on one, and leaves the
   counts alone. *)
LEMMA RefsKept ==
  ASSUME RefsExact, UNCHANGED <<live, refs, self, leaked>>, StreamsKept,
         \A d \in Clients : /\ Handling(d)' <=> Handling(d)
                            /\ Handling(d) => src'[d] = src[d]
  PROVE  RefsExact'
  <1>1. \A o : Handlers(o)' = Handlers(o) /\ Streams(o)' = Streams(o)
    BY DEF Handlers, Streams, StreamsKept
  <1> QED
    BY <1>1 DEF RefsExact, Handlers, Streams

(* A lookup: one handler takes a reference. *)
LEMMA RefTaken ==
  ASSUME TypeOK, RefsExact, NEW c \in Clients, NEW o \in live,
         UNCHANGED <<live, self, leaked>>, StreamsKept,
         refs' = [refs EXCEPT ![o] = @ + 1],
         ~Handling(c), Handling(c)', src'[c] = o,
         \A d \in Clients \ {c} : (Handling(d)' <=> Handling(d)) /\ src'[d] = src[d]
  PROVE  RefsExact'
  <1>1. /\ Handlers(o)' = Handlers(o) \cup {c} /\ c \notin Handlers(o)
        /\ \A p : p # o => Handlers(p)' = Handlers(p)
        /\ \A p : Streams(p)' = Streams(p)
    BY DEF Handlers, Streams, StreamsKept
  <1>2. Cardinality(Handlers(o)') = Cardinality(Handlers(o)) + 1
    BY <1>1, Counting DEF Handlers
  <1>3. \A p \in live : /\ Cardinality(Handlers(p)) \in Nat /\ Cardinality(Streams(p)) \in Nat
                        /\ refs[p] = (IF self[p] THEN 1 ELSE 0) + leaked[p]
                                     + Cardinality(Handlers(p)) + Cardinality(Streams(p))
                        /\ leaked[p] \in Nat /\ p \in Objects /\ refs[p] \in Nat
    BY Referenced DEF RefsExact, Handlers, Streams, TypeOK
  <1>4. refs'[o] = refs[o] + 1 /\ \A p \in live : p # o => refs'[p] = refs[p]
    BY <1>3 DEF TypeOK
  <1>5. ASSUME NEW p \in live
        PROVE  refs'[p] = (IF self[p] THEN 1 ELSE 0) + leaked[p]
                          + Cardinality(Handlers(p)') + Cardinality(Streams(p)')
    <2>1. CASE p = o
      <3>1. Cardinality(Handlers(p)') = Cardinality(Handlers(p)) + 1 /\ refs'[p] = refs[p] + 1
            /\ Cardinality(Streams(p)') = Cardinality(Streams(p))
        BY <2>1, <1>1, <1>2, <1>4
      <3>2. /\ Cardinality(Handlers(p)) \in Nat /\ Cardinality(Streams(p)) \in Nat
            /\ refs[p] = (IF self[p] THEN 1 ELSE 0) + leaked[p]
                         + Cardinality(Handlers(p)) + Cardinality(Streams(p))
            /\ leaked[p] \in Nat
        BY <1>3
      <3> QED
        BY <3>1, <3>2
    <2>2. CASE p # o
      <3>1. /\ Cardinality(Handlers(p)') = Cardinality(Handlers(p)) /\ refs'[p] = refs[p]
            /\ Cardinality(Streams(p)') = Cardinality(Streams(p))
        BY <2>2, <1>1, <1>4
      <3> QED
        BY <1>3, <3>1
    <2> QED
      BY <2>1, <2>2
  <1> QED
    BY <1>5 DEF RefsExact, Handlers, Streams

(* The end of a handler that gives its reference back. *)
LEMMA RefGiven ==
  ASSUME TypeOK, RefsExact, NEW c \in Clients, src[c] \in live,
         UNCHANGED <<live, self, leaked>>, StreamsKept,
         refs' = [refs EXCEPT ![src[c]] = @ - 1],
         Handling(c), ~Handling(c)',
         \A d \in Clients \ {c} : (Handling(d)' <=> Handling(d)) /\ src'[d] = src[d]
  PROVE  RefsExact' /\ refs' \in [Objects -> Nat]
  <1>0. PICK o \in live : o = src[c] /\ refs' = [refs EXCEPT ![o] = @ - 1]
    OBVIOUS
  <1>1. /\ Handlers(o)' = Handlers(o) \ {c} /\ c \in Handlers(o)
        /\ \A p : p # o => Handlers(p)' = Handlers(p)
        /\ \A p : Streams(p)' = Streams(p)
    BY <1>0 DEF Handlers, Streams, StreamsKept
  <1>2. Cardinality(Handlers(o)') = Cardinality(Handlers(o)) - 1 /\ Cardinality(Handlers(o)) > 0
    BY <1>1, Counting DEF Handlers
  <1>3. \A p \in live : /\ Cardinality(Handlers(p)) \in Nat /\ Cardinality(Streams(p)) \in Nat
                        /\ refs[p] = (IF self[p] THEN 1 ELSE 0) + leaked[p]
                                     + Cardinality(Handlers(p)) + Cardinality(Streams(p))
                        /\ leaked[p] \in Nat /\ p \in Objects /\ refs[p] \in Nat
    BY Referenced DEF RefsExact, Handlers, Streams, TypeOK
  <1>4. refs'[o] = refs[o] - 1 /\ \A p \in live : p # o => refs'[p] = refs[p]
    BY <1>0, <1>3 DEF TypeOK
  <1>5. ASSUME NEW p \in live
        PROVE  refs'[p] = (IF self[p] THEN 1 ELSE 0) + leaked[p]
                          + Cardinality(Handlers(p)') + Cardinality(Streams(p)')
    <2>1. CASE p = o
      <3>1. Cardinality(Handlers(p)') = Cardinality(Handlers(p)) - 1 /\ refs'[p] = refs[p] - 1
            /\ Cardinality(Streams(p)') = Cardinality(Streams(p))
        BY <2>1, <1>1, <1>2, <1>4
      <3>2. /\ Cardinality(Handlers(p)) \in Nat /\ Cardinality(Streams(p)) \in Nat
            /\ refs[p] = (IF self[p] THEN 1 ELSE 0) + leaked[p]
                         + Cardinality(Handlers(p)) + Cardinality(Streams(p))
            /\ leaked[p] \in Nat
        BY <1>3
      <3> QED
        BY <3>1, <3>2
    <2>2. CASE p # o
      <3>1. /\ Cardinality(Handlers(p)') = Cardinality(Handlers(p)) /\ refs'[p] = refs[p]
            /\ Cardinality(Streams(p)') = Cardinality(Streams(p))
        BY <2>2, <1>1, <1>4
      <3> QED
        BY <1>3, <3>1
    <2> QED
      BY <2>1, <2>2
  <1>6. refs[o] > 0
    BY <1>0, <1>2, <1>3
  <1>7. refs' \in [Objects -> Nat]
    BY <1>0, <1>6 DEF TypeOK
  <1> QED
    BY <1>5, <1>7 DEF RefsExact, Handlers, Streams

(* SVRD_Stream_detachSource: the stream's reference turns into one that nobody has. *)
LEMMA RefLost ==
  ASSUME TypeOK, RefsExact, NEW c \in Clients, StreamOK(c),
         Detached(c), UNCHANGED <<live, refs, self>>,
         \A d \in Clients \ {c} : pc'[d] = pc[d],
         \A d \in Clients : /\ Handling(d)' <=> Handling(d)
                            /\ Handling(d) => src'[d] = src[d]
  PROVE  RefsExact' /\ leaked' \in [Objects -> Nat]
  <1>0. /\ stream'[c] = NULL /\ ~Attached(c)'
        /\ \A d \in Clients \ {c} : (Attached(d)' <=> Attached(d)) /\ stream'[d] = stream[d]
    BY DEF Detached, TypeOK, Attached
  <1>1. CASE ~Attached(c)
    <2>1. StreamsKept /\ leaked' = leaked
      BY <1>0, <1>1 DEF Detached, StreamsKept
    <2> QED
      BY <2>1, RefsKept DEF TypeOK
  <1>2. CASE Attached(c)
    <2>0. PICK o \in live : /\ o = stream[c]
                            /\ leaked' = [leaked EXCEPT ![o] = @ + 1]
      BY <1>2 DEF Detached, StreamOK
    <2>1. /\ \A p : Handlers(p)' = Handlers(p)
          /\ Streams(o)' = Streams(o) \ {c} /\ c \in Streams(o)
          /\ \A p \in live : p # o => Streams(p)' = Streams(p)
      <3>1. \A p : Handlers(p)' = Handlers(p)
        BY DEF Handlers
      <3>2. Streams(o)' = Streams(o) \ {c} /\ c \in Streams(o)
        BY <1>0, <1>2, <2>0 DEF Streams
      <3>3. ASSUME NEW p \in live, p # o PROVE Streams(p)' = Streams(p)
        BY <1>0, <1>2, <2>0, <3>3 DEF Streams
      <3> QED
        BY <3>1, <3>2, <3>3
    <2>2. /\ Cardinality(Streams(o)') = Cardinality(Streams(o)) - 1
      BY <2>1, Counting DEF Streams
    <2>3. leaked'[o] = leaked[o] + 1 /\ \A p \in live : p # o => leaked'[p] = leaked[p]
      BY <2>0 DEF TypeOK
    <2>4. ASSUME NEW p \in live
          PROVE  refs'[p] = (IF self'[p] THEN 1 ELSE 0) + leaked'[p]
                            + Cardinality(Handlers(p)') + Cardinality(Streams(p)')
      <3>1. /\ Cardinality(Handlers(p)) \in Nat /\ Cardinality(Streams(p)) \in Nat
            /\ refs[p] = (IF self[p] THEN 1 ELSE 0) + leaked[p]
                         + Cardinality(Handlers(p)) + Cardinality(Streams(p))
            /\ leaked[p] \in Nat
        BY Referenced DEF RefsExact, Handlers, Streams, TypeOK
      <3>2. CASE p = o
        <4>1. /\ Cardinality(Handlers(p)') = Cardinality(Handlers(p))
              /\ Cardinality(Streams(p)') = Cardinality(Streams(p)) - 1
              /\ leaked'[p] = leaked[p] + 1
          BY <2>1, <2>2, <2>3, <3>2
        <4> QED
          BY <3>1, <4>1
      <3>3. CASE p # o
        <4>1. /\ Cardinality(Handlers(p)') = Cardinality(Handlers(p))
              /\ Cardinality(Streams(p)') = Cardinality(Streams(p))
              /\ leaked'[p] = leaked[p]
          BY <2>1, <2>3, <3>3
        <4> QED
          BY <3>1, <4>1
      <3> QED
        BY <3>2, <3>3
    <2>5. leaked' \in [Objects -> Nat]
      BY <2>0 DEF TypeOK
    <2> QED
      BY <2>4, <2>5 DEF RefsExact, Handlers, Streams
  <1> QED
    BY <1>1, <1>2

(* SVRD_Stream_attachSource gives up the stream's reference to the old source ... *)
LEMMA RefDropped ==
  ASSUME TypeOK, RefsExact, NEW c \in Clients, stream[c] \in live, Attached(c), ~Attached(c)',
         UNCHANGED <<live, self, leaked, stream>>,
         refs' = [refs EXCEPT ![stream[c]] = @ - 1],
         \A d \in Clients : (Handling(d)' <=> Handling(d)) /\ src'[d] = src[d],
         \A d \in Clients \ {c} : Attached(d)' <=> Attached(d)
  PROVE  RefsExact' /\ refs' \in [Objects -> Nat]
  <1>0. PICK o \in live : o = stream[c] /\ refs' = [refs EXCEPT ![o] = @ - 1]
    OBVIOUS
  <1>1. \A p : Handlers(p)' = Handlers(p)
    BY DEF Handlers
  <1>2. Streams(o)' = Streams(o) \ {c} /\ c \in Streams(o)
    BY <1>0 DEF Streams
  <1>3. \A p : p # o => Streams(p)' = Streams(p)
    BY <1>0 DEF Streams
  <1>4. Cardinality(Streams(o)') = Cardinality(Streams(o)) - 1 /\ Cardinality(Streams(o)) > 0
    BY <1>2, Counting DEF Streams
  <1>5. \A p \in live : /\ Cardinality(Handlers(p)) \in Nat /\ Cardinality(Streams(p)) \in Nat
                        /\ refs[p] = (IF self[p] THEN 1 ELSE 0) + leaked[p]
                                     + Cardinality(Handlers(p)) + Cardinality(Streams(p))
                        /\ leaked[p] \in Nat /\ p \in Objects /\ refs[p] \in Nat
    BY Referenced DEF RefsExact, Handlers, Streams, TypeOK
  <1>6. refs'[o] = refs[o] - 1 /\ \A p \in live : p # o => refs'[p] = refs[p]
    BY <1>0, <1>5 DEF TypeOK
  <1>7. ASSUME NEW p \in live
        PROVE  refs'[p] = (IF self[p] THEN 1 ELSE 0) + leaked[p]
                          + Cardinality(Handlers(p)') + Cardinality(Streams(p)')
    <2>1. Cardinality(Handlers(p)') = Cardinality(Handlers(p))
      BY <1>1
    <2>2. CASE p = o
      <3>1. Cardinality(Streams(p)') = Cardinality(Streams(p)) - 1 /\ refs'[p] = refs[p] - 1
        BY <2>2, <1>4, <1>6
      <3>2. /\ Cardinality(Handlers(p)) \in Nat /\ Cardinality(Streams(p)) \in Nat
            /\ refs[p] = (IF self[p] THEN 1 ELSE 0) + leaked[p]
                         + Cardinality(Handlers(p)) + Cardinality(Streams(p))
            /\ leaked[p] \in Nat
        BY <1>5
      <3> QED
        BY <2>1, <3>1, <3>2
    <2>3. CASE p # o
      <3>1. Cardinality(Streams(p)') = Cardinality(Streams(p)) /\ refs'[p] = refs[p]
        BY <2>3, <1>3, <1>6
      <3> QED
        BY <1>5, <2>1, <3>1
    <2> QED
      BY <2>2, <2>3
  <1>8. refs[o] > 0
    BY <1>4, <1>5
  <1>9. refs' \in [Objects -> Nat]
    BY <1>0, <1>8 DEF TypeOK
  <1> QED
    BY <1>7, <1>9 DEF RefsExact, Handlers, Streams

(* ... and makes the handler's reference the stream's. *)
LEMMA RefMoved ==
  ASSUME TypeOK, RefsExact, NEW c \in Clients, ~Attached(c), src[c] \in live,
         Handling(c), ~Handling(c)', stream'[c] = src[c], Attached(c)',
         UNCHANGED <<live, self, leaked, refs>>,
         \A d \in Clients \ {c} : /\ Handling(d)' <=> Handling(d)
                                  /\ src'[d] = src[d] /\ stream'[d] = stream[d]
                                  /\ Attached(d)' <=> Attached(d)
  PROVE  RefsExact'
  <1>0. PICK o \in live : o = src[c]
    OBVIOUS
  <1>1. /\ Handlers(o)' = Handlers(o) \ {c} /\ c \in Handlers(o)
        /\ \A p : p # o => Handlers(p)' = Handlers(p)
    BY <1>0 DEF Handlers
  <1>2. /\ Streams(o)' = Streams(o) \cup {c} /\ c \notin Streams(o)
        /\ \A p : p # o => Streams(p)' = Streams(p)
    BY <1>0 DEF Streams
  <1>3. Cardinality(Handlers(o)') = Cardinality(Handlers(o)) - 1
    BY <1>1, Counting DEF Handlers
  <1>4. Cardinality(Streams(o)') = Cardinality(Streams(o)) + 1
    BY <1>2, Counting DEF Streams
  <1>5. \A p \in live : /\ Cardinality(Handlers(p)) \in Nat /\ Cardinality(Streams(p)) \in Nat
                        /\ refs[p] = (IF self[p] THEN 1 ELSE 0) + leaked[p]
                                     + Cardinality(Handlers(p)) + Cardinality(Streams(p))
                        /\ leaked[p] \in Nat
    BY Referenced DEF RefsExact, Handlers, Streams, TypeOK
  <1>6. ASSUME NEW p \in live
        PROVE  refs[p] = (IF self[p] THEN 1 ELSE 0) + leaked[p]
                         + Cardinality(Handlers(p)') + Cardinality(Streams(p)')
    <2>1. CASE p = o
      BY <1>3, <1>4, <1>5, <2>1
    <2>2. CASE p # o
      BY <1>1, <1>2, <1>5, <2>2
    <2> QED
      BY <2>1, <2>2
  <1> QED
    BY <1>6 DEF RefsExact, Handlers, Streams

-----------------------------------------------------------------------------
(* Each step preserves the invariant. *)

(* The server starts without sources. *)
LEMMA InitIInv == Init => IInv
  <1> SUFFICES ASSUME Init PROVE IInv
    OBVIOUS
  <1>1. TypeOK
    BY DEF Init, TypeOK, Places
  <1>2. RefsExact
    BY DEF Init, RefsExact, Attached
  <1>3. Lifetime
    BY DEF Init, Lifetime, ObjectsNamed, ClientOK, MineOpen, OwnedTracked, PlaceOK,
           OpeningKnown, ClosingKnown, StreamOK, Attached, Alone, Usable, Handling
  <1> QED
    BY <1>1, <1>2, <1>3 DEF IInv

shared == <<dict, live, name, closed, typed, owner, self>>

(* The step of c leaves what other clients' threads keep for themselves alone. *)
OthersKept(c) == \A d \in Clients \ {c} :
  /\ pc'[d] = pc[d] /\ src'[d] = src[d] /\ arg'[d] = arg[d] /\ mine'[d] = mine[d]
  /\ stream'[d] = stream[d] /\ ending'[d] = ending[d] /\ todo'[d] = todo[d]

(* What such a step makes of the other threads. *)
LEMMA OthersSame ==
  ASSUME NEW c \in Clients, OthersKept(c)
  PROVE  \A d \in Clients \ {c} : /\ Handling(d)' <=> Handling(d)
                                  /\ Usable(d)' = Usable(d)
                                  /\ Attached(d)' <=> Attached(d)
  BY DEF OthersKept, Handling, Usable, Attached

(* Outside SVRD_Stream_attachSource the streams keep their references. *)
LEMMA StreamsSame ==
  ASSUME NEW c \in Clients, OthersKept(c), UNCHANGED stream,
         pc[c] # "assign", pc'[c] # "assign"
  PROVE  StreamsKept
  BY OthersSame DEF StreamsKept, Attached

(* A stream that was left alone is still attached to a source that lives. *)
LEMMA StreamStays ==
  ASSUME NEW c \in Clients, StreamOK(c), stream'[c] = stream[c], live \subseteq live',
         pc[c] # "assign"
  PROVE  StreamOK(c)'
  BY DEF StreamOK, Attached

(* A step of one client's thread that leaves the sources alone, but for their
   reference counts, only has to keep what that thread knows. *)
LEMMA LocalStep ==
  ASSUME Lifetime, NEW c \in Clients, UNCHANGED shared, OthersKept(c), ClientOK(c)',
         pc'[c] \notin {"type", "remove", "release"}
  PROVE  Lifetime'
  <1>1. ObjectsNamed'
    BY DEF Lifetime, ObjectsNamed, shared
  <1>2. ASSUME NEW d \in Clients \ {c} PROVE ClientOK(d)'
    <2>1. Handling(d)' <=> Handling(d)
      BY OthersSame
    <2>2. Usable(d)' = Usable(d)
      BY OthersSame
    <2>3. /\ pc'[d] = pc[d] /\ src'[d] = src[d] /\ arg'[d] = arg[d] /\ mine'[d] = mine[d]
          /\ stream'[d] = stream[d] /\ ending'[d] = ending[d] /\ todo'[d] = todo[d]
      BY DEF OthersKept
    <2>4. ClientOK(d)
      BY DEF Lifetime
    <2>5. MineOpen(d)'
      BY <2>2, <2>3, <2>4 DEF shared, ClientOK, MineOpen
    <2>6. OwnedTracked(d)'
      BY <2>2, <2>3, <2>4 DEF shared, ClientOK, OwnedTracked
    <2>7. PlaceOK(d)' /\ OpeningKnown(d)'
      BY <2>3, <2>4 DEF shared, ClientOK, PlaceOK, OpeningKnown
    <2>8. ClosingKnown(d)'
      BY <2>1, <2>2, <2>3, <2>4 DEF shared, ClientOK, ClosingKnown
    <2>9. StreamOK(d)'
      BY <2>3, <2>4 DEF shared, ClientOK, StreamOK, Attached
    <2> QED
      BY <2>5, <2>6, <2>7, <2>8, <2>9 DEF ClientOK
  <1>3. (Alone({"type"}) /\ Alone({"remove", "release"}))'
    BY DEF Lifetime, Alone, OthersKept
  <1> QED
    BY <1>1, <1>2, <1>3 DEF Lifetime

(* The same for the whole invariant, when the reference counts stay too. *)
LEMMA QuietStep ==
  ASSUME IInv, TypeOK', NEW c \in Clients, UNCHANGED shared, OthersKept(c), ClientOK(c)',
         UNCHANGED <<refs, leaked, stream>>,
         Handling(c)' <=> Handling(c), Handling(c) => src'[c] = src[c],
         pc[c] # "assign", pc'[c] \notin {"type", "remove", "release", "assign"}
  PROVE  IInv'
  <1>1. RefsExact'
    BY RefsKept, StreamsSame, OthersSame DEF IInv, shared, OthersKept
  <1>2. Lifetime'
    BY LocalStep DEF IInv
  <1> QED
    BY <1>1, <1>2 DEF IInv

(* A thread that is back from a handler which neither opened nor closed a source. *)
LEMMA BackIdle ==
  ASSUME NEW c \in Clients, ClientOK(c), ~ending[c], UNCHANGED shared,
         UNCHANGED <<mine, ending, todo>>,
         pc[c] \notin {"provide", "mark", "remove"}, pc'[c] = "idle",
         StreamOK(c)'
  PROVE  ClientOK(c)' /\ ~Handling(c)'
  <1>1. ~Handling(c)'
    BY DEF Handling
  <1>2. Usable(c)' = Usable(c)
    BY DEF Usable
  <1>3. MineOpen(c)'
    BY <1>2 DEF shared, ClientOK, MineOpen
  <1>4. OwnedTracked(c)'
    BY <1>2 DEF shared, ClientOK, OwnedTracked
  <1>5. PlaceOK(c)' /\ OpeningKnown(c)'
    BY DEF ClientOK, PlaceOK, OpeningKnown
  <1>6. ClosingKnown(c)'
    BY <1>1 DEF ClosingKnown
  <1> QED
    BY <1>1, <1>3, <1>4, <1>5, <1>6 DEF ClientOK

(* SVRD_Source_rOpen looks whether the name is free, without a lock. *)
LEMMA ROpenIInv ==
  ASSUME IInv, NEW c \in Clients, NEW n \in Names,
         NEW place \in {"newClient", "newServer"}, ROpen(c, n, place)
  PROVE  IInv'
  <1>1. /\ UNCHANGED shared
        /\ UNCHANGED <<refs, leaked, mine, stream, ending, todo, fault>>
    BY DEF ROpen, objects, shared
  <1>2. pc \in [Clients -> Places] /\ arg \in [Clients -> Names \cup {NULL}]
        /\ src \in [Clients -> Objects \cup {NULL}]
    BY DEF IInv, TypeOK
  <1>3. TypeOK'
    <2>1. place \in Places /\ "idle" \in Places
      BY DEF Places
    <2>2. /\ pc' \in [Clients -> Places] /\ arg' \in [Clients -> Names \cup {NULL}]
          /\ src' \in [Clients -> Objects \cup {NULL}]
      BY <1>2, <2>1 DEF ROpen, Goto, Reply
    <2> QED
      BY <1>1, <2>2 DEF IInv, TypeOK, shared
  <1>4. OthersKept(c)
    BY <1>1, <1>2 DEF ROpen, Goto, Reply, OthersKept
  <1>5. pc[c] = "idle" /\ (pc'[c] = "idle" \/ (pc'[c] = place /\ arg'[c] = n))
    BY <1>2 DEF ROpen, At, Goto, Reply
  <1>6. ~Handling(c) /\ ~Handling(c)'
    BY <1>5 DEF Handling
  <1>7. ClientOK(c)'
    <2>1. ClientOK(c)
      BY DEF IInv, Lifetime
    <2>2. Usable(c)' = Usable(c)
      BY <1>1 DEF Usable
    <2>3. MineOpen(c)'
      BY <1>1, <2>1, <2>2 DEF shared, ClientOK, MineOpen
    <2>4. OwnedTracked(c)'
      BY <1>1, <1>5, <2>1, <2>2 DEF shared, ClientOK, OwnedTracked
    <2>5. PlaceOK(c)' /\ OpeningKnown(c)'
      BY <1>1, <1>5, <2>1 DEF shared, ClientOK, PlaceOK, OpeningKnown
    <2>6. ClosingKnown(c)'
      BY <1>5, <1>6 DEF ClosingKnown
    <2>7. StreamOK(c)'
      BY <1>1, <1>5, <2>1, StreamStays DEF ClientOK, shared
    <2> QED
      BY <2>3, <2>4, <2>5, <2>6, <2>7 DEF ClientOK
  <1> QED
    BY <1>3, <1>1, <1>4, <1>5, <1>6, <1>7, QuietStep

(* SVRD_Client_provideSource: the new source becomes one of the client's entries. *)
LEMMA ProvideSourceIInv == ASSUME IInv, NEW c \in Clients, ProvideSource(c) PROVE IInv'
  <1>0. ClientOK(c) /\ TypeOK
    BY DEF IInv, Lifetime
  <1>1. pc[c] = "provide" /\ ~ending[c] /\ src[c] \in live /\ src[c] \in Objects /\ arg[c] \in Names
        /\ todo[c] = {} /\ src[c] # NULL
    BY <1>0, RegistryAssumption DEF ProvideSource, At, ClientOK, PlaceOK, OpeningKnown, TypeOK
  <1>2. TypeOK'
    BY <1>0, <1>1 DEF TypeOK, Places, ProvideSource, Goto, Reply, objects
  <1>3. UNCHANGED shared /\ UNCHANGED <<refs, leaked, stream, ending, todo>>
    BY DEF ProvideSource, objects, shared
  <1>4. OthersKept(c)
    BY <1>0, <1>3 DEF TypeOK, ProvideSource, Goto, Reply, OthersKept
  <1>5. /\ pc'[c] = "idle"
        /\ \A n \in Names : mine'[c][n] = IF n = arg[c] THEN src[c] ELSE mine[c][n]
    BY <1>0, <1>1 DEF TypeOK, ProvideSource, Goto, Reply
  <1>6. ~Handling(c) /\ ~Handling(c)'
    BY <1>1, <1>5 DEF Handling
  <1>7. Usable(c)' = Usable(c) \cup {arg[c]}
    BY <1>1, <1>3, <1>5 DEF Usable
  <1>8. ClientOK(c)'
    <2>1. MineOpen(c)'
      BY <1>0, <1>1, <1>3, <1>5, <1>7 DEF shared, ClientOK, MineOpen, OpeningKnown, Usable
    <2>2. OwnedTracked(c)'
      <3>1. \A n \in Names : dict[n] = src[c] => n = arg[c]
        BY <1>0, <1>1 DEF IInv, Lifetime, ObjectsNamed, ClientOK, OpeningKnown
      <3>2. \A n \in Usable(c) : n # arg[c] => mine'[c][n] = mine[c][n]
        BY <1>5 DEF Usable
      <3>3. dict[arg[c]] = src[c] /\ mine'[c][arg[c]] = src[c]
        BY <1>0, <1>1, <1>5 DEF ClientOK, OpeningKnown
      <3> QED
        BY <1>0, <1>1, <1>3, <1>7, <3>1, <3>2, <3>3 DEF shared, ClientOK, OwnedTracked
    <2>3. PlaceOK(c)' /\ OpeningKnown(c)'
      BY <1>1, <1>3, <1>5 DEF PlaceOK, OpeningKnown
    <2>4. ClosingKnown(c)'
      BY <1>5, <1>6 DEF ClosingKnown
    <2>5. StreamOK(c)'
      BY <1>0, <1>1, <1>3, StreamStays DEF ClientOK, shared
    <2> QED
      BY <2>1, <2>2, <2>3, <2>4, <2>5 DEF ClientOK
  <1> QED
    BY <1>1, <1>2, <1>3, <1>4, <1>5, <1>6, <1>8, QuietStep

(* A source type that cannot open its source answers with an error. *)
LEMMA OpenFailsIInv == ASSUME IInv, NEW c \in Clients, OpenFails(c) PROVE IInv'
  <1>0. ClientOK(c) /\ TypeOK
    BY DEF IInv, Lifetime
  <1>1. pc[c] = "newServer" /\ ~ending[c]
    BY <1>0 DEF OpenFails, At, ClientOK, PlaceOK
  <1>2. TypeOK'
    BY <1>0 DEF TypeOK, Places, OpenFails, Goto, Reply, objects
  <1>3. UNCHANGED shared /\ UNCHANGED <<refs, leaked, mine, stream, ending, todo>>
    BY DEF OpenFails, objects, shared
  <1>4. OthersKept(c) /\ pc'[c] = "idle"
    BY <1>0, <1>3 DEF TypeOK, OpenFails, Goto, Reply, OthersKept
  <1>5. ~Handling(c) 
    BY <1>1 DEF Handling
  <1>6. ClientOK(c)' /\ ~Handling(c)'
    BY <1>0, <1>1, <1>3, <1>4, StreamStays, BackIdle DEF ClientOK, shared
  <1> QED
    BY <1>1, <1>2, <1>3, <1>4, <1>5, <1>6, QuietStep

(* SVRD_Source_getByName: the handler gets a reference to the source of that name. *)
LEMMA LookupIInv ==
  ASSUME IInv, NEW c \in Clients, NEW n \in Names, NEW place \in {"check", "attach", "listed"},
         At(c, "idle"), GetByName(c, n, place),
         UNCHANGED <<dict, live, name, closed, typed, owner, self, leaked, mine, stream,
                     ending, todo, fault>>
  PROVE  IInv'
  <1>0. ClientOK(c) /\ TypeOK /\ RefsExact
    BY DEF IInv, Lifetime
  <1>1. pc[c] = "idle" /\ ~ending[c] /\ ~Handling(c)
    BY <1>0 DEF At, ClientOK, PlaceOK, Handling
  <1>2. UNCHANGED shared
    BY DEF shared
  <1>3. CASE dict[n] = NULL
    <2>1. Reply(c) /\ UNCHANGED refs
      BY <1>3 DEF GetByName
    <2>2. TypeOK'
      BY <1>0, <2>1 DEF TypeOK, Places, Goto, Reply
    <2>3. OthersKept(c) /\ pc'[c] = "idle"
      BY <1>0, <2>1 DEF TypeOK, Goto, Reply, OthersKept
    <2>4. ClientOK(c)' /\ ~Handling(c)'
      BY <1>0, <1>1, <1>2, <2>3, StreamStays, BackIdle DEF ClientOK, shared
    <2> QED
      BY <1>1, <1>2, <2>1, <2>2, <2>3, <2>4, QuietStep
  <1>4. CASE dict[n] # NULL
    <2>0. PICK o \in live : o = dict[n] /\ name[o] = n /\ self[o] /\ o \in Objects
      BY <1>0, <1>4 DEF IInv, Lifetime, ObjectsNamed, TypeOK
    <2>1. /\ refs' = [refs EXCEPT ![o] = @ + 1]
          /\ src' = [src EXCEPT ![c] = o]
          /\ arg' = [arg EXCEPT ![c] = n]
          /\ pc' = [pc EXCEPT ![c] = place]
      BY <1>4, <2>0 DEF GetByName, Ref, Goto
    <2>2. TypeOK'
      <3>1. place \in Places
        BY DEF Places
      <3>2. refs' \in [Objects -> Nat]
        BY <1>0, <2>0, <2>1 DEF TypeOK
      <3> QED
        BY <1>0, <2>0, <2>1, <3>1, <3>2 DEF TypeOK
    <2>3. OthersKept(c) /\ pc'[c] = place /\ src'[c] = o /\ arg'[c] = n
      BY <1>0, <2>1 DEF TypeOK, OthersKept
    <2>4. Handling(c)'
      BY <2>3 DEF Handling
    <2>5. RefsExact'
      <3>1. \A d \in Clients \ {c} : (Handling(d)' <=> Handling(d)) /\ src'[d] = src[d]
        BY <2>3, OthersSame DEF OthersKept
      <3> QED
        BY <1>0, <1>1, <2>1, <2>3, <2>4, <3>1, StreamsSame, RefTaken
    <2>6. Usable(c)' = Usable(c)
      BY DEF Usable
    <2>7. MineOpen(c)' /\ OwnedTracked(c)'
      BY <1>0, <1>1, <1>2, <2>6 DEF shared, ClientOK, MineOpen, OwnedTracked
    <2>8. PlaceOK(c)' /\ OpeningKnown(c)'
      BY <1>0, <1>1, <2>3 DEF ClientOK, PlaceOK, OpeningKnown
    <2>9. ClosingKnown(c)'
      <3>1. mine[c][n] # NULL => mine[c][n] = o
        BY <1>0, <1>1, <2>0 DEF ClientOK, MineOpen, Usable
      <3> QED
        BY <2>0, <2>3, <3>1 DEF ClosingKnown
    <2>10. ClientOK(c)'
      BY <1>0, <1>1, <2>7, <2>8, <2>9, StreamStays DEF ClientOK
    <2> QED
      BY <1>0, <1>2, <2>2, <2>3, <2>5, <2>10, LocalStep DEF IInv
  <1> QED
    BY <1>3, <1>4

(* The end of a handler: SVR_UNREF(source), then the reply. *)
LEMMA GiveBackIInv ==
  ASSUME IInv, NEW c \in Clients, pc[c] \in {"check", "attach", "listed", "unref"}, ~ending[c],
         Unref(src[c]), Reply(c),
         UNCHANGED <<dict, live, name, closed, typed, owner, self, leaked, mine, stream,
                     ending, todo, fault>>
  PROVE  IInv'
  <1>0. ClientOK(c) /\ TypeOK /\ RefsExact
    BY DEF IInv, Lifetime
  <1>1. Handling(c) /\ src[c] \in live
    BY <1>0 DEF Handling, ClientOK, ClosingKnown
  <1>2. UNCHANGED shared
    BY DEF shared
  <1>3. OthersKept(c) /\ pc'[c] = "idle"
    BY <1>0 DEF TypeOK, Goto, Reply, OthersKept
  <1>4. ClientOK(c)' /\ ~Handling(c)'
    BY <1>0, <1>2, <1>3, StreamStays, BackIdle DEF ClientOK, shared
  <1>5. RefsExact' /\ refs' \in [Objects -> Nat]
    BY <1>0, <1>1, <1>3, <1>4, StreamsSame, RefGiven, OthersSame DEF OthersKept, Unref
  <1>6. TypeOK'
    BY <1>0, <1>5 DEF TypeOK, Places, Goto, Reply
  <1> QED
    BY <1>2, <1>3, <1>4, <1>5, <1>6, LocalStep DEF IInv

(* rClose accepts: the client's entry for a client source is removed first. *)
LEMMA CloseAcceptedIInv == ASSUME IInv, NEW c \in Clients, CloseAccepted(c) PROVE IInv'
  <1>0. ClientOK(c) /\ TypeOK /\ ObjectsNamed
    BY DEF IInv, Lifetime
  <1>1. /\ pc[c] = "check" /\ ~ending[c] /\ todo[c] = {}
        /\ Handling(c) /\ src[c] \in live /\ src[c] \in Objects /\ src[c] # NULL
        /\ arg[c] \in Names /\ name[src[c]] = arg[c]
    BY <1>0, RegistryAssumption
    DEF CloseAccepted, At, ClientOK, PlaceOK, ClosingKnown, Handling, TypeOK
  <1>2. TypeOK'
    BY <1>0, <1>1 DEF TypeOK, Places, CloseAccepted, Goto, objects
  <1>3. UNCHANGED shared /\ UNCHANGED <<refs, leaked, stream, src, arg, ending, todo>>
    BY DEF CloseAccepted, objects, shared
  <1>4. OthersKept(c) /\ pc'[c] = "mark"
    BY <1>0, <1>1, <1>3 DEF TypeOK, CloseAccepted, Goto, OthersKept
  <1>5. Handling(c)'
    BY <1>1, <1>3, <1>4 DEF Handling
  <1>6. Usable(c) = {n \in Names : mine[c][n] # NULL}
    BY <1>1 DEF Usable
  <1>7. CASE typed[src[c]]
    <2>1. UNCHANGED mine
      BY <1>7 DEF CloseAccepted
    <2>2. owner[src[c]] = Server /\ Server # c
      BY <1>0, <1>1, <1>7, RegistryAssumption DEF ObjectsNamed
    <2>3. Usable(c)' = Usable(c)
      BY <1>3, <2>1 DEF Usable
    <2>4. MineOpen(c)' /\ OwnedTracked(c)'
      BY <1>0, <1>1, <1>3, <2>1, <2>3 DEF shared, ClientOK, MineOpen, OwnedTracked
    <2>5. PlaceOK(c)' /\ OpeningKnown(c)'
      BY <1>1, <1>3, <1>4 DEF PlaceOK, OpeningKnown
    <2>6. ClosingKnown(c)'
      BY <1>0, <1>1, <1>3, <1>4, <1>7, <2>1, <2>2, <2>3 DEF shared, ClosingKnown, ClientOK, MineOpen
    <2>7. ClientOK(c)'
      <3>1. StreamOK(c)'
        BY <1>0, <1>1, <1>3, StreamStays DEF ClientOK, shared
      <3> QED
        BY <2>4, <2>5, <2>6, <3>1 DEF ClientOK
    <2> QED
      BY <1>1, <1>2, <1>3, <1>4, <1>5, <2>7, QuietStep
  <1>8. CASE ~typed[src[c]]
    <2>1. mine' = [mine EXCEPT ![c][arg[c]] = NULL] /\ mine[c][arg[c]] # NULL
      BY <1>8 DEF CloseAccepted
    <2>2. mine[c][arg[c]] = src[c] /\ arg[c] \in Usable(c)
      BY <1>0, <1>1, <1>6, <2>1 DEF ClientOK, ClosingKnown
    <2>3. dict[arg[c]] = src[c] /\ owner[src[c]] = c /\ ~closed[src[c]]
      BY <1>0, <2>2 DEF ClientOK, MineOpen
    <2>4. \A n \in Names : mine'[c][n] = IF n = arg[c] THEN NULL ELSE mine[c][n]
      BY <1>0, <1>1, <2>1 DEF TypeOK
    <2>5. Usable(c)' = Usable(c) \ {arg[c]}
      BY <1>1, <1>3, <2>4 DEF Usable
    <2>6. \A n \in Usable(c)' : mine'[c][n] = mine[c][n] /\ n \in Usable(c) /\ n # arg[c]
      BY <2>4, <2>5 DEF Usable
    <2>7. MineOpen(c)'
      BY <1>0, <1>1, <1>3, <2>6 DEF shared, ClientOK, MineOpen
    <2>8. OwnedTracked(c)'
      BY <1>0, <1>1, <1>3, <1>4, <2>3, <2>5, <2>6 DEF shared, ClientOK, OwnedTracked
    <2>9. PlaceOK(c)' /\ OpeningKnown(c)'
      BY <1>1, <1>3, <1>4 DEF PlaceOK, OpeningKnown
    <2>10. \A n \in Usable(c)' : mine'[c][n] # src[c]
      <3>1. \A n \in Usable(c) : mine[c][n] = src[c] => name[src[c]] = n
        BY <1>0, <1>1 DEF ClientOK, MineOpen, ObjectsNamed, Usable
      <3> QED
        BY <1>1, <2>6, <3>1
    <2>11. ClosingKnown(c)'
      BY <1>1, <1>3, <1>4, <2>3, <2>10 DEF shared, ClosingKnown
    <2>12. ClientOK(c)'
      <3>1. StreamOK(c)'
        BY <1>0, <1>1, <1>3, StreamStays DEF ClientOK, shared
      <3> QED
        BY <2>7, <2>8, <2>9, <2>11, <3>1 DEF ClientOK
    <2> QED
      BY <1>1, <1>2, <1>3, <1>4, <1>5, <2>12, QuietStep
  <1> QED
    BY <1>7, <1>8

(* Back from SVRD_Source_destroy, in rClose or in markForClosing. *)
LEMMA CloseDoneIInv == ASSUME IInv, NEW c \in Clients, CloseDone(c) PROVE IInv'
  <1>0. ClientOK(c) /\ TypeOK
    BY DEF IInv, Lifetime
  <1>1. pc[c] = "unref"
    BY DEF CloseDone, At
  <1>2. CASE ~ending[c]
    BY <1>1, <1>2, GiveBackIInv DEF CloseDone
  <1>3. CASE ending[c]
    <2>1. /\ src' = [src EXCEPT ![c] = NULL] /\ pc' = [pc EXCEPT ![c] = "ending"]
          /\ UNCHANGED shared /\ UNCHANGED <<refs, leaked, mine, stream, arg, ending, todo, fault>>
      BY <1>3 DEF CloseDone, Goto, shared
    <2>2. TypeOK'
      BY <1>0, <2>1 DEF TypeOK, Places, shared
    <2>3. OthersKept(c) /\ pc'[c] = "ending"
      BY <1>0, <2>1 DEF TypeOK, OthersKept
    <2>4. ~Handling(c) /\ ~Handling(c)'
      BY <1>1, <1>3, <2>1, <2>3 DEF Handling
    <2>5. Usable(c)' = Usable(c)
      BY <2>1 DEF Usable
    <2>6. MineOpen(c)' /\ OwnedTracked(c)'
      BY <1>0, <1>1, <2>1, <2>5 DEF shared, ClientOK, MineOpen, OwnedTracked
    <2>7. PlaceOK(c)' /\ OpeningKnown(c)' /\ ClosingKnown(c)'
      BY <1>0, <1>3, <2>1, <2>3, <2>4 DEF ClientOK, PlaceOK, OpeningKnown, ClosingKnown
    <2>8. ClientOK(c)'
      <3>1. StreamOK(c)'
        BY <1>0, <1>1, <2>1, StreamStays DEF ClientOK, shared
      <3> QED
        BY <2>6, <2>7, <3>1 DEF ClientOK
    <2> QED
      BY <1>1, <2>1, <2>2, <2>3, <2>4, <2>8, QuietStep
  <1> QED
    BY <1>2, <1>3

(* SVRD_Client_markForClosing closes one more of the client's sources: it is still the
   client's, open and in the dictionary. *)
LEMMA EndSourceIInv ==
  ASSUME IInv, NEW c \in Clients, NEW n \in Names, EndSource(c, n)
  PROVE  IInv'
  <1>0. ClientOK(c) /\ TypeOK /\ ObjectsNamed
    BY DEF IInv, Lifetime
  <1>1. pc[c] = "ending" /\ ending[c] /\ n \in todo[c] /\ n \in Usable(c)
    BY <1>0 DEF EndSource, At, ClientOK, PlaceOK, MineOpen, Usable
  <1>2. /\ mine[c][n] \in live /\ mine[c][n] = dict[n] /\ owner[mine[c][n]] = c
        /\ ~closed[mine[c][n]] /\ mine[c][n] \in Objects /\ mine[c][n] # NULL
        /\ name[mine[c][n]] = n
    BY <1>0, <1>1, RegistryAssumption DEF ClientOK, MineOpen, Usable, TypeOK, ObjectsNamed
  <1>3. /\ src' = [src EXCEPT ![c] = mine[c][n]] /\ pc' = [pc EXCEPT ![c] = "mark"]
        /\ todo' = [todo EXCEPT ![c] = @ \ {n}]
        /\ UNCHANGED shared /\ UNCHANGED <<refs, leaked, mine, stream, arg, ending, fault>>
    BY DEF EndSource, Goto, shared, objects
  <1>4. TypeOK'
    BY <1>0, <1>2, <1>3 DEF TypeOK, Places, shared
  <1>5. OthersKept(c) /\ pc'[c] = "mark" /\ src'[c] = mine[c][n] /\ todo'[c] = todo[c] \ {n}
    BY <1>0, <1>3 DEF TypeOK, OthersKept
  <1>6. ~Handling(c) /\ ~Handling(c)'
    BY <1>1, <1>3, <1>5 DEF Handling
  <1>7. Usable(c)' = Usable(c) \ {n}
    BY <1>1, <1>3, <1>5 DEF Usable
  <1>8. MineOpen(c)'
    BY <1>0, <1>3, <1>5, <1>7 DEF shared, ClientOK, MineOpen
  <1>9. OwnedTracked(c)'
    BY <1>0, <1>1, <1>2, <1>3, <1>5, <1>7 DEF shared, ClientOK, OwnedTracked
  <1>10. PlaceOK(c)' /\ OpeningKnown(c)'
    BY <1>1, <1>3, <1>5 DEF PlaceOK, OpeningKnown
  <1>11. ClosingKnown(c)'
    <2>1. \A m \in Usable(c)' : mine'[c][m] # src'[c]
      <3>1. \A m \in Usable(c) : name[mine[c][m]] = m
        BY <1>0 DEF ClientOK, MineOpen, ObjectsNamed, Usable
      <3> QED
        BY <1>2, <1>3, <1>5, <1>7, <3>1
    <2> QED
      BY <1>2, <1>3, <1>5, <1>6, <2>1 DEF ClosingKnown, shared
  <1>12. ClientOK(c)'
    <2>1. StreamOK(c)'
      BY <1>0, <1>1, <1>3, StreamStays DEF ClientOK, shared
    <2> QED
      BY <1>8, <1>9, <1>10, <1>11, <2>1 DEF ClientOK
  <1> QED
    BY <1>1, <1>3, <1>4, <1>5, <1>6, <1>12, QuietStep

(* The last of them is closed. *)
LEMMA GoneIInv == ASSUME IInv, NEW c \in Clients, Gone(c) PROVE IInv'
  <1>0. ClientOK(c) /\ TypeOK
    BY DEF IInv, Lifetime
  <1>1. /\ pc[c] = "ending" /\ todo[c] = {} /\ pc' = [pc EXCEPT ![c] = "gone"]
        /\ UNCHANGED shared /\ UNCHANGED <<refs, leaked, mine, stream, src, arg, ending, todo, fault>>
    BY DEF Gone, At, Goto, shared, objects
  <1>2. TypeOK'
    BY <1>0, <1>1 DEF TypeOK, Places, shared
  <1>3. OthersKept(c) /\ pc'[c] = "gone"
    BY <1>0, <1>1 DEF TypeOK, OthersKept
  <1>4. ~Handling(c) /\ ~Handling(c)'
    BY <1>1, <1>3 DEF Handling
  <1>5. Usable(c)' = Usable(c)
    BY <1>1 DEF Usable
  <1>6. MineOpen(c)' /\ OwnedTracked(c)'
    BY <1>0, <1>1, <1>5 DEF shared, ClientOK, MineOpen, OwnedTracked
  <1>7. PlaceOK(c)' /\ OpeningKnown(c)' /\ ClosingKnown(c)'
    BY <1>0, <1>1, <1>3, <1>4 DEF ClientOK, PlaceOK, OpeningKnown, ClosingKnown
  <1>8. ClientOK(c)'
    BY <1>0, <1>1, <1>6, <1>7, StreamStays DEF ClientOK, shared
  <1> QED
    BY <1>1, <1>2, <1>3, <1>4, <1>8, QuietStep

(* SVRD_Client_markForClosing: the streams go first. *)
LEMMA MarkForClosingIInv == ASSUME IInv, NEW c \in Clients, MarkForClosing(c) PROVE IInv'
  <1>0. ClientOK(c) /\ TypeOK /\ RefsExact
    BY DEF IInv, Lifetime
  <1>1. /\ pc[c] = "idle" /\ pc' = [pc EXCEPT ![c] = "ending"] /\ Detached(c)
        /\ ending' = [ending EXCEPT ![c] = TRUE]
        /\ todo' = [todo EXCEPT ![c] = {n \in Names : mine[c][n] # NULL}]
        /\ UNCHANGED shared /\ UNCHANGED <<refs, mine, src, arg, fault>>
    BY DEF MarkForClosing, At, Goto, shared
  <1>2. stream' = [stream EXCEPT ![c] = NULL]
    BY <1>1 DEF Detached
  <1>3. /\ OthersKept(c) /\ pc'[c] = "ending" /\ ending'[c]
        /\ todo'[c] = {n \in Names : mine[c][n] # NULL}
        /\ stream'[c] = NULL
    BY <1>0, <1>1, <1>2 DEF TypeOK, OthersKept
  <1>4. ~Handling(c) /\ ~Handling(c)' /\ ~ending[c]
    BY <1>0, <1>1, <1>3 DEF Handling, ClientOK, PlaceOK
  <1>5. RefsExact' /\ leaked' \in [Objects -> Nat]
    <2>1. \A d \in Clients : (Handling(d)' <=> Handling(d)) /\ (Handling(d) => src'[d] = src[d])
      BY <1>3, <1>4, OthersSame DEF OthersKept
    <2> QED
      BY <1>0, <1>1, <1>3, <2>1, RefLost DEF ClientOK, shared, OthersKept
  <1>6. TypeOK'
    BY <1>0, <1>1, <1>2, <1>5 DEF TypeOK, Places, shared
  <1>7. Usable(c)' = Usable(c)
    BY <1>1, <1>3, <1>4 DEF Usable
  <1>8. MineOpen(c)' /\ OwnedTracked(c)'
    BY <1>0, <1>1, <1>3, <1>7 DEF shared, ClientOK, MineOpen, OwnedTracked
  <1>9. PlaceOK(c)' /\ OpeningKnown(c)' /\ ClosingKnown(c)'
    BY <1>3, <1>4 DEF PlaceOK, OpeningKnown, ClosingKnown
  <1>10. ClientOK(c)'
    BY <1>3, <1>8, <1>9 DEF ClientOK, StreamOK, Attached
  <1> QED
    BY <1>1, <1>3, <1>5, <1>6, <1>10, LocalStep DEF IInv

(* A stream is orphaned while its client's thread may be anywhere. *)
LEMMA OrphanIInv == ASSUME IInv, NEW c \in Clients, Orphan(c) PROVE IInv'
  <1>0. ClientOK(c) /\ TypeOK /\ RefsExact /\ Lifetime
    BY DEF IInv, Lifetime
  <1>1. /\ Detached(c) /\ UNCHANGED shared
        /\ UNCHANGED <<refs, mine, pc, src, arg, ending, todo, fault>>
    BY DEF Orphan, shared
  <1>2. stream' = [stream EXCEPT ![c] = NULL]
    BY <1>1 DEF Detached
  <1>3. \A d \in Clients : /\ (Handling(d)' <=> Handling(d)) /\ Usable(d)' = Usable(d)
                           /\ stream'[d] \in {stream[d], NULL}
    BY <1>0, <1>1, <1>2 DEF Handling, Usable, TypeOK
  <1>4. RefsExact' /\ leaked' \in [Objects -> Nat]
    BY <1>0, <1>1, <1>3, RefLost DEF ClientOK, shared
  <1>5. TypeOK'
    BY <1>0, <1>1, <1>2, <1>4 DEF TypeOK, shared
  <1>6. ASSUME NEW d \in Clients PROVE ClientOK(d)'
    <2>1. ClientOK(d)
      BY <1>0 DEF Lifetime
    <2>2. MineOpen(d)' /\ OwnedTracked(d)'
      BY <1>1, <1>3, <2>1 DEF shared, ClientOK, MineOpen, OwnedTracked
    <2>3. PlaceOK(d)' /\ OpeningKnown(d)'
      BY <1>1, <2>1 DEF shared, ClientOK, PlaceOK, OpeningKnown
    <2>4. ClosingKnown(d)'
      BY <1>1, <1>3, <2>1 DEF shared, ClientOK, ClosingKnown
    <2> QED
      BY <1>1, <1>3, <2>1, <2>2, <2>3, <2>4 DEF ClientOK, StreamOK, Attached, shared
  <1>7. ObjectsNamed' /\ (Alone({"type"}) /\ Alone({"remove", "release"}))'
    BY <1>0, <1>1 DEF Lifetime, ObjectsNamed, Alone, shared
  <1> QED
    BY <1>4, <1>5, <1>6, <1>7 DEF IInv, Lifetime

(* SVRD_Stream_attachSource looks whether the stream has a source already. *)
LEMMA AttachIInv == ASSUME IInv, NEW c \in Clients, Attach(c) PROVE IInv'
  <1>0. ClientOK(c) /\ TypeOK
    BY DEF IInv, Lifetime
  <1>1. pc[c] = "attach" /\ ~ending[c]
    BY <1>0 DEF Attach, At, ClientOK, PlaceOK
  <1>2. PICK place \in {"assign", "replace"} :
          /\ pc' = [pc EXCEPT ![c] = place] /\ (place = "assign" => stream[c] = NULL)
          /\ UNCHANGED shared
          /\ UNCHANGED <<refs, leaked, mine, stream, src, arg, ending, todo, fault>>
    BY DEF Attach, Goto, shared, objects
  <1>3. TypeOK'
    BY <1>0, <1>2 DEF TypeOK, Places, shared
  <1>4. OthersKept(c) /\ pc'[c] = place
    BY <1>0, <1>2 DEF TypeOK, OthersKept
  <1>5. Handling(c) /\ Handling(c)'
    BY <1>1, <1>4 DEF Handling
  <1>6. Usable(c)' = Usable(c)
    BY <1>2 DEF Usable
  <1>7. MineOpen(c)' /\ OwnedTracked(c)'
    BY <1>0, <1>1, <1>2, <1>6 DEF shared, ClientOK, MineOpen, OwnedTracked
  <1>8. PlaceOK(c)' /\ OpeningKnown(c)'
    BY <1>0, <1>1, <1>2, <1>4 DEF ClientOK, PlaceOK, OpeningKnown
  <1>9. ClosingKnown(c)' /\ StreamOK(c)'
    BY <1>0, <1>1, <1>2, <1>4, <1>5, StreamStays DEF ClientOK, ClosingKnown, shared
  <1>10. ClientOK(c)'
    BY <1>7, <1>8, <1>9 DEF ClientOK
  <1>11. StreamsKept
    <2>1. Attached(c)' <=> Attached(c)
      BY <1>1, <1>2, <1>4 DEF Attached
    <2> QED
      BY <1>2, <1>4, <2>1, OthersSame DEF StreamsKept
  <1>12. RefsExact'
    BY <1>2, <1>4, <1>5, <1>11, OthersSame, RefsKept DEF IInv, shared
  <1>13. Lifetime'
    BY <1>2, <1>4, <1>10, LocalStep DEF IInv
  <1> QED
    BY <1>3, <1>12, <1>13 DEF IInv

(* A step after which only the process is dead. *)
LEMMA FaultIInv ==
  ASSUME IInv, UNCHANGED <<dict, objects, clients>>, fault' = TRUE
  PROVE  IInv'
  <1>1. TypeOK'
    BY DEF IInv, TypeOK, objects, clients
  <1>2. RefsExact'
    BY DEF IInv, RefsExact, Handling, Attached, objects, clients
  <1>3. Lifetime'
    BY DEF IInv, Lifetime, ObjectsNamed, ClientOK, MineOpen, OwnedTracked, PlaceOK,
           OpeningKnown, ClosingKnown, StreamOK, Attached, Alone, Usable, Handling, objects,
           clients
  <1> QED
    BY <1>1, <1>2, <1>3 DEF IInv

(* The old source loses the stream's reference; the stream still points to it. *)
LEMMA ReplaceIInv == ASSUME IInv, NEW c \in Clients, Replace(c) PROVE IInv'
  <1>0. ClientOK(c) /\ TypeOK /\ RefsExact
    BY DEF IInv, Lifetime
  <1>1. pc[c] = "replace" /\ ~ending[c]
    BY <1>0 DEF Replace, At, ClientOK, PlaceOK
  <1>2. CASE stream[c] = NULL
    <2>1. UNCHANGED <<dict, objects, clients>> /\ fault' = TRUE
      BY <1>2 DEF Replace, objects, clients
    <2> QED
      BY <2>1, FaultIInv
  <1>3. CASE stream[c] # NULL
    <2>1. /\ pc' = [pc EXCEPT ![c] = "assign"] /\ refs' = [refs EXCEPT ![stream[c]] = @ - 1]
          /\ UNCHANGED shared
          /\ UNCHANGED <<leaked, mine, stream, src, arg, ending, todo, fault>>
      BY <1>3 DEF Replace, Goto, Unref, shared
    <2>2. OthersKept(c) /\ pc'[c] = "assign"
      BY <1>0, <2>1 DEF TypeOK, OthersKept
    <2>3. Attached(c) /\ stream[c] \in live /\ ~Attached(c)'
      BY <1>0, <1>1, <1>3, <2>2 DEF ClientOK, StreamOK, Attached
    <2>4. Handling(c) /\ Handling(c)'
      BY <1>1, <2>2 DEF Handling
    <2>5. RefsExact' /\ refs' \in [Objects -> Nat]
      <3>1. \A d \in Clients : (Handling(d)' <=> Handling(d)) /\ src'[d] = src[d]
        BY <2>1, <2>2, <2>4, OthersSame
      <3>2. \A d \in Clients \ {c} : Attached(d)' <=> Attached(d)
        BY <2>2, OthersSame
      <3>3. UNCHANGED <<live, self, leaked, stream>>
        BY <2>1 DEF shared
      <3> QED
        BY <1>0, <2>1, <2>3, <3>1, <3>2, <3>3, RefDropped
    <2>6. TypeOK'
      BY <1>0, <2>1, <2>5 DEF TypeOK, Places, shared
    <2>7. Usable(c)' = Usable(c)
      BY <2>1 DEF Usable
    <2>8. MineOpen(c)' /\ OwnedTracked(c)'
      BY <1>0, <1>1, <2>1, <2>7 DEF shared, ClientOK, MineOpen, OwnedTracked
    <2>9. PlaceOK(c)' /\ OpeningKnown(c)'
      BY <1>0, <1>1, <2>1, <2>2 DEF ClientOK, PlaceOK, OpeningKnown
    <2>10. ClosingKnown(c)' /\ StreamOK(c)'
      BY <1>0, <1>1, <2>1, <2>2, <2>3, <2>4 DEF ClientOK, ClosingKnown, StreamOK, shared
    <2>11. ClientOK(c)'
      BY <2>8, <2>9, <2>10 DEF ClientOK
    <2>12. Lifetime'
      BY <2>1, <2>2, <2>11, LocalStep DEF IInv
    <2> QED
      BY <2>5, <2>6, <2>12 DEF IInv
  <1> QED
    BY <1>2, <1>3

(* The stream takes over the handler's reference to the new one. *)
LEMMA AssignIInv == ASSUME IInv, NEW c \in Clients, Assign(c) PROVE IInv'
  <1>0. ClientOK(c) /\ TypeOK /\ RefsExact
    BY DEF IInv, Lifetime
  <1>1. /\ pc[c] = "assign" /\ ~ending[c] /\ Handling(c) /\ src[c] \in live
        /\ src[c] # NULL /\ ~Attached(c)
    BY <1>0, RegistryAssumption
    DEF Assign, At, ClientOK, PlaceOK, ClosingKnown, Handling, Attached, TypeOK
  <1>2. /\ stream' = [stream EXCEPT ![c] = src[c]] /\ Reply(c)
        /\ UNCHANGED shared /\ UNCHANGED <<refs, leaked, mine, ending, todo, fault>>
    BY DEF Assign, shared, objects
  <1>3. OthersKept(c) /\ pc'[c] = "idle" /\ stream'[c] = src[c]
    BY <1>0, <1>2 DEF TypeOK, Goto, Reply, OthersKept
  <1>4. TypeOK'
    BY <1>0, <1>1, <1>2 DEF TypeOK, Places, Goto, Reply, shared
  <1>5. Attached(c)' /\ StreamOK(c)'
    BY <1>1, <1>2, <1>3 DEF Attached, StreamOK, shared
  <1>6. ClientOK(c)' /\ ~Handling(c)'
    BY <1>0, <1>1, <1>2, <1>3, <1>5, BackIdle
  <1>7. RefsExact'
    <2>1. UNCHANGED <<live, self, leaked, refs>>
      BY <1>2 DEF shared
    <2>2. \A d \in Clients \ {c} : /\ Handling(d)' <=> Handling(d)
                                   /\ src'[d] = src[d] /\ stream'[d] = stream[d]
                                   /\ Attached(d)' <=> Attached(d)
      BY <1>3, OthersSame DEF OthersKept
    <2> QED
      BY <1>0, <1>1, <1>3, <1>5, <1>6, <2>1, <2>2, RefMoved
  <1>8. Lifetime'
    BY <1>2, <1>3, <1>6, LocalStep DEF IInv
  <1> QED
    BY <1>4, <1>7, <1>8 DEF IInv

(* SVRD_Source_new registers a block that was free: nobody points to it. *)
LEMMA RegisterIInv ==
  ASSUME IInv, NEW c \in Clients, NEW o \in Objects \ live, NEW whose \in {c, Server}, NEW place \in {"provide", "type"},
         (whose = c) <=> (place = "provide"),
         pc[c] \in {"newClient", "newServer"}, dict[arg[c]] = NULL,
         Register(c, o, whose), Goto(c, place),
         UNCHANGED <<arg, mine, stream, ending, todo, fault>>
  PROVE  IInv'
  <1>0. ClientOK(c) /\ TypeOK /\ RefsExact /\ Lifetime /\ ObjectsNamed
    BY DEF IInv, Lifetime
  <1>1. ~ending[c] /\ arg[c] \in Names /\ todo[c] = {} /\ ~Handling(c) /\ o # NULL
    BY <1>0, RegistryAssumption DEF ClientOK, PlaceOK, Handling
  <1>2. TypeOK'
    BY <1>0, <1>1 DEF TypeOK, Places, Register, Goto
  <1>3. /\ OthersKept(c) /\ pc'[c] = place /\ src'[c] = o
    BY <1>0 DEF TypeOK, Register, Goto, OthersKept
  <1>4. /\ live' = live \cup {o}
        /\ dict'[arg[c]] = o /\ \A n \in Names : n # arg[c] => dict'[n] = dict[n]
        /\ name'[o] = arg[c] /\ refs'[o] = 1 /\ ~closed'[o] /\ ~typed'[o] /\ owner'[o] = whose
        /\ self'[o] /\ leaked'[o] = 0
    BY <1>0, <1>1 DEF TypeOK, Register
  <1>5. \A p \in live : /\ p # o /\ name'[p] = name[p] /\ refs'[p] = refs[p]
                        /\ closed'[p] = closed[p] /\ typed'[p] = typed[p]
                        /\ owner'[p] = owner[p] /\ self'[p] = self[p]
                        /\ leaked'[p] = leaked[p]
    BY <1>0 DEF TypeOK, Register
  <1>6. ~Handling(c)'
    BY <1>3 DEF Handling
  <1>7. \A d \in Clients : (Handling(d)' <=> Handling(d)) /\ Usable(d)' = Usable(d)
    BY <1>1, <1>3, <1>6, OthersSame DEF Usable
  <1>30. StreamsKept
    BY <1>3, StreamsSame
  <1>8. RefsExact'
    <2>1. \A p \in live : Handlers(p)' = Handlers(p) /\ Streams(p)' = Streams(p)
      BY <1>1, <1>3, <1>6, <1>7, <1>30 DEF Handlers, Streams, OthersKept, StreamsKept
    <2>2. Handlers(o)' = {} /\ Streams(o)' = {}
      <3>1. \A d \in Clients : Handling(d) => src[d] \in live
        BY <1>0 DEF Lifetime, ClientOK, ClosingKnown
      <3>2. \A d \in Clients : Attached(d) => stream[d] # o
        BY <1>0, <1>1 DEF Lifetime, ClientOK, StreamOK
      <3> QED
        BY <1>1, <1>3, <1>6, <1>7, <1>30, <3>1, <3>2
        DEF Handlers, Streams, OthersKept, StreamsKept
    <2>3. Cardinality(Handlers(o)') = 0 /\ Cardinality(Streams(o)') = 0
      BY <2>2, FS_EmptySet
    <2>4. refs'[o] = (IF self'[o] THEN 1 ELSE 0) + leaked'[o]
                     + Cardinality(Handlers(o)') + Cardinality(Streams(o)')
      <3>1. refs'[o] = 1 /\ leaked'[o] = 0
        BY <1>4
      <3>2. self'[o]
        BY <1>4
      <3> QED
        BY <2>3, <3>1, <3>2
    <2>5. \A p \in live : refs'[p] = (IF self'[p] THEN 1 ELSE 0) + leaked'[p]
                                     + Cardinality(Handlers(p)') + Cardinality(Streams(p)')
      BY <1>0, <1>5, <2>1 DEF RefsExact, Handlers, Streams
    <2>6. \A p \in live' : refs'[p] = (IF self'[p] THEN 1 ELSE 0) + leaked'[p]
                                      + Cardinality(Handlers(p)') + Cardinality(Streams(p)')
      BY <1>4, <2>4, <2>5
    <2> QED
      BY <2>6 DEF RefsExact, Handlers, Streams
  <1>9. ObjectsNamed'
    <2>1. \A p \in live' : /\ name'[p] \in Names
                           /\ ~closed'[p] => dict'[name'[p]] = p
                           /\ typed'[p] => owner'[p] = Server
      <3>1. ASSUME NEW p \in live
            PROVE  /\ name'[p] \in Names
                   /\ ~closed'[p] => dict'[name'[p]] = p
                   /\ typed'[p] => owner'[p] = Server
        <4>1. p # NULL
          BY <1>0, RegistryAssumption DEF TypeOK
        <4>2. ~closed[p] => name[p] # arg[c]
          BY <1>0, <4>1 DEF ObjectsNamed
        <4> QED
          BY <1>0, <1>4, <1>5, <4>2 DEF ObjectsNamed
      <3> QED
        BY <1>1, <1>4, <3>1
    <2>2. ASSUME NEW n \in Names, dict'[n] # NULL
          PROVE  dict'[n] \in live' /\ name'[dict'[n]] = n /\ self'[dict'[n]]
      BY <1>0, <1>4, <1>5, <2>2 DEF ObjectsNamed
    <2> QED
      BY <2>1, <2>2 DEF ObjectsNamed
  <1>10. ASSUME NEW d \in Clients PROVE ClientOK(d)'
    <2>1. ClientOK(d)
      BY <1>0 DEF Lifetime
    <2>0. StreamOK(d)'
      BY <1>4, <1>30, <2>1 DEF ClientOK, StreamOK, StreamsKept
    <2>2. MineOpen(d)'
      <3>1. \A n \in Usable(d) : n # arg[c] /\ n \in Names
        BY <1>0, <2>1 DEF ClientOK, MineOpen, Usable
      <3> QED
        BY <1>4, <1>5, <1>7, <2>1, <3>1 DEF ClientOK, MineOpen
    <2>3. OwnedTracked(d)'
      <3> SUFFICES ASSUME NEW n \in Names, dict'[n] # NULL, owner'[dict'[n]] = d
                   PROVE  \/ n \in Usable(d)' /\ mine'[d][n] = dict'[n]
                          \/ pc'[d] \in {"provide", "mark", "remove"} /\ src'[d] = dict'[n]
        BY DEF OwnedTracked
      <3>1. CASE n = arg[c]
        <4>1. owner'[o] = d /\ Server # d
          BY <1>4, <3>1, RegistryAssumption
        <4> QED
          BY <1>3, <1>4, <3>1, <4>1
      <3>2. CASE n # arg[c]
        <4>1. dict[n] = dict'[n] /\ dict[n] \in live /\ owner[dict[n]] = d
          BY <1>0, <1>4, <1>5, <3>2 DEF ObjectsNamed
        <4>2. \/ n \in Usable(d) /\ mine[d][n] = dict[n]
              \/ pc[d] \in {"provide", "mark", "remove"} /\ src[d] = dict[n]
          BY <2>1, <4>1 DEF ClientOK, OwnedTracked
        <4> QED
          BY <1>3, <1>7, <4>1, <4>2 DEF OthersKept
      <3> QED
        BY <3>1, <3>2
    <2>4. PlaceOK(d)'
      BY <1>1, <1>3, <2>1 DEF ClientOK, PlaceOK, OthersKept
    <2>5. CASE d = c
      <3>1. OpeningKnown(d)' /\ ClosingKnown(d)'
        BY <1>3, <1>4, <1>6, <2>5 DEF OpeningKnown, ClosingKnown
      <3> QED
        BY <2>0, <2>2, <2>3, <2>4, <3>1 DEF ClientOK
    <2>6. CASE d # c
      <3>1. OpeningKnown(d)'
        <4>1. pc'[d] = pc[d] /\ src'[d] = src[d] /\ arg'[d] = arg[d]
          BY <1>3, <2>6 DEF OthersKept
        <4>2. NULL \notin live
          BY <1>0, RegistryAssumption DEF TypeOK
        <4>3. pc[d] = "provide" => arg[d] \in Names /\ arg[d] # arg[c]
          BY <2>1, <4>2 DEF ClientOK, OpeningKnown, PlaceOK
        <4> QED
          BY <1>4, <1>5, <2>1, <4>1, <4>3 DEF ClientOK, OpeningKnown
      <3>2. ClosingKnown(d)'
        <4>1. /\ pc'[d] = pc[d] /\ src'[d] = src[d]
          BY <1>3, <2>6 DEF OthersKept
        <4>2. pc[d] = "check" => src[d] \in live
          BY <2>1 DEF ClientOK, ClosingKnown, Handling
        <4>3. \A p \in live : name[p] \in Names
          BY <1>0 DEF ObjectsNamed
        <4>4. NULL \notin live
          BY <1>0, RegistryAssumption DEF TypeOK
        <4> QED
          BY <1>0, <1>4, <1>5, <1>7, <2>1, <4>1, <4>2, <4>3, <4>4 DEF ClientOK, ClosingKnown
      <3> QED
        BY <2>0, <2>2, <2>3, <2>4, <3>1, <3>2 DEF ClientOK
    <2> QED
      BY <2>5, <2>6
  <1>11. Alone({"type"})' /\ Alone({"remove", "release"})'
    <2>1. \A d \in Clients : pc[d] = "type" => src[d] # o
      BY <1>0 DEF Lifetime, ClientOK, OpeningKnown
    <2> QED
      BY <1>0, <1>3, <2>1 DEF Lifetime, Alone, OthersKept
  <1> QED
    BY <1>2, <1>8, <1>9, <1>10, <1>11 DEF IInv, Lifetime

LEMMA NewClientIInv == ASSUME IInv, NEW c \in Clients, NewClient(c) PROVE IInv'
  <1>0. ClientOK(c) /\ TypeOK
    BY DEF IInv, Lifetime
  <1>1. pc[c] = "newClient" /\ ~ending[c] /\ ~Handling(c)
    BY <1>0 DEF NewClient, At, ClientOK, PlaceOK, Handling
  <1>2. CASE dict[arg[c]] = NULL
    <2>1. PICK o \in Objects \ live : Register(c, o, c)
      BY <1>2 DEF NewClient
    <2> QED
      BY <1>1, <1>2, <2>1, RegisterIInv DEF NewClient
  <1>3. CASE dict[arg[c]] # NULL
    <2>1. /\ Reply(c) /\ UNCHANGED shared
          /\ UNCHANGED <<refs, leaked, mine, stream, ending, todo, fault>>
      BY <1>3 DEF NewClient, shared, objects
    <2>2. TypeOK'
      BY <1>0, <2>1 DEF TypeOK, Places, Goto, Reply, shared
    <2>3. OthersKept(c) /\ pc'[c] = "idle"
      BY <1>0, <2>1 DEF TypeOK, Goto, Reply, OthersKept
    <2>4. ClientOK(c)' /\ ~Handling(c)'
      BY <1>0, <1>1, <2>1, <2>3, StreamStays, BackIdle DEF ClientOK, shared
    <2> QED
      BY <1>1, <2>1, <2>2, <2>3, <2>4, QuietStep
  <1> QED
    BY <1>2, <1>3

(* The open function of a source type; with a name that was taken meanwhile the
   process dies, and nothing else changes. *)
LEMMA NewServerIInv == ASSUME IInv, NEW c \in Clients, NewServer(c) PROVE IInv'
  <1>1. pc[c] = "newServer"
    BY DEF NewServer, At
  <1>2. CASE dict[arg[c]] = NULL
    <2>1. PICK o \in Objects \ live : Register(c, o, Server)
      BY <1>2 DEF NewServer
    <2> QED
      BY <1>1, <1>2, <2>1, RegisterIInv, RegistryAssumption DEF NewServer
  <1>3. CASE dict[arg[c]] # NULL
    <2>1. UNCHANGED <<dict, objects, clients>> /\ fault' = TRUE
      BY <1>3 DEF NewServer, clients
    <2> QED
      BY <2>1, FaultIInv
  <1> QED
    BY <1>2, <1>3

(* SVRD_Source_openInstance sets the type: no rClose has taken the source for a client
   source meanwhile. *)
LEMMA SetTypeIInv == ASSUME IInv, NEW c \in Clients, SetType(c) PROVE IInv'
  <1>0. ClientOK(c) /\ TypeOK /\ RefsExact /\ Lifetime /\ ObjectsNamed
    BY DEF IInv, Lifetime
  <1>1. /\ pc[c] = "type" /\ ~ending[c] /\ ~Handling(c) /\ src[c] \in live
        /\ owner[src[c]] = Server /\ ~typed[src[c]]
    BY <1>0 DEF SetType, At, ClientOK, PlaceOK, OpeningKnown, Handling
  <1>2. /\ typed' = [typed EXCEPT ![src[c]] = TRUE] /\ Reply(c)
        /\ UNCHANGED <<dict, live, name, closed, owner, self>>
        /\ UNCHANGED <<refs, leaked, mine, stream, ending, todo, fault>>
    BY DEF SetType
  <1>3. TypeOK'
    BY <1>0, <1>2 DEF TypeOK, Places, Goto, Reply
  <1>4. OthersKept(c) /\ pc'[c] = "idle"
    BY <1>0, <1>2 DEF TypeOK, Goto, Reply, OthersKept
  <1>5. \A p \in live : typed'[p] <=> (p = src[c] \/ typed[p])
    BY <1>0, <1>1, <1>2 DEF TypeOK
  <1>6. ~Handling(c)'
    BY <1>4 DEF Handling
  <1>7. \A d \in Clients : (Handling(d)' <=> Handling(d)) /\ Usable(d)' = Usable(d)
    BY <1>1, <1>2, <1>4, <1>6, OthersSame DEF Usable
  <1>30. StreamsKept
    BY <1>1, <1>2, <1>4, StreamsSame
  <1>8. RefsExact'
    BY <1>0, <1>1, <1>2, <1>4, <1>7, <1>30, RefsKept DEF OthersKept
  <1>9. ObjectsNamed'
    BY <1>0, <1>1, <1>2, <1>5 DEF ObjectsNamed
  <1>10. ASSUME NEW d \in Clients PROVE ClientOK(d)'
    <2>1. ClientOK(d)
      BY <1>0 DEF Lifetime
    <2>0. StreamOK(d)'
      BY <1>1, <1>2, <1>4, <1>30, <2>1 DEF ClientOK, StreamOK, StreamsKept
    <2>2. MineOpen(d)'
      BY <1>2, <1>7, <2>1 DEF ClientOK, MineOpen
    <2>3. CASE d = c
      <3>1. OwnedTracked(d)'
        BY <1>1, <1>2, <1>7, <2>1, <2>3 DEF ClientOK, OwnedTracked
      <3>2. PlaceOK(d)' /\ OpeningKnown(d)' /\ ClosingKnown(d)'
        BY <1>1, <1>2, <1>4, <1>6, <2>1, <2>3 DEF ClientOK, PlaceOK, OpeningKnown, ClosingKnown
      <3> QED
        BY <2>0, <2>2, <3>1, <3>2 DEF ClientOK
    <2>4. CASE d # c
      <3>0. pc'[d] = pc[d] /\ src'[d] = src[d] /\ arg'[d] = arg[d]
        BY <1>4, <2>4 DEF OthersKept
      <3>1. OwnedTracked(d)' /\ PlaceOK(d)'
        BY <1>2, <1>7, <2>1, <3>0 DEF ClientOK, OwnedTracked, PlaceOK
      <3>2. pc[d] = "type" => src[d] # src[c]
        BY <1>0, <1>1, <2>4 DEF Lifetime, Alone
      <3>3. OpeningKnown(d)'
        BY <1>2, <1>5, <2>1, <3>0, <3>2 DEF ClientOK, OpeningKnown
      <3>4. ClosingKnown(d)'
        BY <1>2, <1>5, <1>7, <2>1, <3>0 DEF ClientOK, ClosingKnown
      <3> QED
        BY <2>0, <2>2, <3>1, <3>3, <3>4 DEF ClientOK
    <2> QED
      BY <2>3, <2>4
  <1>11. Alone({"type"})' /\ Alone({"remove", "release"})'
    BY <1>0, <1>4 DEF Lifetime, Alone, OthersKept
  <1> QED
    BY <1>3, <1>8, <1>9, <1>10, <1>11 DEF IInv, Lifetime

(* SVRD_Source_destroy marks the source: no other thread counts on its being open. *)
LEMMA MarkIInv == ASSUME IInv, NEW c \in Clients, Mark(c) PROVE IInv'
  <1>0. ClientOK(c) /\ TypeOK /\ RefsExact /\ Lifetime /\ ObjectsNamed
    BY DEF IInv, Lifetime
  <1>1. /\ pc[c] = "mark" /\ src[c] \in live /\ (typed[src[c]] \/ owner[src[c]] = c)
        /\ (owner[src[c]] = c => ~closed[src[c]])
        /\ (ending[c] => owner[src[c]] = c)
        /\ \A n \in Usable(c) : mine[c][n] # src[c]
    BY <1>0 DEF Mark, At, ClientOK, ClosingKnown
  <1>2. /\ closed' = [closed EXCEPT ![src[c]] = TRUE]
        /\ pc' = [pc EXCEPT ![c] = IF closed[src[c]] THEN "unref" ELSE "remove"]
        /\ UNCHANGED <<dict, live, name, typed, owner, self>>
        /\ UNCHANGED <<refs, leaked, mine, stream, src, arg, ending, todo, fault>>
    BY DEF Mark, Goto
  <1>3. TypeOK'
    BY <1>0, <1>2 DEF TypeOK, Places
  <1>4. OthersKept(c) /\ pc'[c] = IF closed[src[c]] THEN "unref" ELSE "remove"
    BY <1>0, <1>2 DEF TypeOK, OthersKept
  <1>5. closed'[src[c]] /\ \A p \in live : p # src[c] => closed'[p] = closed[p]
    BY <1>0, <1>1, <1>2 DEF TypeOK
  <1>6. \A d \in Clients : (Handling(d)' <=> Handling(d)) /\ Usable(d)' = Usable(d)
    <2>1. Handling(c)' <=> Handling(c)
      BY <1>1, <1>2, <1>4 DEF Handling
    <2> QED
      BY <1>2, <1>4, <2>1, OthersSame DEF Usable
  <1>30. StreamsKept
    BY <1>1, <1>2, <1>4, StreamsSame
  <1>7. RefsExact'
    BY <1>0, <1>2, <1>6, <1>30, RefsKept
  <1>8. ObjectsNamed'
    BY <1>0, <1>1, <1>2, <1>5 DEF ObjectsNamed
  <1>9. \A d \in Clients : d # c => ~(owner[src[c]] = d)
    BY <1>0, <1>1, RegistryAssumption DEF ObjectsNamed
  <1>10. ASSUME NEW d \in Clients PROVE ClientOK(d)'
    <2>1. ClientOK(d)
      BY <1>0 DEF Lifetime
    <2>0. StreamOK(d)'
      BY <1>1, <1>2, <1>4, <1>30, <2>1 DEF ClientOK, StreamOK, StreamsKept
    <2>2. MineOpen(d)'
      <3>1. \A n \in Usable(d) : mine[d][n] # src[c]
        BY <1>1, <1>9, <2>1 DEF ClientOK, MineOpen
      <3> QED
        BY <1>2, <1>5, <1>6, <2>1, <3>1 DEF ClientOK, MineOpen
    <2>3. CASE d = c
      <3>1. OwnedTracked(d)'
        BY <1>1, <1>2, <1>4, <1>6, <2>1, <2>3 DEF ClientOK, OwnedTracked
      <3>2. PlaceOK(d)' /\ OpeningKnown(d)'
        BY <1>1, <1>2, <1>4, <2>1, <2>3 DEF ClientOK, PlaceOK, OpeningKnown
      <3>3. ClosingKnown(d)'
        <4>1. ~closed[src[c]] => self[src[c]] /\ dict[name[src[c]]] = src[c]
          <5>1. src[c] # NULL
            BY <1>0, <1>1, RegistryAssumption DEF TypeOK
          <5> QED
            BY <1>0, <1>1, <5>1 DEF ObjectsNamed
        <4>2. Handling(d)' => src'[d] \in live'
          BY <1>1, <1>2, <2>3
        <4> QED
          BY <1>1, <1>2, <1>4, <1>5, <1>6, <2>3, <4>1, <4>2 DEF ClosingKnown
      <3> QED
        BY <2>0, <2>2, <3>1, <3>2, <3>3 DEF ClientOK
    <2>4. CASE d # c
      <3>0. pc'[d] = pc[d]
        BY <1>4, <2>4 DEF OthersKept
      <3>1. OwnedTracked(d)' /\ PlaceOK(d)'
        BY <1>2, <1>6, <2>1, <3>0 DEF ClientOK, OwnedTracked, PlaceOK
      <3>2. pc[d] \in {"provide", "type"} => src[d] # src[c]
        BY <1>1, <1>9, <2>1, <2>4, RegistryAssumption DEF ClientOK, OpeningKnown
      <3>3. OpeningKnown(d)'
        BY <1>2, <1>5, <2>1, <3>0, <3>2 DEF ClientOK, OpeningKnown
      <3>4. ClosingKnown(d)'
        BY <1>2, <1>5, <1>6, <1>9, <2>1, <2>4, <3>0 DEF ClientOK, ClosingKnown
      <3> QED
        BY <2>0, <2>2, <3>1, <3>3, <3>4 DEF ClientOK
    <2> QED
      BY <2>3, <2>4
  <1>11. Alone({"type"})' /\ Alone({"remove", "release"})'
    <2>1. \A d \in Clients : pc[d] \in {"remove", "release"} => closed[src[d]]
      BY <1>0 DEF Lifetime, ClientOK, ClosingKnown
    <2> QED
      BY <1>0, <1>1, <1>2, <1>4, <2>1 DEF Lifetime, Alone, OthersKept
  <1> QED
    BY <1>3, <1>7, <1>8, <1>10, <1>11 DEF IInv, Lifetime

(* The source leaves the dictionary; what is removed is this source. *)
LEMMA RemoveIInv == ASSUME IInv, NEW c \in Clients, Remove(c) PROVE IInv'
  <1>0. ClientOK(c) /\ TypeOK /\ RefsExact /\ Lifetime /\ ObjectsNamed
    BY DEF IInv, Lifetime
  <1>1. /\ pc[c] = "remove" /\ src[c] \in live /\ closed[src[c]] /\ self[src[c]]
        /\ dict[name[src[c]]] = src[c] /\ name[src[c]] \in Names /\ src[c] # NULL
        /\ (typed[src[c]] \/ owner[src[c]] = c)
    BY <1>0, RegistryAssumption DEF Remove, At, ClientOK, ClosingKnown, ObjectsNamed, TypeOK
  <1>2. /\ dict' = [dict EXCEPT ![name[src[c]]] = NULL]
        /\ pc' = [pc EXCEPT ![c] = "release"]
        /\ UNCHANGED <<live, name, closed, typed, owner, self>>
        /\ UNCHANGED <<refs, leaked, mine, stream, src, arg, ending, todo, fault>>
    BY <1>1 DEF Remove, Goto, objects
  <1>3. TypeOK'
    BY <1>0, <1>1, <1>2 DEF TypeOK, Places
  <1>4. OthersKept(c) /\ pc'[c] = "release"
    BY <1>0, <1>2 DEF TypeOK, OthersKept
  <1>5. /\ dict'[name[src[c]]] = NULL
        /\ \A n \in Names : n # name[src[c]] => dict'[n] = dict[n] /\ dict[n] # src[c]
    BY <1>0, <1>1, <1>2 DEF TypeOK, ObjectsNamed
  <1>6. \A d \in Clients : (Handling(d)' <=> Handling(d)) /\ Usable(d)' = Usable(d)
    <2>1. Handling(c)' <=> Handling(c)
      BY <1>1, <1>2, <1>4 DEF Handling
    <2> QED
      BY <1>2, <1>4, <2>1, OthersSame DEF Usable
  <1>30. StreamsKept
    BY <1>1, <1>2, <1>4, StreamsSame
  <1>7. RefsExact'
    BY <1>0, <1>2, <1>6, <1>30, RefsKept
  <1>8. ObjectsNamed'
    BY <1>0, <1>1, <1>2, <1>5 DEF ObjectsNamed
  <1>9. \A p \in live : ~closed[p] => name[p] # name[src[c]]
    BY <1>0, <1>1 DEF ObjectsNamed
  <1>10. ASSUME NEW d \in Clients PROVE ClientOK(d)'
    <2>1. ClientOK(d)
      BY <1>0 DEF Lifetime
    <2>0. StreamOK(d)'
      BY <1>1, <1>2, <1>4, <1>30, <2>1 DEF ClientOK, StreamOK, StreamsKept
    <2>2. MineOpen(d)'
      <3>1. \A n \in Usable(d) : n \in Names /\ n # name[src[c]]
        BY <1>1, <2>1 DEF ClientOK, MineOpen, Usable
      <3> QED
        BY <1>2, <1>5, <1>6, <2>1, <3>1 DEF ClientOK, MineOpen
    <2>3. CASE d = c
      <3>1. OwnedTracked(d)'
        BY <1>1, <1>2, <1>5, <1>6, <2>1, <2>3 DEF ClientOK, OwnedTracked
      <3>2. PlaceOK(d)' /\ OpeningKnown(d)'
        BY <1>1, <1>2, <1>4, <2>1, <2>3 DEF ClientOK, PlaceOK, OpeningKnown
      <3>3. ClosingKnown(d)'
        BY <1>1, <1>2, <1>4, <1>5, <1>6, <2>1, <2>3 DEF ClosingKnown, ClientOK
      <3> QED
        BY <2>0, <2>2, <3>1, <3>2, <3>3 DEF ClientOK
    <2>4. CASE d # c
      <3>0. pc'[d] = pc[d]
        BY <1>4, <2>4 DEF OthersKept
      <3>1. OwnedTracked(d)' /\ PlaceOK(d)'
        BY <1>2, <1>5, <1>6, <2>1, <3>0 DEF ClientOK, OwnedTracked, PlaceOK
      <3>2. pc[d] = "provide" => arg[d] \in Names /\ arg[d] # name[src[c]]
        BY <1>1, <2>1 DEF ClientOK, OpeningKnown, PlaceOK
      <3>3. OpeningKnown(d)'
        BY <1>2, <1>5, <2>1, <3>0, <3>2 DEF ClientOK, OpeningKnown
      <3>4. pc[d] = "remove" => src[d] # src[c] /\ src[d] \in live /\ name[src[d]] \in Names
                                /\ dict[name[src[d]]] = src[d]
        BY <1>0, <1>1, <2>1, <2>4 DEF Lifetime, Alone, ObjectsNamed, ClientOK, ClosingKnown
      <3>5. pc[d] = "remove" => name[src[d]] # name[src[c]]
        BY <1>1, <3>4
      <3>6. src[d] # NULL => ((\A n \in Names : dict[n] # src[d]) => \A n \in Names : dict'[n] # src[d])
        BY <1>5
      <3>7. pc[d] = "release" => src[d] # NULL
        BY <1>0, <2>1, RegistryAssumption DEF ClientOK, ClosingKnown, TypeOK
      <3>8. ClosingKnown(d)'
        BY <1>2, <1>5, <1>6, <2>1, <3>0, <3>4, <3>5, <3>6, <3>7 DEF ClientOK, ClosingKnown
      <3> QED
        BY <2>0, <2>2, <3>1, <3>3, <3>8 DEF ClientOK
    <2> QED
      BY <2>3, <2>4
  <1>11. Alone({"type"})' /\ Alone({"remove", "release"})'
    BY <1>0, <1>1, <1>2, <1>4 DEF Lifetime, Alone, OthersKept
  <1> QED
    BY <1>3, <1>7, <1>8, <1>10, <1>11 DEF IInv, Lifetime

(* The source's own reference is dropped, once. *)
LEMMA ReleaseIInv == ASSUME IInv, NEW c \in Clients, Release(c) PROVE IInv'
  <1>0. ClientOK(c) /\ TypeOK /\ RefsExact /\ Lifetime /\ ObjectsNamed
    BY DEF IInv, Lifetime
  <1>1. PICK o \in live : o = src[c]
    BY <1>0 DEF Release, At, ClientOK, ClosingKnown
  <1>2. /\ pc[c] = "release" /\ closed[o] /\ self[o] /\ \A n \in Names : dict[n] # o
    BY <1>0, <1>1 DEF Release, At, ClientOK, ClosingKnown
  <1>3. /\ refs' = [refs EXCEPT ![o] = @ - 1] /\ self' = [self EXCEPT ![o] = FALSE]
        /\ pc' = [pc EXCEPT ![c] = "unref"]
        /\ UNCHANGED <<dict, live, name, closed, typed, owner>>
        /\ UNCHANGED <<leaked, mine, stream, src, arg, ending, todo, fault>>
    BY <1>1 DEF Release, Goto, Unref
  <1>4. refs[o] > 0 /\ refs[o] \in Nat
    BY <1>0, <1>2, Referenced DEF TypeOK
  <1>5. TypeOK'
    BY <1>0, <1>3, <1>4 DEF TypeOK, Places
  <1>6. OthersKept(c) /\ pc'[c] = "unref"
    BY <1>0, <1>3 DEF TypeOK, OthersKept
  <1>7. /\ ~self'[o] /\ refs'[o] = refs[o] - 1
        /\ \A p \in live : p # o => self'[p] = self[p] /\ refs'[p] = refs[p]
    BY <1>0, <1>1, <1>3 DEF TypeOK
  <1>8. \A d \in Clients : (Handling(d)' <=> Handling(d)) /\ Usable(d)' = Usable(d)
    <2>1. Handling(c)' <=> Handling(c)
      BY <1>2, <1>3, <1>6 DEF Handling
    <2> QED
      BY <1>3, <1>6, <2>1, OthersSame DEF Usable
  <1>30. StreamsKept
    BY <1>2, <1>3, <1>6, StreamsSame
  <1>9. RefsExact'
    <2>1. ASSUME NEW p \in live
          PROVE  refs'[p] = (IF self'[p] THEN 1 ELSE 0) + leaked'[p]
                            + Cardinality(Handlers(p)') + Cardinality(Streams(p)')
      <3>1. /\ Cardinality(Handlers(p)) \in Nat /\ Cardinality(Streams(p)) \in Nat
            /\ refs[p] = (IF self[p] THEN 1 ELSE 0) + leaked[p]
                         + Cardinality(Handlers(p)) + Cardinality(Streams(p))
            /\ leaked[p] \in Nat
        BY <1>0, Referenced DEF RefsExact, Handlers, Streams, TypeOK
      <3>2. Handlers(p)' = Handlers(p) /\ Streams(p)' = Streams(p)
        BY <1>3, <1>8, <1>30 DEF Handlers, Streams, StreamsKept
      <3>3. CASE p = o
        BY <1>2, <1>3, <1>7, <3>1, <3>2, <3>3
      <3>4. CASE p # o
        BY <1>3, <1>7, <3>1, <3>2, <3>4
      <3> QED
        BY <3>3, <3>4
    <2> QED
      BY <1>3, <2>1 DEF RefsExact, Handlers, Streams
  <1>10. ObjectsNamed'
    BY <1>0, <1>2, <1>3, <1>7 DEF ObjectsNamed
  <1>11. ASSUME NEW d \in Clients PROVE ClientOK(d)'
    <2>1. ClientOK(d)
      BY <1>0 DEF Lifetime
    <2>0. StreamOK(d)'
      BY <1>2, <1>3, <1>6, <1>30, <2>1 DEF ClientOK, StreamOK, StreamsKept
    <2>2. MineOpen(d)'
      BY <1>3, <1>8, <2>1 DEF ClientOK, MineOpen
    <2>3. CASE d = c
      <3>1. OwnedTracked(d)'
        BY <1>2, <1>3, <1>8, <2>1, <2>3 DEF ClientOK, OwnedTracked
      <3>2. PlaceOK(d)' /\ OpeningKnown(d)'
        BY <1>2, <1>3, <1>6, <2>1, <2>3 DEF ClientOK, PlaceOK, OpeningKnown
      <3>3. ClosingKnown(d)'
        BY <1>1, <1>3, <1>6, <2>3 DEF ClosingKnown
      <3> QED
        BY <2>0, <2>2, <3>1, <3>2, <3>3 DEF ClientOK
    <2>4. CASE d # c
      <3>0. pc'[d] = pc[d]
        BY <1>6, <2>4 DEF OthersKept
      <3>1. OwnedTracked(d)' /\ PlaceOK(d)' /\ OpeningKnown(d)'
        BY <1>3, <1>8, <2>1, <3>0 DEF ClientOK, OwnedTracked, PlaceOK, OpeningKnown
      <3>2. pc[d] \in {"remove", "release"} => src[d] # o /\ src[d] \in live
        BY <1>0, <1>1, <1>2, <2>1, <2>4 DEF Lifetime, Alone, ClientOK, ClosingKnown
      <3>3. ClosingKnown(d)'
        BY <1>3, <1>7, <1>8, <2>1, <3>0, <3>2 DEF ClientOK, ClosingKnown
      <3> QED
        BY <2>0, <2>2, <3>1, <3>3 DEF ClientOK
    <2> QED
      BY <2>3, <2>4
  <1>12. Alone({"type"})' /\ Alone({"remove", "release"})'
    BY <1>0, <1>2, <1>3, <1>6 DEF Lifetime, Alone, OthersKept
  <1> QED
    BY <1>5, <1>9, <1>10, <1>11, <1>12 DEF IInv, Lifetime

(* The garbage collector frees a source at 0: nobody points to it who would use it. *)
LEMMA CollectIInv == ASSUME IInv, NEW o \in Objects, Collect(o) PROVE IInv'
  <1>0. TypeOK /\ RefsExact /\ Lifetime /\ ObjectsNamed
    BY DEF IInv, Lifetime
  <1>1. /\ o \in live /\ refs[o] = 0
        /\ live' = live \ {o}
        /\ name' = [name EXCEPT ![o] = NULL]
        /\ closed' = [closed EXCEPT ![o] = FALSE]
        /\ typed' = [typed EXCEPT ![o] = FALSE]
        /\ owner' = [owner EXCEPT ![o] = Server]
        /\ leaked' = [leaked EXCEPT ![o] = 0]
        /\ UNCHANGED <<dict, refs, self, mine, stream, pc, src, arg, ending, todo, fault>>
    BY DEF Collect, clients
  <1>2. /\ ~self[o]
        /\ \A d \in Clients : (Handling(d) => src[d] # o) /\ (Attached(d) => stream[d] # o)
    BY <1>0, <1>1, Referenced
  <1>3. TypeOK'
    BY <1>0, <1>1 DEF TypeOK
  <1>4. \A p \in live' : /\ p \in live /\ p # o /\ name'[p] = name[p] /\ closed'[p] = closed[p]
                         /\ typed'[p] = typed[p] /\ owner'[p] = owner[p]
                         /\ leaked'[p] = leaked[p]
    BY <1>0, <1>1 DEF TypeOK
  <1>5. \A d \in Clients : /\ Handling(d)' <=> Handling(d)
                           /\ Usable(d)' = Usable(d)
                           /\ Attached(d)' <=> Attached(d)
    BY <1>1 DEF Handling, Usable, Attached
  <1>6. RefsExact'
    <2>1. \A p \in live' : Handlers(p)' = Handlers(p) /\ Streams(p)' = Streams(p)
      BY <1>1, <1>5 DEF Handlers, Streams
    <2>2. \A p \in live' : refs'[p] = (IF self'[p] THEN 1 ELSE 0) + leaked'[p]
                                      + Cardinality(Handlers(p)') + Cardinality(Streams(p)')
      BY <1>0, <1>1, <1>4, <2>1 DEF RefsExact, Handlers, Streams
    <2> QED
      BY <2>2 DEF RefsExact, Handlers, Streams
  <1>7. \A n \in Names : dict[n] # o
    BY <1>0, <1>1, <1>2, RegistryAssumption DEF ObjectsNamed, TypeOK
  <1>8. closed[o]
    BY <1>0, <1>1, <1>7 DEF ObjectsNamed
  <1>9. ObjectsNamed'
    BY <1>0, <1>1, <1>4, <1>7 DEF ObjectsNamed
  <1>10. ASSUME NEW d \in Clients PROVE ClientOK(d)'
    <2>1. ClientOK(d)
      BY <1>0 DEF Lifetime
    <2>2. MineOpen(d)'
      BY <1>1, <1>4, <1>5, <1>8, <2>1 DEF ClientOK, MineOpen
    <2>3. OwnedTracked(d)'
      BY <1>0, <1>1, <1>4, <1>5, <1>7, <2>1 DEF ClientOK, OwnedTracked, ObjectsNamed
    <2>4. PlaceOK(d)'
      BY <1>1, <2>1 DEF ClientOK, PlaceOK
    <2>5. OpeningKnown(d)'
      BY <1>1, <1>4, <1>8, <2>1 DEF ClientOK, OpeningKnown
    <2>6. pc[d] \in {"mark", "remove", "release"} => src[d] # o
      <3>1. CASE ~ending[d]
        BY <1>2, <3>1 DEF Handling
      <3>2. CASE ending[d]
        BY <1>2, <1>8, <2>1, <3>2 DEF ClientOK, ClosingKnown
      <3> QED
        BY <3>1, <3>2
    <2>7. pc[d] = "check" => Handling(d)
      BY DEF Handling
    <2>8. ClosingKnown(d)'
      BY <1>1, <1>2, <1>4, <1>5, <2>1, <2>6, <2>7 DEF ClientOK, ClosingKnown
    <2>9. StreamOK(d)'
      BY <1>1, <1>2, <1>5, <2>1 DEF ClientOK, StreamOK
    <2> QED
      BY <2>2, <2>3, <2>4, <2>5, <2>8, <2>9 DEF ClientOK
  <1>11. Alone({"type"})' /\ Alone({"remove", "release"})'
    BY <1>0, <1>1 DEF Lifetime, Alone
  <1> QED
    BY <1>3, <1>6, <1>9, <1>10, <1>11 DEF IInv, Lifetime

-----------------------------------------------------------------------------
(* The theorems. *)

(* Every step of svrd preserves the invariant. *)
LEMMA NextIInv == IInv /\ [Next]_vars => IInv'
  <1> SUFFICES ASSUME IInv, [Next]_vars PROVE IInv'
    OBVIOUS
  <1>1. ASSUME NEW c \in Clients, Step(c) PROVE IInv'
    <2>1. CASE \E n \in Names : EndSource(c, n)
      BY <2>1, EndSourceIInv
    <2>2. CASE NewClient(c) \/ ProvideSource(c) \/ NewServer(c) \/ OpenFails(c) \/ SetType(c)
      BY <2>2, NewClientIInv, ProvideSourceIInv, NewServerIInv, OpenFailsIInv, SetTypeIInv
    <2>3. CASE CloseRefused(c) \/ AttachRefused(c) \/ Listed(c)
      <3>1. pc[c] \in {"check", "attach", "listed"} /\ ~ending[c]
        BY <2>3 DEF CloseRefused, AttachRefused, Listed, At, IInv, Lifetime, ClientOK, PlaceOK
      <3>2. Unref(src[c]) /\ Reply(c)
            /\ UNCHANGED <<dict, live, name, closed, typed, owner, self, leaked, mine, stream,
                           ending, todo, fault>>
        BY <2>3 DEF CloseRefused, AttachRefused, Listed
      <3> QED
        BY <3>1, <3>2, GiveBackIInv
    <2>4. CASE CloseAccepted(c) \/ Mark(c) \/ Remove(c) \/ Release(c) \/ CloseDone(c)
      BY <2>4, CloseAcceptedIInv, MarkIInv, RemoveIInv, ReleaseIInv, CloseDoneIInv
    <2>5. CASE Gone(c) \/ Attach(c) \/ Replace(c) \/ Assign(c)
      BY <2>5, GoneIInv, AttachIInv, ReplaceIInv, AssignIInv
    <2> QED
      BY <1>1, <2>1, <2>2, <2>3, <2>4, <2>5 DEF Step
  <1>2. ASSUME NEW c \in Clients, Request(c) PROVE IInv'
    <2>1. CASE MarkForClosing(c)
      BY <2>1, MarkForClosingIInv
    <2>2. ASSUME NEW n \in Names, ROpenClient(c, n) \/ ROpenServer(c, n) PROVE IInv'
      BY <2>2, ROpenIInv DEF ROpenClient, ROpenServer
    <2>3. ASSUME NEW n \in Names, RClose(c, n) \/ RAttachSource(c, n) \/ RListOne(c, n)
          PROVE  IInv'
      <3>1. PICK place \in {"check", "attach", "listed"} : GetByName(c, n, place)
        BY <2>3 DEF RClose, RAttachSource, RListOne
      <3>2. At(c, "idle")
            /\ UNCHANGED <<dict, live, name, closed, typed, owner, self, leaked, mine, stream,
                           ending, todo, fault>>
        BY <2>3 DEF RClose, RAttachSource, RListOne
      <3> QED
        BY <3>1, <3>2, LookupIInv
    <2> QED
      BY <1>2, <2>1, <2>2, <2>3 DEF Request
  <1>3. CASE UNCHANGED vars
    <2>1. TypeOK'
      BY <1>3 DEF IInv, TypeOK, vars, objects, clients
    <2>2. \A d \in Clients : /\ Handling(d)' <=> Handling(d)
                             /\ Usable(d)' = Usable(d)
                             /\ Attached(d)' <=> Attached(d)
      BY <1>3 DEF Handling, Usable, Attached, vars, objects, clients
    <2>3. RefsExact'
      BY <1>3, <2>2, RefsKept DEF IInv, StreamsKept, vars, objects, clients
    <2>4. Lifetime'
      BY <1>3, <2>2 DEF IInv, Lifetime, ObjectsNamed, ClientOK, MineOpen, OwnedTracked, PlaceOK,
                        OpeningKnown, ClosingKnown, StreamOK, Alone, vars, objects, clients
    <2> QED
      BY <2>1, <2>3, <2>4 DEF IInv
  <1> QED
    BY <1>1, <1>2, <1>3, OrphanIInv, CollectIInv DEF Next

(* In every state of svrd the references of a source are counted exactly, and each thread
   and each entry points to a source that lives; a stream does so except while its source
   is being replaced. *)
THEOREM RegistryInvariant == Spec => []IInv
  BY InitIInv, NextIInv, PTL DEF Spec

(* The state has its type: no reference count goes below 0. *)
THEOREM RegistryTypes == Spec => []TypeOK
  <1>1. IInv => TypeOK
    BY DEF IInv
  <1> QED
    BY <1>1, RegistryInvariant, PTL

(* SVR_REF and SVR_UNREF: whatever the clients do at once, the reference count of a
   source is exactly the references to it. *)
THEOREM ReferencesExact == Spec => []RefsExact
  <1>1. IInv => RefsExact
    BY DEF IInv
  <1> QED
    BY <1>1, RegistryInvariant, PTL

(* SVRD_Source_destroy: a source is removed from the dictionary by one of those who
   close it, and that one removes no other source. *)
THEOREM ClosedByOne == Spec => []DestroyedOnce
  <1>1. IInv => DestroyedOnce
    <2> SUFFICES ASSUME IInv, NEW c \in Clients, NEW d \in Clients
                 PROVE  /\ pc[c] = "remove" => dict[name[src[c]]] = src[c]
                        /\ c # d /\ {pc[c], pc[d]} \subseteq {"remove", "release"}
                             => src[c] # src[d]
      BY DEF DestroyedOnce
    <2>1. pc[c] = "remove" => dict[name[src[c]]] = src[c]
      BY DEF IInv, Lifetime, ClientOK, ClosingKnown
    <2>2. {pc[c], pc[d]} \subseteq {"remove", "release"}
            => pc[c] \in {"remove", "release"} /\ pc[d] \in {"remove", "release"}
      OBVIOUS
    <2> QED
      BY <2>1, <2>2 DEF IInv, Lifetime, Alone
  <1> QED
    BY <1>1, RegistryInvariant, PTL

(* SVRD_Source_cleanup never frees a source that a thread, a stream, the dictionary or
   a client that is closing is still going to use.  A stream is excepted while it is
   between SVR_UNREF of its old source and the assignment of the new one. *)
THEOREM NoDanglingSource == Spec => []PointersAlive
  <1>1. IInv => PointersAlive
    <2> SUFFICES ASSUME IInv PROVE PointersAlive
      OBVIOUS
    <2>1. ObjectsNamed
      BY DEF IInv, Lifetime
    <2>2. ASSUME NEW c \in Clients
          PROVE  /\ Handling(c) => src[c] \in live
                 /\ pc[c] \in {"provide", "type", "mark", "remove", "release"} => src[c] \in live
                 /\ Attached(c) => stream[c] \in live
                 /\ ~ending[c] => \A n \in Names : mine[c][n] # NULL => mine[c][n] \in live
                 /\ \A n \in todo[c] : mine[c][n] \in live
      <3>1. ClientOK(c) /\ todo[c] \subseteq Names
        BY DEF IInv, Lifetime, TypeOK
      <3>2. pc[c] \in {"provide", "type", "mark", "remove", "release"} => src[c] \in live
        BY <3>1 DEF ClientOK, OpeningKnown, ClosingKnown
      <3>3. ~ending[c] => \A n \in Names : mine[c][n] # NULL => mine[c][n] \in live
        BY <3>1 DEF ClientOK, MineOpen, Usable
      <3>4. \A n \in todo[c] : mine[c][n] \in live
        BY <3>1 DEF ClientOK, MineOpen, Usable
      <3> QED
        BY <3>1, <3>2, <3>3, <3>4 DEF ClientOK, ClosingKnown, StreamOK
    <2> QED
      BY <2>1, <2>2 DEF PointersAlive, ObjectsNamed
  <1> QED
    BY <1>1, RegistryInvariant, PTL

(* SVRD_Source_rClose: a client source is closed by the client that provides it. *)
THEOREM ClosedByOwner == Spec => []OnlyOwnerCloses
  <1>1. IInv => OnlyOwnerCloses
    BY DEF IInv, Lifetime, ObjectsNamed, ClientOK, ClosingKnown, OnlyOwnerCloses
  <1> QED
    BY <1>1, RegistryInvariant, PTL

(* SVRD_Client_markForClosing: a client that is gone has left no source behind, however
   its end interleaves with what others do to the same names. *)
THEOREM GoneClientCleansUp == Spec => []GoneClientLeavesNoSource
  <1>1. IInv => GoneClientLeavesNoSource
    <2> SUFFICES ASSUME IInv, NEW c \in Clients, pc[c] = "gone", NEW n \in Names, dict[n] # NULL
                 PROVE  owner[dict[n]] # c
      BY DEF GoneClientLeavesNoSource
    <2>1. ending[c] /\ todo[c] = {} /\ OwnedTracked(c)
      BY DEF IInv, Lifetime, ClientOK, PlaceOK
    <2>2. n \notin Usable(c)
      BY <2>1 DEF Usable
    <2> QED
      BY <2>1, <2>2 DEF OwnedTracked
  <1> QED
    BY <1>1, RegistryInvariant, PTL
=============================================================================
