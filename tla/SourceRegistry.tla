--------------------------- MODULE SourceRegistry ---------------------------
(***************************************************************************)
(* The dictionary of sources of svrd and the lifetime of a source object   *)
(* (server/source.c, lib/refcount.c) under the threads of several clients, *)
(* which open, list, attach to and close sources by name                   *)
(* (server/messagehandlers.c) and close the ones they provide when they    *)
(* disconnect (server/client.c).                                           *)
(*                                                                         *)
(* What runs under sources_lock, or under the lock of a source, is one     *)
(* step.  A source object is a block of memory: once it is freed the same  *)
(* block may come back as another source.                                  *)
(***************************************************************************)
EXTENDS Integers, FiniteSets

CONSTANTS Clients,  \* the client threads
          Names,    \* source names
          Objects,  \* bound: source objects that exist at once
          MaxLeaks, \* bound: a source that lost this many references is not attached again
          Server,   \* the owner of a server source
          NULL

ASSUME RegistryAssumption == /\ NULL \notin Objects
                             /\ Server \notin Clients
                             /\ IsFiniteSet(Clients)
                             /\ MaxLeaks \in Nat

VARIABLES dict,      \* sources: name -> source
          live,      \* the source objects that are allocated
          name,      \* source->name
          refs,      \* the source's reference count
          closed,    \* source->closed
          typed,     \* source->type is not NULL
          mine,      \* client->sources of each client: name -> source
          stream,    \* the source each client's stream is attached to
          pc, src, arg,   \* each client thread: its place, its variables source and source_name
          ending,    \* the client is in SVRD_Client_markForClosing
          todo,      \* names of its sources that markForClosing has still to close
          fault,     \* the process died of a null pointer
          \* History, read by no action's guard:
          owner,     \* who provides the source: a client, or Server
          self,      \* the source's reference to itself is not dropped yet
          leaked     \* references that no pointer stands for any more

objects == <<live, name, refs, closed, typed, owner, self, leaked>>
clients == <<mine, stream, pc, src, arg, ending, todo>>
vars    == <<dict, objects, clients, fault>>

Places == {"idle", "newClient", "newServer", "provide", "type", "check", "mark", "remove",
           "release", "unref", "attach", "replace", "assign", "listed", "ending", "gone"}

TypeOK == /\ dict \in [Names -> Objects \cup {NULL}]
          /\ live \subseteq Objects
          /\ name \in [Objects -> Names \cup {NULL}]
          /\ refs \in [Objects -> Nat]
          /\ closed \in [Objects -> BOOLEAN]
          /\ typed \in [Objects -> BOOLEAN]
          /\ mine \in [Clients -> [Names -> Objects \cup {NULL}]]
          /\ stream \in [Clients -> Objects \cup {NULL}]
          /\ pc \in [Clients -> Places]
          /\ src \in [Clients -> Objects \cup {NULL}]
          /\ arg \in [Clients -> Names \cup {NULL}]
          /\ ending \in [Clients -> BOOLEAN]
          /\ todo \in [Clients -> SUBSET Names]
          /\ fault \in BOOLEAN
          /\ owner \in [Objects -> Clients \cup {Server}]
          /\ self \in [Objects -> BOOLEAN]
          /\ leaked \in [Objects -> Nat]

Init == /\ dict   = [n \in Names |-> NULL]
        /\ live   = {}
        /\ name   = [o \in Objects |-> NULL]
        /\ refs   = [o \in Objects |-> 0]
        /\ closed = [o \in Objects |-> FALSE]
        /\ typed  = [o \in Objects |-> FALSE]
        /\ mine   = [c \in Clients |-> [n \in Names |-> NULL]]
        /\ stream = [c \in Clients |-> NULL]
        /\ pc     = [c \in Clients |-> "idle"]
        /\ src    = [c \in Clients |-> NULL]
        /\ arg    = [c \in Clients |-> NULL]
        /\ ending = [c \in Clients |-> FALSE]
        /\ todo   = [c \in Clients |-> {}]
        /\ fault  = FALSE
        /\ owner  = [o \in Objects |-> Server]
        /\ self   = [o \in Objects |-> FALSE]
        /\ leaked = [o \in Objects |-> 0]

-----------------------------------------------------------------------------
At(c, place)   == ~fault /\ pc[c] = place
Goto(c, place) == pc' = [pc EXCEPT ![c] = place]

\* SVRD_Client_replyCode, the end of a handler
Reply(c) == /\ Goto(c, "idle")
            /\ src' = [src EXCEPT ![c] = NULL]
            /\ arg' = [arg EXCEPT ![c] = NULL]

\* SVR_REF and SVR_UNREF; the object waits for the collector at 0.
Ref(o)   == refs' = [refs EXCEPT ![o] = @ + 1]
Unref(o) == refs' = [refs EXCEPT ![o] = @ - 1]

\* Mutant: the lookup hands out the source without a reference.
GetByNameNoRef(c, n, place) ==
  /\ dict[n] # NULL
  /\ src' = [src EXCEPT ![c] = dict[n]]
  /\ arg' = [arg EXCEPT ![c] = n]
  /\ Goto(c, place)
  /\ UNCHANGED refs

\* SVRD_Source_getByName and SVRD_Source_getLockedSource, then on to place
GetByName(c, n, place) ==
  \/ /\ dict[n] = NULL
     /\ Reply(c)   \* NOSUCHSOURCE
     /\ UNCHANGED refs
  \/ /\ dict[n] # NULL
     /\ Ref(dict[n])
     /\ src' = [src EXCEPT ![c] = dict[n]]
     /\ arg' = [arg EXCEPT ![c] = n]
     /\ Goto(c, place)

-----------------------------------------------------------------------------
(* Opening a source: SVRD_Source_rOpen. *)

\* SVRD_Source_exists, read without a lock
ROpen(c, n, place) ==
  /\ At(c, "idle")
  /\ \/ /\ dict[n] # NULL
        /\ Reply(c)   \* NAMECLASH
     \/ /\ dict[n] = NULL
        /\ arg' = [arg EXCEPT ![c] = n]
        /\ Goto(c, place)
        /\ UNCHANGED src
  /\ UNCHANGED <<dict, objects, mine, stream, ending, todo, fault>>

ROpenClient(c, n) == ROpen(c, n, "newClient")
ROpenServer(c, n) == ROpen(c, n, "newServer")

\* A new object is registered, with one reference: its own.
Register(c, o, whose) ==
  /\ dict'   = [dict EXCEPT ![arg[c]] = o]
  /\ live'   = live \cup {o}
  /\ name'   = [name EXCEPT ![o] = arg[c]]
  /\ refs'   = [refs EXCEPT ![o] = 1]
  /\ closed' = [closed EXCEPT ![o] = FALSE]
  /\ typed'  = [typed EXCEPT ![o] = FALSE]
  /\ owner'  = [owner EXCEPT ![o] = whose]
  /\ self'   = [self EXCEPT ![o] = TRUE]
  /\ leaked' = [leaked EXCEPT ![o] = 0]
  /\ src'    = [src EXCEPT ![c] = o]

\* SVRD_Source_new for a client source
NewClient(c) ==
  /\ At(c, "newClient")
  /\ \/ /\ dict[arg[c]] = NULL
        /\ \E o \in Objects \ live : Register(c, o, c)
        /\ Goto(c, "provide")
        /\ UNCHANGED arg
     \/ /\ dict[arg[c]] # NULL
        /\ Reply(c)   \* NAMECLASH
        /\ UNCHANGED <<dict, objects>>
  /\ UNCHANGED <<mine, stream, ending, todo, fault>>

\* SVRD_Client_provideSource
ProvideSource(c) == /\ At(c, "provide")
                    /\ mine' = [mine EXCEPT ![c][arg[c]] = src[c]]
                    /\ Reply(c)   \* SUCCESS
                    /\ UNCHANGED <<dict, objects, stream, ending, todo, fault>>

\* The open function of a source type: SVRD_Source_new, then SVRD_Source_setEncoding
\* on its result before that is compared with NULL.
NewServer(c) ==
  /\ At(c, "newServer")
  /\ \/ /\ dict[arg[c]] = NULL
        /\ \E o \in Objects \ live : Register(c, o, Server)
        /\ Goto(c, "type")
        /\ UNCHANGED <<arg, fault>>
     \/ /\ dict[arg[c]] # NULL
        /\ fault' = TRUE
        /\ UNCHANGED <<dict, objects, pc, src, arg>>
  /\ UNCHANGED <<mine, stream, ending, todo>>

\* The descriptor does not parse, names no type, or its device cannot be opened.
OpenFails(c) == /\ At(c, "newServer")
                /\ Reply(c)   \* PARSEERROR, INVALIDARGUMENT, UNKNOWNERROR
                /\ UNCHANGED <<dict, objects, mine, stream, ending, todo, fault>>

\* The end of SVRD_Source_openInstance: source->type = source_type
SetType(c) == /\ At(c, "type")
              /\ typed' = [typed EXCEPT ![src[c]] = TRUE]
              /\ Reply(c)   \* SUCCESS
              /\ UNCHANGED <<dict, live, name, refs, closed, owner, self, leaked, mine,
                             stream, ending, todo, fault>>

-----------------------------------------------------------------------------
(* Closing a source: SVRD_Source_rClose and SVRD_Source_destroy. *)

RClose(c, n) == /\ At(c, "idle")
                /\ GetByName(c, n, "check")
                /\ UNCHANGED <<dict, live, name, closed, typed, owner, self, leaked, mine,
                               stream, ending, todo, fault>>

\* A source without a type is a client source: it must belong to this client.
CloseRefused(c) ==
  /\ At(c, "check")
  /\ ~typed[src[c]] /\ mine[c][arg[c]] = NULL
  /\ Unref(src[c])
  /\ Reply(c)   \* INVALIDARGUMENT
  /\ UNCHANGED <<dict, live, name, closed, typed, owner, self, leaked, mine, stream, ending,
                 todo, fault>>

\* Mutant: the owner of a client source is not checked.
CloseAcceptedAny(c) ==
  /\ At(c, "check")
  /\ mine' = IF typed[src[c]] THEN mine ELSE [mine EXCEPT ![c][arg[c]] = NULL]
  /\ Goto(c, "mark")
  /\ UNCHANGED <<dict, objects, stream, src, arg, ending, todo, fault>>

CloseAccepted(c) ==
  /\ At(c, "check")
  /\ typed[src[c]] \/ mine[c][arg[c]] # NULL
  /\ mine' = IF typed[src[c]] THEN mine ELSE [mine EXCEPT ![c][arg[c]] = NULL]
  /\ Goto(c, "mark")
  /\ UNCHANGED <<dict, objects, stream, src, arg, ending, todo, fault>>

\* Mutant: the closed flag is set and not tested.
MarkUnchecked(c) == /\ At(c, "mark")
                    /\ closed' = [closed EXCEPT ![src[c]] = TRUE]
                    /\ Goto(c, "remove")
                    /\ UNCHANGED <<dict, live, name, refs, typed, owner, self, leaked, mine,
                                   stream, src, arg, ending, todo, fault>>

\* SVRD_Source_destroy: only the first caller to find the source open goes on.
Mark(c) == /\ At(c, "mark")
           /\ closed' = [closed EXCEPT ![src[c]] = TRUE]
           /\ Goto(c, IF closed[src[c]] THEN "unref" ELSE "remove")
           /\ UNCHANGED <<dict, live, name, refs, typed, owner, self, leaked, mine, stream,
                          src, arg, ending, todo, fault>>

Remove(c) == /\ At(c, "remove")
             /\ LET n == name[src[c]]
                IN  /\ dict' = [dict EXCEPT ![n] = NULL]
                    /\ Goto(c, IF dict[n] = NULL THEN "unref" ELSE "release")
             /\ UNCHANGED <<objects, mine, stream, src, arg, ending, todo, fault>>

\* The provider is stopped, the streams woken; the self reference is dropped.
Release(c) == /\ At(c, "release")
              /\ Unref(src[c])
              /\ self' = [self EXCEPT ![src[c]] = FALSE]
              /\ Goto(c, "unref")
              /\ UNCHANGED <<dict, live, name, closed, typed, owner, leaked, mine, stream,
                             src, arg, ending, todo, fault>>

\* Mutant: markForClosing gives back a reference too.
CloseDoneUnref(c) ==
  /\ At(c, "unref")
  /\ Unref(src[c])
  /\ src' = [src EXCEPT ![c] = NULL]
  /\ arg' = [arg EXCEPT ![c] = NULL]
  /\ Goto(c, IF ending[c] THEN "ending" ELSE "idle")
  /\ UNCHANGED <<dict, live, name, closed, typed, owner, self, leaked, mine, stream,
                 ending, todo, fault>>

\* Back in the caller.  rClose gives back the reference of SVRD_Source_getByName;
\* markForClosing never had one.
CloseDone(c) ==
  /\ At(c, "unref")
  /\ \/ /\ ~ending[c]
        /\ Unref(src[c])
        /\ Reply(c)   \* SUCCESS
     \/ /\ ending[c]
        /\ src' = [src EXCEPT ![c] = NULL]
        /\ Goto(c, "ending")
        /\ UNCHANGED <<refs, arg>>
  /\ UNCHANGED <<dict, live, name, closed, typed, owner, self, leaked, mine, stream,
                 ending, todo, fault>>

-----------------------------------------------------------------------------
(* The end of a client: SVRD_Client_markForClosing.  Its streams go first.      *)

\* The client's stream has a reference to the source it points to, but for the step of
\* SVRD_Stream_attachSource between the release of the old one and the assignment.
Attached(c) == stream[c] # NULL /\ pc[c] # "assign"

\* SVRD_Stream_detachSource, in SVRD_Stream_sourceClosing or SVRD_Stream_destroy:
\* the pointer is cleared, the reference stays.
Detached(c) ==
  /\ stream' = [stream EXCEPT ![c] = NULL]
  /\ leaked' = IF Attached(c) THEN [leaked EXCEPT ![stream[c]] = @ + 1] ELSE leaked

\* Mutant: the client's sources are forgotten.
MarkForClosingStreams(c) == /\ At(c, "idle")
                            /\ ending' = [ending EXCEPT ![c] = TRUE]
                            /\ Detached(c)
                            /\ Goto(c, "ending")
                            /\ UNCHANGED <<dict, live, name, refs, closed, typed, owner, self,
                                           mine, src, arg, todo, fault>>

MarkForClosing(c) == /\ At(c, "idle")
                     /\ ending' = [ending EXCEPT ![c] = TRUE]
                     /\ todo' = [todo EXCEPT ![c] = {n \in Names : mine[c][n] # NULL}]
                     /\ Detached(c)
                     /\ Goto(c, "ending")
                     /\ UNCHANGED <<dict, live, name, refs, closed, typed, owner, self, mine,
                                    src, arg, fault>>

EndSource(c, n) == /\ At(c, "ending") /\ n \in todo[c]
                   /\ todo' = [todo EXCEPT ![c] = @ \ {n}]
                   /\ src' = [src EXCEPT ![c] = mine[c][n]]
                   /\ Goto(c, "mark")
                   /\ UNCHANGED <<dict, objects, mine, stream, arg, ending, fault>>

Gone(c) == /\ At(c, "ending") /\ todo[c] = {}
           /\ Goto(c, "gone")
           /\ UNCHANGED <<dict, objects, mine, stream, src, arg, ending, todo, fault>>

-----------------------------------------------------------------------------
(* Streams and lists, which hold references. *)

RAttachSource(c, n) == /\ At(c, "idle")
                       /\ dict[n] # NULL => leaked[dict[n]] < MaxLeaks
                       /\ GetByName(c, n, "attach")
                       /\ UNCHANGED <<dict, live, name, closed, typed, owner, self, leaked,
                                      mine, stream, ending, todo, fault>>

\* SVRD_Stream_attachSource refuses: the stream runs, or the source has no properties.
AttachRefused(c) ==
  /\ At(c, "attach")
  /\ Unref(src[c])
  /\ Reply(c)   \* INVALIDSTATE
  /\ UNCHANGED <<dict, live, name, closed, typed, owner, self, leaked, mine, stream, ending,
                 todo, fault>>

\* It has no lock.  A stream that has a source gives up its reference to it ...
Attach(c) == /\ At(c, "attach")
             /\ Goto(c, IF stream[c] = NULL THEN "assign" ELSE "replace")
             /\ UNCHANGED <<dict, objects, mine, stream, src, arg, ending, todo, fault>>

\* Mutant: the reference given up is that to the new source.
ReplaceNew(c) == /\ At(c, "replace")
                 /\ Unref(src[c])
                 /\ Goto(c, "assign")
                 /\ UNCHANGED <<dict, live, name, closed, typed, owner, self, leaked, mine,
                                stream, src, arg, ending, todo, fault>>

Replace(c) ==
  /\ At(c, "replace")
  /\ IF stream[c] = NULL
       THEN /\ fault' = TRUE   \* detached by a worker since the test
            /\ UNCHANGED <<refs, pc>>
       ELSE /\ Unref(stream[c])
            /\ Goto(c, "assign")
            /\ UNCHANGED fault
  /\ UNCHANGED <<dict, live, name, closed, typed, owner, self, leaked, mine, stream, src, arg,
                 ending, todo>>

\* ... before it takes over the one of the handler.
Assign(c) == /\ At(c, "assign")
             /\ stream' = [stream EXCEPT ![c] = src[c]]
             /\ Reply(c)   \* SUCCESS
             /\ UNCHANGED <<dict, objects, mine, ending, todo, fault>>

\* A worker detaches the client's stream, whose source closes, or which was paused and
\* started again (ServerStream has the steps of both).
Orphan(c) == /\ ~fault /\ stream[c] # NULL
             /\ Detached(c)
             /\ UNCHANGED <<dict, live, name, refs, closed, typed, owner, self, mine, pc,
                            src, arg, ending, todo, fault>>

\* SVRD_Source_rGetSourcesList looks at one source.
RListOne(c, n) == /\ At(c, "idle") /\ dict[n] # NULL
                  /\ GetByName(c, n, "listed")
                  /\ UNCHANGED <<dict, live, name, closed, typed, owner, self, leaked, mine,
                                 stream, ending, todo, fault>>

Listed(c) == /\ At(c, "listed")
             /\ Unref(src[c])
             /\ Reply(c)   \* SUCCESS
             /\ UNCHANGED <<dict, live, name, closed, typed, owner, self, leaked, mine,
                            stream, ending, todo, fault>>

\* The garbage collector runs SVRD_Source_cleanup; nothing in the block is kept.
Collect(o) == /\ ~fault /\ o \in live /\ refs[o] = 0
              /\ live'   = live \ {o}
              /\ name'   = [name EXCEPT ![o] = NULL]
              /\ closed' = [closed EXCEPT ![o] = FALSE]
              /\ typed'  = [typed EXCEPT ![o] = FALSE]
              /\ owner'  = [owner EXCEPT ![o] = Server]
              /\ leaked' = [leaked EXCEPT ![o] = 0]
              /\ UNCHANGED <<dict, refs, self, clients, fault>>

-----------------------------------------------------------------------------
Step(c) == \/ NewClient(c) \/ ProvideSource(c) \/ NewServer(c) \/ OpenFails(c) \/ SetType(c)
           \/ CloseRefused(c) \/ CloseAccepted(c) \/ Mark(c) \/ Remove(c) \/ Release(c) \/ CloseDone(c)
           \/ Gone(c) \/ AttachRefused(c) \/ Attach(c) \/ Replace(c) \/ Assign(c) \/ Listed(c)
           \/ \E n \in Names : EndSource(c, n)

Request(c) == \/ MarkForClosing(c)
              \/ \E n \in Names : \/ ROpenClient(c, n) \/ ROpenServer(c, n)
                                  \/ RClose(c, n) \/ RAttachSource(c, n) \/ RListOne(c, n)

Next == \/ \E c \in Clients : Step(c) \/ Request(c) \/ Orphan(c)
        \/ \E o \in Objects : Collect(o)

Spec == Init /\ [][Next]_vars
-----------------------------------------------------------------------------
(* Properties. *)

\* The client's handler holds a reference to its source.
Handling(c) == \/ pc[c] \in {"check", "attach", "replace", "assign", "listed"}
               \/ pc[c] \in {"mark", "remove", "release", "unref"} /\ ~ending[c]

\* The reference count of a source is exactly its own reference, those of the
\* handlers at work on it and of the streams attached to it, and the leaked ones:
\* no interleaving of opens, closes, lists and disconnections drops one twice.
RefsExact ==
  \A o \in live : refs[o] = (IF self[o] THEN 1 ELSE 0) + leaked[o]
                            + Cardinality({c \in Clients : Handling(c) /\ src[c] = o})
                            + Cardinality({c \in Clients : Attached(c) /\ stream[c] = o})

\* SVRD_Source_destroy: "ensure source is only destroyed once".  Of all who close a
\* source, at once or in turn, one removes it from the dictionary, and what that
\* one removes is this source and not a later one of the same name.
DestroyedOnce == \A c, d \in Clients :
  /\ pc[c] = "remove" => dict[name[src[c]]] = src[c]
  /\ c # d /\ {pc[c], pc[d]} \subseteq {"remove", "release"} => src[c] # src[d]

\* No thread is about to use a source that has been freed: not a handler, not a
\* stream but one whose source is being replaced, and not a client that closes the
\* sources it provides, which it holds no reference to; and whoever looks a source up
\* gets one that has that name and still has its own reference.
PointersAlive ==
  /\ \A n \in Names : dict[n] # NULL => dict[n] \in live /\ name[dict[n]] = n /\ self[dict[n]]
  /\ \A c \in Clients :
       /\ Handling(c) => src[c] \in live
       /\ pc[c] \in {"provide", "type", "mark", "remove", "release"} => src[c] \in live
       /\ Attached(c) => stream[c] \in live
       /\ ~ending[c] => \A n \in Names : mine[c][n] # NULL => mine[c][n] \in live
       /\ \A n \in todo[c] : mine[c][n] \in live

\* doc/pages/mainpage.doc.txt: "Client sources can only be closed by the client that
\* opens them".
OnlyOwnerCloses == \A c \in Clients :
  pc[c] \in {"mark", "remove", "release"} => owner[src[c]] \in {c, Server}

\* doc/pages/mainpage.doc.txt: "all sources provided by a client will be closed
\* automatically when that client disconnects".
GoneClientLeavesNoSource == \A c \in Clients : pc[c] = "gone" =>
                              \A n \in Names : dict[n] # NULL => owner[dict[n]] # c
=============================================================================
