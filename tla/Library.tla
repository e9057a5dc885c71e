------------------------------- MODULE Library -------------------------------
(***************************************************************************)
(* Three parts of the library that do not interact: the memory of          *)
(* messages, the parser of option strings and the search for a handler.    *)
(* A behaviour is one of one of them, with the others at rest.             *)
(***************************************************************************)
EXTENDS Naturals, Sequences, FiniteSetsExt

CONSTANTS Arenas, Sizes, BlockSize, GrowSize, Alignment, MaxChunks,
          Strings, RequestStrings, Requests, MaxTable, NULL

\* The characters of a request string are not 0.
ASSUME LibraryAssumption ==
  /\ {GrowSize, Alignment} \subseteq Nat \ {0}
  /\ {BlockSize, MaxChunks, MaxTable} \cup Sizes \subseteq Nat
  /\ RequestStrings \cup Requests \subseteq Seq(Nat \ {0})
  /\ NULL \notin Nat

VARIABLES part,
          chain, blocks, made, reserved, freeing,
          string, descriptor, offset, at, identifier, name, options, result,
          request_types, request_string, lower, upper, sindex, step, found

A == INSTANCE Arena
O == INSTANCE OptionString
R == INSTANCE Routing

\* The strings that are parsed end where their terminator is.
ASSUME StringsAssumption == Strings \subseteq Seq(O!Char \ {"end"})

arena   == <<chain, blocks, made, reserved, freeing>>
parser  == <<string, descriptor, offset, at, identifier, name, options, result>>
routing == <<request_types, request_string, lower, upper, sindex, step, found>>
vars    == <<part, arena, parser, routing>>

NoParser  == /\ string = NULL /\ descriptor = NULL /\ offset = 0 /\ at = "rest"
             /\ identifier = NULL /\ name = NULL /\ options = NULL /\ result = NULL
NoRouting == /\ request_types = NULL /\ request_string = NULL
             /\ lower = 0 /\ upper = 0 /\ sindex = 0 /\ step = "rest" /\ found = NULL

Init == \/ part = "arena"   /\ A!Init /\ NoParser /\ NoRouting
        \/ part = "options" /\ O!Init /\ A!Init /\ NoRouting
        \/ part = "routing" /\ R!Init /\ A!Init /\ NoParser

Next == \/ part = "arena"   /\ A!Next /\ UNCHANGED <<part, parser, routing>>
        \/ part = "options" /\ O!Next /\ UNCHANGED <<part, arena, routing>>
        \/ part = "routing" /\ R!Next /\ UNCHANGED <<part, arena, parser>>

Spec == Init /\ [][Next]_vars
-----------------------------------------------------------------------------
\* lib/mempool.c, lib/blockalloc.c: no two messages, and no two parts of a message,
\* share memory, and no block is lost, however arenas are filled and freed.
MemoryApart == A!MemoryApart

\* lib/optionstring.c: the parser accepts every string of the documented form, and else
\* those without an object, and returns the object, the options and the values they have,
\* but with the spaces after a value.
ParsesGrammar == part = "options" => O!ParsesGrammar

\* messagerouting.c: the search stays within the table, and ends at the handler of exactly
\* the request string, or at none if there is none.
FindsHandler == part = "routing" => R!FindsHandler
=============================================================================
