------------------------------- MODULE Routing -------------------------------
(***************************************************************************)
(* How a message finds its handler: SVR_findRequestMapping and             *)
(* SVRD_findRequestMapping (lib and server/messagerouting.c), one          *)
(* algorithm.  The table of request strings was sorted at start-up; the    *)
(* search narrows it from both ends, a character at a time.  A string is a *)
(* sequence of positive numbers, and 0 is read past its end.               *)
(***************************************************************************)
EXTENDS Naturals, Sequences, SequencesExt

CONSTANTS RequestStrings,   \* the request strings that tables may hold
          Requests,         \* the first components that messages may have
          MaxTable,         \* bound: entries of a table
          NULL

\* strcmp(s, t) < 0
Before(s, t) == \E i \in 0 .. Len(s) : /\ i < Len(t)
                                       /\ SubSeq(s, 1, i) = SubSeq(t, 1, i)
                                       /\ i = Len(s) \/ s[i + 1] < t[i + 1]

\* SVR_MessageRouter_init: the tables as qsort leaves them.
Sorted(table) == \A i, j \in DOMAIN table : i < j => Before(table[i], table[j])
Tables == {t \in UNION {[1 .. n -> RequestStrings] : n \in 1 .. MaxTable} : Sorted(t)}

VARIABLES request_types,   \* the table, indexed from 1
          request_string,
          lower, upper, sindex,
          step,            \* the loop that runs, "lower" or "upper"; "next", or "done"
          found            \* the index of the mapping, or NULL

vars == <<request_types, request_string, lower, upper, sindex, step, found>>

Init == /\ request_types \in Tables
        /\ request_string \in Requests
        /\ lower = 1 /\ upper = Len(request_types) /\ sindex = 0
        /\ step = "lower" /\ found = NULL

CharOf(s)     == IF sindex < Len(s) THEN s[sindex + 1] ELSE 0
EntryChar(i)  == CharOf(request_types[i])
RequestChar   == CharOf(request_string)

\* One round of the first inner loop, or its end.
Raise == /\ step = "lower"
         /\ IF EntryChar(lower) < RequestChar
              THEN /\ lower' = lower + 1
                   /\ step' = IF lower' > upper THEN "done" ELSE "lower"
              ELSE step' = "upper" /\ UNCHANGED lower
         /\ UNCHANGED <<request_types, request_string, upper, sindex, found>>

\* Mutant: the upper end is left alone.
LowerNever == /\ step = "upper"
              /\ step' = "next"
              /\ UNCHANGED <<request_types, request_string, lower, upper, sindex, found>>

\* One round of the second, or its end.
Lower == /\ step = "upper"
         /\ IF EntryChar(upper) > RequestChar
              THEN /\ upper' = upper - 1
                   /\ step' = IF lower > upper' THEN "done" ELSE "upper"
              ELSE step' = "next" /\ UNCHANGED upper
         /\ UNCHANGED <<request_types, request_string, lower, sindex, found>>

\* The string is at its end, or the next character is compared.
Advance == /\ step = "next"
           /\ IF RequestChar = 0
                THEN found' = lower /\ step' = "done" /\ UNCHANGED sindex
                ELSE sindex' = sindex + 1 /\ step' = "lower" /\ UNCHANGED found
           /\ UNCHANGED <<request_types, request_string, lower, upper>>

Next == Raise \/ Lower \/ Advance

-----------------------------------------------------------------------------
\* The search reads the table only where it has entries and the request only up to its
\* terminator, and where it ends it has found the mapping of the request string itself, not
\* one that it is a prefix of or that is a prefix of it, or there is none.
FindsHandler ==
  /\ step # "done" => 1 <= lower /\ lower <= upper /\ upper <= Len(request_types)
  /\ sindex <= Len(request_string)
  /\ step = "done" => IF found = NULL THEN ~Contains(request_types, request_string)
                      ELSE request_types[found] = request_string
=============================================================================
