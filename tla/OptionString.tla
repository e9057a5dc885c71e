---------------------------- MODULE OptionString ----------------------------
(***************************************************************************)
(* SVR_parseOptionString (lib/optionstring.c), which encodings and sources *)
(* are described with: an object, a colon, and options with values.  The   *)
(* parser works on a copy of the string: names and values are pointers     *)
(* into it, ended by terminators that are written over it on the way.      *)
(*                                                                         *)
(* A character stands for its class: a letter, a space, the three that     *)
(* have a meaning, and any other.  The copy is indexed from 0 and ends     *)
(* with the terminator.                                                    *)
(***************************************************************************)
EXTENDS Naturals, Sequences, SequencesExt, FiniteSetsExt

CONSTANTS Strings,   \* the strings to parse
          NULL

Char == {"a", "_", "space", "colon", "equals", "comma", "other", "end"}
Name == {"a", "_"}

VARIABLES string,      \* s
          descriptor,  \* the copy
          offset,
          at,          \* where the parser is
          identifier,  \* the option that is being read: where it starts
          name,        \* %name: where it starts, or NULL
          options,     \* the options stored: each key, and where its value starts
          result       \* NULL before the end, then "error" (at offset) or "options"

vars == <<string, descriptor, offset, at, identifier, name, options, result>>

Here(d, i) == d[i + 1]

\* The first position from i on whose character is not in the class.
Past(d, i, class) == Min({j \in i .. Len(d) - 1 : Here(d, j) \notin class})

\* consume_whitespace
PastSpace(d, i) == Past(d, i, {"space"})

\* descriptor[end] = '\0'
Terminated(d, end) == [d EXCEPT ![end + 1] = "end"]

\* The string that a pointer into the copy is.
StringAt(d, i) == SubSeq(d, i + 1, Min({j \in i .. Len(d) - 1 : Here(d, j) = "end"}))

Init == /\ string \in Strings
        /\ descriptor = Append(string, "end")
        /\ offset = 0 /\ at = "object"
        /\ identifier = NULL /\ name = NULL /\ options = << >>
        /\ result = NULL

Fail(i) == /\ result' = "error" /\ at' = "done" /\ offset' = i
           /\ UNCHANGED <<descriptor, name, options>>

\* get_identifier and what follows it: the object name, alone or before a colon.
ReadObject ==
  LET start == PastSpace(descriptor, offset)
      end   == Past(descriptor, start, Name)
      next  == PastSpace(descriptor, end)
      c     == Here(descriptor, next)
  IN  /\ at = "object"
      /\ IF c \in {"end", "colon"}
           THEN /\ descriptor' = Terminated(descriptor, end)
                /\ name' = IF start = end THEN NULL ELSE start
                /\ offset' = IF c = "colon" THEN next + 1 ELSE next
                /\ at' = IF c = "colon" THEN "option" ELSE "done"
                /\ result' = IF c = "colon" THEN NULL ELSE "options"
                /\ UNCHANGED options
           ELSE Fail(next)
      /\ UNCHANGED <<string, identifier>>

\* The loop: at the end of the string there is nothing more ...
EndOfInput == /\ at = "option"
              /\ Here(descriptor, PastSpace(descriptor, offset)) = "end"
              /\ result' = "options" /\ at' = "done"
              /\ UNCHANGED <<string, descriptor, offset, identifier, name, options>>

\* ... and else an option and an equals sign ...
ReadOption ==
  LET start == PastSpace(descriptor, offset)
      end   == Past(descriptor, start, Name)
      next  == PastSpace(descriptor, end)
  IN  /\ at = "option" /\ Here(descriptor, start) # "end"
      /\ IF start # end /\ Here(descriptor, next) = "equals"
           THEN /\ identifier' = start
                /\ descriptor' = Terminated(descriptor, end)
                /\ offset' = next + 1
                /\ at' = "value"
                /\ UNCHANGED <<name, options, result>>
           ELSE Fail(next) /\ UNCHANGED identifier
      /\ UNCHANGED string

\* Mutant: a comma at the end is accepted.
MoreAny(d, next) == TRUE

\* There is something after the comma.
More(d, next) == Here(d, PastSpace(d, next + 1)) # "end"

\* ... and a value, up to a comma or the end, which is terminated and stored.
ReadValue ==
  LET start == PastSpace(descriptor, offset)
      end   == Past(descriptor, start, Char \ {"comma", "end"})
      last  == Here(descriptor, end) = "end"
      d     == Terminated(descriptor, end)
  IN  /\ at = "value"
      /\ IF start # end /\ (last \/ More(descriptor, end))
           THEN /\ descriptor' = d
                /\ options' = Append(options, [key |-> StringAt(d, identifier), value |-> start])
                /\ offset' = IF last THEN end ELSE PastSpace(descriptor, end + 1)
                /\ at' = IF last THEN "done" ELSE "option"
                /\ result' = IF last THEN "options" ELSE NULL
                /\ UNCHANGED name
           ELSE Fail(IF start = end THEN end ELSE PastSpace(descriptor, end + 1))
      /\ UNCHANGED <<string, identifier>>

Next == ReadObject \/ EndOfInput \/ ReadOption \/ ReadValue

-----------------------------------------------------------------------------
(* The documented form of a string s, <object>:<option>=<value>,<option>=<value>,..., by
   splitting it at the colon, at the commas after it and at the equals signs between
   those.  Only the object is required; object and options are names; values have the
   spaces at both ends removed. *)

\* The first c in i .. j; one past j if there is none.
First(s, i, j, c) == Min({k \in i .. j : s[k] = c} \cup {j + 1})

\* What is left of i .. j without the spaces at both ends.
Text(s, i, j)     == {k \in i .. j : s[k] # "space"}
Stripped(s, i, j) == IF Text(s, i, j) = {} THEN << >>
                     ELSE SubSeq(s, Min(Text(s, i, j)), Max(Text(s, i, j)))
IsName(t)         == t # << >> /\ Range(t) \subseteq Name

Colon(s)  == First(s, 1, Len(s), "colon")
Object(s) == Stripped(s, 1, Colon(s) - 1)

\* The commas after the colon, up to j; the k-th of them, or the end.
Commas(s, j) == {i \in Colon(s) + 1 .. j : s[i] = "comma"}
Comma(s, k)  == IF k = 0 THEN Colon(s)
                ELSE Min({i \in Commas(s, Len(s)) : Cardinality(Commas(s, i)) = k} \cup {Len(s) + 1})

\* The options given, one before each comma and one after the last.
Given(s)     == IF Text(s, Colon(s) + 1, Len(s)) = {} THEN {}
                ELSE 1 .. Cardinality(Commas(s, Len(s))) + 1
Equals(s, k) == First(s, Comma(s, k - 1) + 1, Comma(s, k) - 1, "equals")
Key(s, k)    == Stripped(s, Comma(s, k - 1) + 1, Equals(s, k) - 1)
Value(s, k)  == Stripped(s, Equals(s, k) + 1, Comma(s, k) - 1)

OptionsFormed(s) == \A k \in Given(s) : IsName(Key(s, k)) /\ Value(s, k) # << >>
WellFormed(s)    == IsName(Object(s)) /\ OptionsFormed(s)

\* t is v with nothing but spaces after it.
IsPadded(t, v) == /\ Len(v) <= Len(t) /\ SubSeq(t, 1, Len(v)) = v
                  /\ \A i \in Len(v) + 1 .. Len(t) : t[i] = "space"

\* Every string of the documented form is accepted, and one that is accepted is of this
\* form but for its object, which may be missing (%name is NULL then).  The pointers in
\* the dictionary are to the object and the values of that form, whatever spaces there
\* are and whatever terminators were written; but values keep the spaces after them.
ParsesGrammar ==
  at = "done" =>
    /\ WellFormed(string) => result = "options"
    /\ result = "options" =>
         /\ OptionsFormed(string)
         /\ IF name = NULL THEN Object(string) = << >>
            ELSE IsName(Object(string)) /\ StringAt(descriptor, name) = Object(string)
         /\ [k \in DOMAIN options |-> options[k].key] = [k \in Given(string) |-> Key(string, k)]
         /\ \A k \in Given(string) :
              IsPadded(StringAt(descriptor, options[k].value), Value(string, k))
=============================================================================
