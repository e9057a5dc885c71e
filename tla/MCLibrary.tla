------------------------------ MODULE MCLibrary ------------------------------
EXTENDS Library, SequencesExt

MCChar == {"a", "space", "colon", "equals", "comma", "other"}

\* All short strings ...
ShortStrings == SeqOf(MCChar, 5)

\* ... and what one or two insertions or replacements make of one with two options.
TwoOptions == <<"a", "colon", "a", "equals", "_", "comma", "_", "equals", "a">>
Edits(s)   == {[s EXCEPT ![i] = c] : i \in DOMAIN s, c \in MCChar}
              \cup {SubSeq(s, 1, i) \o <<c>> \o SubSeq(s, i + 1, Len(s)) : i \in 0 .. Len(s), c \in MCChar}

MCStrings == ShortStrings \cup UNION {Edits(s) : s \in Edits(TwoOptions)}

MCRequestStrings == SeqOf({1, 2}, 2) \ {<< >>}
MCRequests       == SeqOf({1, 2, 3}, 3)
=============================================================================
