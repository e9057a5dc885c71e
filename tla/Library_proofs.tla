---------------------------- MODULE Library_proofs ----------------------------
(***************************************************************************)
(* Proofs about Library: the search for a handler finds it in any sorted   *)
(* table, the memory of messages is never shared, for any number of arenas *)
(* and any sizes, and the parser of option strings does what is documented *)
(* but for the object and the spaces at the end, whatever their length.    *)
(***************************************************************************)
EXTENDS Library, Integers, SequencesExt, SequenceTheorems, FiniteSetTheorems, FunctionTheorems,
        WellFoundedInduction, TLAPS

String == Seq(Nat \ {0})

(* Two strings agree on the first n characters; the character after them. *)
Agree(s, r, n) == n <= Len(s) /\ n <= Len(r) /\ \A j \in 1 .. n : s[j] = r[j]
CharAt(s, n)   == IF n < Len(s) THEN s[n + 1] ELSE 0

(* The entries between the ends agree with the request on the characters that were compared;
   no other entry is the request. *)
SearchTypes ==
  /\ request_types \in Seq(String) /\ R!Sorted(request_types) /\ request_string \in String
  /\ lower \in Nat \ {0} /\ upper \in 0 .. Len(request_types) /\ sindex \in Nat
  /\ step \in {"lower", "upper", "next", "done"} /\ found \in Nat \cup {NULL}
SearchRange ==
  /\ sindex <= Len(request_string)
  /\ step # "done" => lower <= upper /\ found = NULL
  /\ step = "done" => IF found = NULL THEN upper < lower
                      ELSE found \in 1 .. Len(request_types) /\ request_types[found] = request_string
SearchEntries ==
  /\ \A i \in 1 .. Len(request_types) : ~(lower <= i /\ i <= upper) => request_types[i] # request_string
  /\ \A i \in lower .. upper : Agree(request_types[i], request_string, sindex)
  /\ step = "upper" => \A i \in lower .. upper :
       CharAt(request_types[i], sindex) >= CharAt(request_string, sindex)
  /\ step = "next" => \A i \in lower .. upper :
       CharAt(request_types[i], sindex) = CharAt(request_string, sindex)

SearchOK == SearchTypes /\ SearchRange /\ SearchEntries

Chunk       == [base : Nat, descriptor : Nat, size : Nat, write_index : Nat]
Reservation == [chunk : Nat, first : Nat, size : Nat]

ArenaTypes == /\ chain \in [Arenas -> Seq(Chunk)] /\ reserved \in [Arenas -> Seq(Reservation)]
              /\ blocks \in [A!Allocator -> Seq(Nat)] /\ made \in [A!Allocator -> Nat]

(* What a chunk has of an allocator: the descriptor, and the block unless it is external. *)
Part(p, chunk) == IF p = "chunk" THEN chunk.base ELSE chunk.descriptor

(* Of the blocks 1 .. m of an allocator with the free blocks s, each is free or in a chunk of
   the chains C, and nowhere else: the free ones are blocks, and different ones; those of
   chunks are blocks, and not free; two chunks have different ones; and none is missing. *)
FreeBlocks(s, m) == \A i \in 1 .. Len(s) : s[i] \in 1 .. m
FreeOnce(s)      == \A i, j \in 1 .. Len(s) : s[i] = s[j] => i = j
HeldNotFree(s, m, C, p) == \A a \in Arenas : \A i \in 1 .. Len(C[a]) :
  /\ Part(p, C[a][i]) \in 0 .. m
  /\ p = "descriptor" => Part(p, C[a][i]) # 0
  /\ \A j \in 1 .. Len(s) : s[j] # Part(p, C[a][i])
HeldOnce(C, p) == \A a, c \in Arenas : \A i \in 1 .. Len(C[a]), j \in 1 .. Len(C[c]) :
  Part(p, C[a][i]) = Part(p, C[c][j]) /\ Part(p, C[a][i]) # 0 => a = c /\ i = j
FreeOrHeld(s, m, C, p) == \A b \in 1 .. m :
  \/ \E i \in 1 .. Len(s) : s[i] = b
  \/ \E a \in Arenas : \E i \in 1 .. Len(C[a]) : Part(p, C[a][i]) = b

Once(s, m, C, p) == /\ FreeBlocks(s, m) /\ FreeOnce(s)
                    /\ HeldNotFree(s, m, C, p) /\ HeldOnce(C, p) /\ FreeOrHeld(s, m, C, p)

BlocksOK == \A p \in A!Allocator : Once(blocks[p], made[p], chain, p)

(* A chunk is used up to a boundary within it; an external one is full. *)
ChunkOK(chunk) == /\ chunk.write_index <= chunk.size
                  /\ chunk.write_index % Alignment = 0
                  /\ chunk.size = BlockSize \/ BlockSize < chunk.write_index

(* What is reserved lies in the used part of its chunk, after what was reserved there before. *)
ReservedOK(c, v) ==
  \A i \in 1 .. Len(v) :
    /\ v[i].chunk \in 1 .. Len(c) /\ v[i].first % Alignment = 0
    /\ v[i].first + v[i].size <= c[v[i].chunk].write_index
    /\ \A j \in 1 .. i - 1 : v[j].chunk = v[i].chunk => v[j].first + v[j].size <= v[i].first

SpaceOK == \A a \in Arenas : /\ \A i \in 1 .. Len(chain[a]) : ChunkOK(chain[a][i])
                             /\ ReservedOK(chain[a], reserved[a])

ArenaOK == ArenaTypes /\ BlocksOK /\ SpaceOK
-----------------------------------------------------------------------------
(* The search for a handler. *)

(* A character of a string, or its terminator. *)
LEMMA CharFacts ==
  ASSUME NEW s \in String, NEW n \in Nat
  PROVE  /\ CharAt(s, n) \in Nat
         /\ CharAt(s, n) = 0 <=> Len(s) <= n
         /\ n < Len(s) => n + 1 \in 1 .. Len(s) /\ CharAt(s, n) = s[n + 1]
  <1>1. PICK k \in Nat : k = Len(s)
    BY LenProperties DEF String
  <1>2. n < k => n + 1 \in 1 .. k
    OBVIOUS
  <1>3. n < k => s[n + 1] \in Nat \ {0}
    BY <1>1, <1>2, ElementOfSeq DEF String
  <1>4. CASE n < k
    <2>1. CharAt(s, n) = s[n + 1]
      BY <1>1, <1>4 DEF CharAt
    <2> QED
      BY <1>1, <1>2, <1>3, <1>4, <2>1
  <1>5. CASE ~(n < k)
    <2>1. CharAt(s, n) = 0
      BY <1>1, <1>5 DEF CharAt
    <2> QED
      BY <1>1, <1>5, <2>1
  <1> QED
    BY <1>4, <1>5

(* strcmp orders strings by the first character in which they differ. *)
LEMMA SortedChars ==
  ASSUME NEW s \in String, NEW u \in String, NEW n \in Nat, n <= Len(s), n <= Len(u),
         \A j \in 1 .. n : s[j] = u[j], R!Before(s, u)
  PROVE  CharAt(s, n) <= CharAt(u, n)
  <1>1. PICK p \in Nat : p = Len(s)
    BY LenProperties DEF String
  <1>2. PICK q \in Nat : q = Len(u)
    BY LenProperties DEF String
  <1>3. PICK i \in 0 .. p : /\ i < q /\ SubSeq(s, 1, i) = SubSeq(u, 1, i)
                            /\ i = p \/ s[i + 1] < u[i + 1]
    BY <1>1, <1>2 DEF R!Before
  <1>4. i \in Nat /\ i <= p
    OBVIOUS
  <1>5. CharAt(s, n) \in Nat /\ CharAt(u, n) \in Nat
    BY CharFacts
  <1>6. CASE i < n
    <2>1. i + 1 \in 1 .. n /\ i + 1 \in 1 .. p /\ i # p
      BY <1>1, <1>4, <1>6
    <2>2. s[i + 1] = u[i + 1] /\ s[i + 1] \in Nat
      BY <1>1, <2>1, ElementOfSeq DEF String
    <2> QED
      BY <1>3, <2>1, <2>2
  <1>7. CASE i = n
    <2>1. CASE i = p
      <3>1. CharAt(s, n) = 0
        BY <1>1, <1>7, <2>1 DEF CharAt
      <3> QED
        BY <1>5, <3>1
    <2>2. CASE i # p
      <3>1. n < p /\ n < q
        BY <1>3, <1>4, <1>7, <2>2
      <3>2. CharAt(s, n) = s[n + 1] /\ CharAt(u, n) = u[n + 1]
        BY <1>1, <1>2, <3>1 DEF CharAt
      <3>3. s[n + 1] < u[n + 1]
        BY <1>3, <1>7, <2>2
      <3> QED
        BY <1>5, <3>2, <3>3
    <2> QED
      BY <2>1, <2>2
  <1>8. CASE n < i
    <2>1. n < p /\ n < q /\ n + 1 \in 1 .. i
      BY <1>3, <1>4, <1>8
    <2>2. \A j \in 1 .. i : /\ j \in 1 .. p /\ j \in 1 .. q
                            /\ s[j] \in Nat \ {0} /\ u[j] \in Nat \ {0}
      <3>1. \A j \in 1 .. i : j \in 1 .. p /\ j \in 1 .. q
        BY <1>3, <1>4
      <3> QED
        BY <1>1, <1>2, <3>1, ElementOfSeq DEF String
    <2>3. 1 + (n + 1) - 1 = n + 1 /\ n + 1 \in 1 .. i - 1 + 1
      BY <1>4, <2>1
    <2>4. SubSeq(s, 1, i)[n + 1] = s[1 + (n + 1) - 1]
      <3>1. \A j \in 1 .. i - 1 + 1 : SubSeq(s, 1, i)[j] = s[1 + j - 1]
        BY <1>4, <2>2, SubSeqProperties DEF String
      <3> QED
        BY <2>3, <3>1
    <2>5. SubSeq(u, 1, i)[n + 1] = u[1 + (n + 1) - 1]
      <3>1. \A j \in 1 .. i - 1 + 1 : SubSeq(u, 1, i)[j] = u[1 + j - 1]
        BY <1>4, <2>2, SubSeqProperties DEF String
      <3> QED
        BY <2>3, <3>1
    <2>6. s[n + 1] = u[n + 1]
      BY <1>3, <2>3, <2>4, <2>5
    <2>7. CharAt(s, n) = s[n + 1] /\ CharAt(u, n) = u[n + 1]
      BY <1>1, <1>2, <2>1 DEF CharAt
    <2> QED
      BY <1>5, <2>6, <2>7
  <1> QED
    BY <1>4, <1>6, <1>7, <1>8

(* Of the entries between the ends, a later one has no smaller character. *)
LEMMA CharsSorted ==
  ASSUME SearchOK, NEW i \in lower .. upper, NEW j \in lower .. upper, i <= j
  PROVE  /\ request_types[i] \in String /\ request_types[j] \in String
         /\ CharAt(request_types[i], sindex) \in Nat /\ CharAt(request_types[j], sindex) \in Nat
         /\ CharAt(request_types[i], sindex) <= CharAt(request_types[j], sindex)
  <1>1. /\ request_types \in Seq(String) /\ R!Sorted(request_types) /\ request_string \in String
        /\ lower \in Nat \ {0} /\ upper \in 0 .. Len(request_types) /\ sindex \in Nat
    BY DEF SearchOK, SearchTypes
  <1>2. PICK n \in Nat : n = Len(request_types)
    BY <1>1, LenProperties
  <1>3. i \in 1 .. n /\ j \in 1 .. n
    <2>1. upper \in Nat /\ upper <= n
      BY <1>1, <1>2
    <2> QED
      BY <1>1, <2>1
  <1>4. PICK s \in String : s = request_types[i]
    BY <1>1, <1>2, <1>3, ElementOfSeq
  <1>5. PICK u \in String : u = request_types[j]
    BY <1>1, <1>2, <1>3, ElementOfSeq
  <1>6. PICK k \in Nat : k = sindex
    BY <1>1
  <1>7. CharAt(s, k) \in Nat /\ CharAt(u, k) \in Nat
    BY CharFacts
  <1>8. CharAt(s, k) <= CharAt(u, k)
    <2>1. CASE i = j
      BY <1>4, <1>5, <1>7, <2>1
    <2>2. CASE i # j
      <3>1. i < j /\ i \in DOMAIN request_types /\ j \in DOMAIN request_types
        BY <1>1, <1>2, <1>3, <2>2, LenProperties
      <3>2. R!Before(s, u)
        BY <1>1, <1>4, <1>5, <3>1 DEF R!Sorted
      <3>3. Agree(s, request_string, k) /\ Agree(u, request_string, k)
        BY <1>4, <1>5, <1>6 DEF SearchOK, SearchEntries
      <3>4. k <= Len(s) /\ k <= Len(u) /\ \A m \in 1 .. k : s[m] = u[m]
        BY <3>3 DEF Agree
      <3> QED
        BY <3>2, <3>4, SortedChars
    <2> QED
      BY <2>1, <2>2
  <1> QED
    BY <1>4, <1>5, <1>6, <1>7, <1>8

(* What the search is about, in every step. *)
LEMMA SearchFacts ==
  ASSUME SearchOK
  PROVE  /\ Len(request_types) \in Nat /\ lower \in Nat \ {0} /\ upper \in Nat /\ sindex \in Nat
         /\ upper <= Len(request_types) /\ request_string \in String
         /\ CharAt(request_string, sindex) \in Nat
         /\ \A i \in lower .. upper : /\ i \in 1 .. Len(request_types)
                                      /\ request_types[i] \in String
                                      /\ CharAt(request_types[i], sindex) \in Nat
         /\ \A i : R!EntryChar(i) = CharAt(request_types[i], sindex)
         /\ R!RequestChar = CharAt(request_string, sindex)
  <1>1. /\ request_types \in Seq(String) /\ request_string \in String
        /\ lower \in Nat \ {0} /\ upper \in 0 .. Len(request_types) /\ sindex \in Nat
    BY DEF SearchOK, SearchTypes
  <1>2. PICK n \in Nat : n = Len(request_types)
    BY <1>1, LenProperties
  <1>3. upper \in Nat /\ upper <= n
    BY <1>1, <1>2
  <1>4. \A i \in lower .. upper : i \in 1 .. n
    BY <1>1, <1>3
  <1>5. \A i \in lower .. upper : request_types[i] \in String
    BY <1>1, <1>2, <1>4, ElementOfSeq
  <1>6. \A i \in lower .. upper : CharAt(request_types[i], sindex) \in Nat
    BY <1>1, <1>5, CharFacts
  <1>7. CharAt(request_string, sindex) \in Nat
    BY <1>1, CharFacts
  <1>8. /\ \A i : R!EntryChar(i) = CharAt(request_types[i], sindex)
        /\ R!RequestChar = CharAt(request_string, sindex)
    BY DEF R!EntryChar, R!RequestChar, R!CharOf, CharAt
  <1> QED
    BY <1>1, <1>2, <1>3, <1>4, <1>5, <1>6, <1>7, <1>8

(* The lower end is raised past an entry that is smaller than the request, or rests where
   none is. *)
LEMMA RaiseKeeps ==
  ASSUME SearchOK, R!Raise
  PROVE  SearchOK'
  <1>1. /\ step = "lower"
        /\ UNCHANGED <<request_types, request_string, upper, sindex, found>>
    BY DEF R!Raise
  <1>2. SearchTypes /\ SearchRange /\ SearchEntries
    BY DEF SearchOK
  <1>3. lower <= upper /\ found = NULL /\ lower \in lower .. upper
    BY <1>1, <1>2, SearchFacts DEF SearchRange
  <1>4. CASE R!EntryChar(lower) < R!RequestChar
    <2>1. lower' = lower + 1 /\ step' = (IF lower' > upper THEN "done" ELSE "lower")
      BY <1>4 DEF R!Raise
    <2>2. lower' \in Nat \ {0} /\ step' \in {"lower", "done"}
      BY <2>1, SearchFacts
    <2>3. step' = "done" <=> upper < lower'
      BY <2>1, SearchFacts
    <2>4. request_types[lower] # request_string
      <3>1. CharAt(request_types[lower], sindex) < CharAt(request_string, sindex)
        BY <1>4, SearchFacts
      <3>2. CharAt(request_string, sindex) \in Nat
        BY SearchFacts
      <3> QED
        BY <3>1, <3>2
    <2>5. SearchTypes'
      BY <1>1, <1>2, <2>2 DEF SearchTypes
    <2>6. SearchRange'
      <3>1. upper \in Nat /\ lower' \in Nat
        BY <2>2, SearchFacts
      <3> QED
        BY <1>1, <1>2, <1>3, <2>3, <3>1 DEF SearchRange
    <2>7. SearchEntries'
      <3>1. ASSUME NEW i \in 1 .. Len(request_types), ~(lower + 1 <= i /\ i <= upper)
            PROVE  request_types[i] # request_string
        <4>1. i = lower \/ ~(lower <= i /\ i <= upper)
          BY <3>1, SearchFacts
        <4> QED
          BY <1>2, <2>4, <4>1 DEF SearchEntries
      <3>2. \A i \in lower + 1 .. upper : i \in lower .. upper
        BY SearchFacts
      <3> QED
        BY <1>1, <1>2, <2>1, <2>2, <3>1, <3>2 DEF SearchEntries
    <2> QED
      BY <2>5, <2>6, <2>7 DEF SearchOK
  <1>5. CASE ~(R!EntryChar(lower) < R!RequestChar)
    <2>1. step' = "upper" /\ lower' = lower
      BY <1>5 DEF R!Raise
    <2>2. ASSUME NEW i \in lower .. upper
          PROVE  CharAt(request_types[i], sindex) >= CharAt(request_string, sindex)
      <3>1. lower <= i
        BY SearchFacts
      <3>2. /\ CharAt(request_types[lower], sindex) <= CharAt(request_types[i], sindex)
            /\ CharAt(request_types[lower], sindex) \in Nat
            /\ CharAt(request_types[i], sindex) \in Nat
        BY <1>3, <3>1, CharsSorted
      <3>3. /\ ~(CharAt(request_types[lower], sindex) < CharAt(request_string, sindex))
            /\ CharAt(request_string, sindex) \in Nat
        BY <1>5, SearchFacts
      <3> QED
        BY <3>2, <3>3
    <2>3. SearchTypes'
      BY <1>1, <1>2, <2>1 DEF SearchTypes
    <2>4. SearchRange'
      BY <1>1, <1>2, <1>3, <2>1 DEF SearchRange
    <2>5. SearchEntries'
      BY <1>1, <1>2, <2>1, <2>2 DEF SearchEntries
    <2> QED
      BY <2>3, <2>4, <2>5 DEF SearchOK
  <1> QED
    BY <1>4, <1>5

(* So is the upper end lowered; then every entry has the request's character. *)
LEMMA LowerKeeps ==
  ASSUME SearchOK, R!Lower
  PROVE  SearchOK'
  <1>1. /\ step = "upper"
        /\ UNCHANGED <<request_types, request_string, lower, sindex, found>>
    BY DEF R!Lower
  <1>2. SearchTypes /\ SearchRange /\ SearchEntries
    BY DEF SearchOK
  <1>3. lower <= upper /\ found = NULL /\ upper \in lower .. upper
    BY <1>1, <1>2, SearchFacts DEF SearchRange
  <1>4. CASE R!EntryChar(upper) > R!RequestChar
    <2>1. upper' = upper - 1 /\ step' = (IF lower > upper' THEN "done" ELSE "upper")
      BY <1>4 DEF R!Lower
    <2>2. upper' \in 0 .. Len(request_types) /\ upper' \in Nat /\ step' \in {"upper", "done"}
      BY <1>3, <2>1, SearchFacts
    <2>3. step' = "done" <=> upper' < lower
      BY <2>1, <2>2, SearchFacts
    <2>4. request_types[upper] # request_string
      <3>1. CharAt(request_types[upper], sindex) > CharAt(request_string, sindex)
        BY <1>4, SearchFacts
      <3>2. CharAt(request_string, sindex) \in Nat
        BY SearchFacts
      <3> QED
        BY <3>1, <3>2
    <2>5. SearchTypes'
      BY <1>1, <1>2, <2>2 DEF SearchTypes
    <2>6. SearchRange'
      <3>1. upper' \in Nat /\ lower \in Nat
        BY <2>2, SearchFacts
      <3> QED
        BY <1>1, <1>2, <1>3, <2>3, <3>1 DEF SearchRange
    <2>7. SearchEntries'
      <3>1. ASSUME NEW i \in 1 .. Len(request_types), ~(lower <= i /\ i <= upper - 1)
            PROVE  request_types[i] # request_string
        <4>1. i = upper \/ ~(lower <= i /\ i <= upper)
          BY <3>1, SearchFacts
        <4> QED
          BY <1>2, <2>4, <4>1 DEF SearchEntries
      <3>2. \A i \in lower .. upper - 1 : i \in lower .. upper
        BY SearchFacts
      <3> QED
        BY <1>1, <1>2, <2>1, <2>2, <3>1, <3>2 DEF SearchEntries
    <2> QED
      BY <2>5, <2>6, <2>7 DEF SearchOK
  <1>5. CASE ~(R!EntryChar(upper) > R!RequestChar)
    <2>1. step' = "next" /\ upper' = upper
      BY <1>5 DEF R!Lower
    <2>2. ASSUME NEW i \in lower .. upper
          PROVE  CharAt(request_types[i], sindex) = CharAt(request_string, sindex)
      <3>1. i <= upper
        BY SearchFacts
      <3>2. /\ CharAt(request_types[i], sindex) <= CharAt(request_types[upper], sindex)
            /\ CharAt(request_types[upper], sindex) \in Nat
            /\ CharAt(request_types[i], sindex) \in Nat
        BY <1>3, <3>1, CharsSorted
      <3>3. /\ ~(CharAt(request_types[upper], sindex) > CharAt(request_string, sindex))
            /\ CharAt(request_string, sindex) \in Nat
        BY <1>5, SearchFacts
      <3>4. CharAt(request_types[i], sindex) >= CharAt(request_string, sindex)
        BY <1>1, <1>2 DEF SearchEntries
      <3> QED
        BY <3>2, <3>3, <3>4
    <2>3. SearchTypes'
      BY <1>1, <1>2, <2>1 DEF SearchTypes
    <2>4. SearchRange'
      BY <1>1, <1>2, <1>3, <2>1 DEF SearchRange
    <2>5. SearchEntries'
      BY <1>1, <1>2, <2>1, <2>2 DEF SearchEntries
    <2> QED
      BY <2>3, <2>4, <2>5 DEF SearchOK
  <1> QED
    BY <1>4, <1>5

(* At the end of the request the entry is the request; before it, one more character agrees. *)
LEMMA AdvanceKeeps ==
  ASSUME SearchOK, R!Advance
  PROVE  SearchOK'
  <1>1. step = "next" /\ UNCHANGED <<request_types, request_string, lower, upper>>
    BY DEF R!Advance
  <1>2. SearchTypes /\ SearchRange /\ SearchEntries
    BY DEF SearchOK
  <1>3. lower <= upper /\ found = NULL /\ lower \in lower .. upper
    BY <1>1, <1>2, SearchFacts DEF SearchRange
  <1>4. PICK r \in String : r = request_string
    BY SearchFacts
  <1>5. PICK k \in Nat : k = sindex
    BY SearchFacts
  <1>6. \A i \in lower .. upper : CharAt(request_types[i], k) = CharAt(r, k)
    BY <1>1, <1>2, <1>4, <1>5 DEF SearchEntries
  <1>7. \A i \in lower .. upper : Agree(request_types[i], r, k) /\ request_types[i] \in String
    BY <1>2, <1>4, <1>5, SearchFacts DEF SearchEntries
  <1>8. PICK n \in Nat : n = Len(r)
    BY LenProperties DEF String
  <1>9. k <= n
    BY <1>2, <1>4, <1>5, <1>8 DEF SearchRange
  <1>10. CASE R!RequestChar = 0
    <2>1. found' = lower /\ step' = "done" /\ sindex' = sindex
      BY <1>10 DEF R!Advance
    <2>2. CharAt(r, k) = 0
      BY <1>4, <1>5, <1>10, SearchFacts
    <2>3. k = n
      BY <1>8, <1>9, <2>2, CharFacts
    <2>4. PICK s \in String : s = request_types[lower]
      BY <1>3, <1>7
    <2>5. CharAt(s, k) = 0 /\ Agree(s, r, k)
      BY <1>3, <1>6, <1>7, <2>2, <2>4
    <2>6. Len(s) <= k
      BY <2>5, CharFacts
    <2>7. Len(s) = n /\ \A j \in 1 .. n : s[j] = r[j]
      <3>1. Len(s) \in Nat
        BY LenProperties DEF String
      <3> QED
        BY <2>3, <2>5, <2>6, <3>1 DEF Agree
    <2>8. s = r
      BY <1>8, <2>7, SeqEqual DEF String
    <2>9. lower \in Nat /\ lower # NULL /\ lower \in 1 .. Len(request_types)
      BY <1>3, SearchFacts, LibraryAssumption
    <2>10. SearchTypes'
      BY <1>1, <1>2, <2>1, <2>9 DEF SearchTypes
    <2>11. SearchRange'
      BY <1>1, <1>2, <1>4, <2>1, <2>4, <2>8, <2>9 DEF SearchRange
    <2>12. SearchEntries'
      BY <1>1, <1>2, <2>1 DEF SearchEntries
    <2> QED
      BY <2>10, <2>11, <2>12 DEF SearchOK
  <1>11. CASE R!RequestChar # 0
    <2>1. sindex' = k + 1 /\ step' = "lower" /\ found' = found
      BY <1>5, <1>11 DEF R!Advance
    <2>2. CharAt(r, k) # 0
      BY <1>4, <1>5, <1>11, SearchFacts
    <2>3. k < n
      BY <1>8, <1>9, <2>2, CharFacts
    <2>4. CharAt(r, k) = r[k + 1]
      BY <1>8, <2>3, CharFacts
    <2>5. ASSUME NEW i \in lower .. upper
          PROVE  Agree(request_types[i], r, k + 1)
      <3>1. PICK s \in String : s = request_types[i]
        BY <1>7
      <3>2. CharAt(s, k) = r[k + 1] /\ CharAt(s, k) # 0 /\ Agree(s, r, k)
        BY <1>6, <1>7, <2>2, <2>4, <3>1
      <3>3. PICK m \in Nat : m = Len(s)
        BY LenProperties DEF String
      <3>4. k < m /\ s[k + 1] = r[k + 1]
        <4>1. ~(m <= k)
          BY <3>2, <3>3, CharFacts
        <4>2. k < m
          BY <4>1
        <4> QED
          BY <3>2, <3>3, <4>2, CharFacts
      <3>5. \A j \in 1 .. k + 1 : j \in 1 .. k \/ j = k + 1
        OBVIOUS
      <3>6. \A j \in 1 .. k + 1 : s[j] = r[j]
        BY <3>2, <3>4, <3>5 DEF Agree
      <3>7. k + 1 <= m /\ k + 1 <= n
        BY <2>3, <3>4
      <3> QED
        BY <1>8, <3>1, <3>3, <3>6, <3>7 DEF Agree
    <2>6. SearchTypes'
      BY <1>1, <1>2, <2>1 DEF SearchTypes
    <2>7. SearchRange'
      <3>1. k + 1 <= n
        BY <2>3
      <3> QED
        BY <1>1, <1>3, <1>4, <1>8, <2>1, <3>1 DEF SearchRange
    <2>8. SearchEntries'
      BY <1>1, <1>2, <1>4, <2>1, <2>5 DEF SearchEntries
    <2> QED
      BY <2>6, <2>7, <2>8 DEF SearchOK
  <1> QED
    BY <1>10, <1>11

(* The search begins with the whole table and no character compared. *)
LEMMA SearchStarts ==
  ASSUME R!Init
  PROVE  SearchOK
  <1>1. /\ request_types \in R!Tables /\ request_string \in Requests
        /\ lower = 1 /\ upper = Len(request_types) /\ sindex = 0
        /\ step = "lower" /\ found = NULL
    BY DEF R!Init
  <1>2. PICK n \in 1 .. MaxTable : request_types \in [1 .. n -> RequestStrings]
    BY <1>1 DEF R!Tables
  <1>3. n \in Nat \ {0}
    BY LibraryAssumption
  <1>4. RequestStrings \subseteq String /\ request_string \in String
    BY <1>1, LibraryAssumption DEF String
  <1>5. Len(request_types) = n /\ request_types \in Seq(String)
    BY <1>2, <1>3, <1>4
  <1>6. R!Sorted(request_types)
    BY <1>1 DEF R!Tables
  <1>7. SearchTypes
    BY <1>1, <1>3, <1>4, <1>5, <1>6 DEF SearchTypes
  <1>8. \A i \in 1 .. n : request_types[i] \in String
    BY <1>2, <1>4
  <1>9. \A s \in String : Len(s) \in Nat
    BY LenProperties DEF String
  <1>10. SearchRange
    BY <1>1, <1>3, <1>4, <1>5, <1>9 DEF SearchRange
  <1>11. SearchEntries
    <2>1. \A i \in 1 .. n : Agree(request_types[i], request_string, 0)
      BY <1>4, <1>8, <1>9 DEF Agree
    <2> QED
      BY <1>1, <1>5, <2>1 DEF SearchEntries
  <1> QED
    BY <1>7, <1>10, <1>11 DEF SearchOK

(* SVR_findRequestMapping and SVRD_findRequestMapping stay within the table and end at the
   entry that is the request, or at none if there is none: for sorted tables of any length and
   requests of any length. *)
THEOREM SearchFindsHandler == Spec => []FindsHandler
  <1> DEFINE I == part = "routing" => SearchOK
  <1>1. Init => I
    <2> SUFFICES ASSUME Init, part = "routing" PROVE SearchOK
      OBVIOUS
    <2>1. R!Init
      BY DEF Init
    <2> QED
      BY <2>1, SearchStarts
  <1>2. I /\ [Next]_vars => I'
    <2> SUFFICES ASSUME I, [Next]_vars, part' = "routing" PROVE SearchOK'
      OBVIOUS
    <2>1. part = "routing" /\ SearchOK
      BY DEF Next, vars
    <2>2. CASE UNCHANGED routing
      <3>1. UNCHANGED <<request_types, request_string, lower, upper, sindex, step, found>>
        BY <2>2 DEF routing
      <3>2. SearchTypes' /\ SearchRange' /\ SearchEntries'
        BY <2>1, <3>1 DEF SearchOK, SearchTypes, SearchRange, SearchEntries
      <3> QED
        BY <3>2 DEF SearchOK
    <2>3. CASE R!Next
      <3>1. CASE R!Raise
        BY <2>1, <3>1, RaiseKeeps
      <3>2. CASE R!Lower
        BY <2>1, <3>2, LowerKeeps
      <3>3. CASE R!Advance
        BY <2>1, <3>3, AdvanceKeeps
      <3> QED
        BY <2>3, <3>1, <3>2, <3>3 DEF R!Next
    <2>4. R!Next \/ UNCHANGED routing
      BY DEF Next, vars
    <2> QED
      BY <2>2, <2>3, <2>4
  <1>3. I => FindsHandler
    <2> SUFFICES ASSUME SearchOK PROVE R!FindsHandler
      BY DEF FindsHandler
    <2>1. SearchTypes /\ SearchRange /\ SearchEntries
      BY DEF SearchOK
    <2>2. step # "done" => 1 <= lower /\ lower <= upper /\ upper <= Len(request_types)
      BY <2>1, SearchFacts DEF SearchRange
    <2>3. step = "done" /\ found = NULL => ~Contains(request_types, request_string)
      <3> SUFFICES ASSUME step = "done", found = NULL, NEW i \in 1 .. Len(request_types)
                   PROVE  request_types[i] # request_string
        BY DEF Contains
      <3>1. ~(lower <= i /\ i <= upper)
        BY <2>1, SearchFacts DEF SearchRange
      <3> QED
        BY <2>1, <3>1 DEF SearchEntries
    <2> QED
      BY <2>1, <2>2, <2>3 DEF R!FindsHandler, SearchRange, R!Contains, Contains
  <1> QED
    BY <1>1, <1>2, <1>3, PTL DEF Spec

-----------------------------------------------------------------------------
(* Boundaries. *)

(* A multiple of a number leaves no remainder. *)
LEMMA MultipleMod ==
  ASSUME NEW n \in Nat \ {0}, NEW q \in Nat
  PROVE  (n * q) % n = 0
  <1>1. PICK m \in Int : m = (n * q) % n
    OBVIOUS
  <1>2. PICK d \in Int : d = (n * q) \div n
    OBVIOUS
  <1>3. n * q \in Int
    OBVIOUS
  <1>4. n * q = n * d + m /\ 0 <= m /\ m < n
    BY <1>1, <1>2, <1>3
  <1>5. PICK e \in Int : e = q - d
    OBVIOUS
  <1>6. n * e = m
    BY <1>4, <1>5
  <1>7. CASE e >= 1
    <2>1. n * e >= n
      BY <1>7
    <2> QED
      BY <1>4, <1>6, <2>1
  <1>8. CASE e <= 0 - 1
    <2>1. n * e <= 0 - n
      BY <1>8
    <2> QED
      BY <1>4, <1>6, <2>1
  <1>9. CASE e = 0
    BY <1>1, <1>6, <1>9
  <1> QED
    BY <1>7, <1>8, <1>9

(* What leaves no remainder is a multiple. *)
LEMMA ModMultiple ==
  ASSUME NEW n \in Nat \ {0}, NEW x \in Nat, x % n = 0
  PROVE  \E q \in Nat : x = n * q
  <1>1. PICK q \in Int : q = x \div n
    OBVIOUS
  <1>2. x = n * q
    BY <1>1
  <1>3. q \in Nat
    BY <1>1
  <1> QED
    BY <1>2, <1>3

(* Sums of multiples are multiples. *)
LEMMA SumMod ==
  ASSUME NEW n \in Nat \ {0}, NEW x \in Nat, NEW y \in Nat, x % n = 0, y % n = 0
  PROVE  (x + y) % n = 0
  <1>1. PICK q \in Nat : x = n * q
    BY ModMultiple
  <1>2. PICK r \in Nat : y = n * r
    BY ModMultiple
  <1>3. PICK e \in Nat : e = q + r
    OBVIOUS
  <1>4. x + y = n * e
    BY <1>1, <1>2, <1>3
  <1>5. (n * e) % n = 0
    BY MultipleMod
  <1> QED
    BY <1>4, <1>5

(* A size is rounded up to a boundary. *)
LEMMA AlignedUp ==
  ASSUME NEW x \in Nat
  PROVE  A!Aligned(x) \in Nat /\ x <= A!Aligned(x) /\ A!Aligned(x) % Alignment = 0
  <1>1. PICK n \in Nat \ {0} : n = Alignment
    BY LibraryAssumption
  <1>2. PICK m \in Int : m = x % n
    OBVIOUS
  <1>3. 0 <= m /\ m < n
    BY <1>2
  <1>4. CASE m > 0
    <2>1. A!Aligned(x) = x + (n - m)
      BY <1>1, <1>2, <1>4 DEF A!Aligned
    <2>2. PICK d \in Int : d = x \div n
      OBVIOUS
    <2>3. x = n * d + m /\ d \in Nat
      BY <1>2, <2>2
    <2>4. PICK e \in Nat : e = d + 1
      BY <2>3
    <2>5. x + (n - m) = n * e
      BY <2>3, <2>4
    <2>6. (n * e) % n = 0
      BY MultipleMod
    <2> QED
      BY <1>1, <1>3, <2>1, <2>5, <2>6
  <1>5. CASE ~(m > 0)
    <2>1. A!Aligned(x) = x /\ m = 0
      BY <1>1, <1>2, <1>3, <1>5 DEF A!Aligned
    <2> QED
      BY <1>1, <1>2, <2>1
  <1> QED
    BY <1>4, <1>5

-----------------------------------------------------------------------------
(* Blocks. *)

(* The chains D are C with the chunk k at the end of the one of arena a. *)
Added(C, D, a, k) ==
  /\ \A c \in Arenas : \A i \in 1 .. Len(C[c]) : /\ i \in 1 .. Len(D[c]) /\ D[c][i] = C[c][i]
                                                 /\ c = a => i # Len(D[a])
  /\ Len(D[a]) \in 1 .. Len(D[a]) /\ D[a][Len(D[a])] = k
  /\ \A c \in Arenas : \A i \in 1 .. Len(D[c]) : i \in 1 .. Len(C[c]) \/ (c = a /\ i = Len(D[a]))

(* The last entry of a sequence, and those before it. *)
LEMMA LastAndFront ==
  ASSUME NEW S, NEW s \in Seq(S), s # << >>
  PROVE  \E n \in Nat \ {0} : /\ n = Len(s) /\ Last(s) = s[n] /\ s[n] \in S
                              /\ Front(s) \in Seq(S) /\ Len(Front(s)) = n - 1
                              /\ \A i \in 1 .. n - 1 : Front(s)[i] = s[i]
  <1>1. PICK n \in Nat \ {0} : n = Len(s)
    BY EmptySeq, LenProperties
  <1>2. Last(s) = s[n] /\ Front(s) = SubSeq(s, 1, n - 1)
    BY <1>1 DEF Last, Front
  <1>3. \A i \in 1 .. n : s[i] \in S
    BY <1>1, ElementOfSeq
  <1>4. PICK k \in Nat : k = n - 1
    OBVIOUS
  <1>5. \A i \in 1 .. k : s[i] \in S
    BY <1>3, <1>4
  <1>6. /\ SubSeq(s, 1, k) \in Seq(S)
        /\ Len(SubSeq(s, 1, k)) = (IF 1 <= k THEN k - 1 + 1 ELSE 0)
        /\ \A i \in 1 .. k - 1 + 1 : SubSeq(s, 1, k)[i] = s[1 + i - 1]
    BY <1>5, SubSeqProperties
  <1>7. k - 1 + 1 = k /\ (IF 1 <= k THEN k - 1 + 1 ELSE 0) = k
    OBVIOUS
  <1>8. \A i \in 1 .. k : 1 + i - 1 = i
    OBVIOUS
  <1>9. \A i \in 1 .. k : SubSeq(s, 1, k)[i] = s[i]
    BY <1>6, <1>7, <1>8
  <1>10. n \in 1 .. n
    OBVIOUS
  <1> QED
    BY <1>1, <1>2, <1>3, <1>4, <1>6, <1>7, <1>9, <1>10

(* The block that is taken for a chunk is no longer free. *)
LEMMA TakeOnce ==
  ASSUME NEW C, NEW D, NEW a \in Arenas, NEW k, Added(C, D, a, k),
         NEW p \in A!Allocator, NEW s \in Seq(Nat), s # << >>, NEW m \in Nat,
         Once(s, m, C, p), Part(p, k) = Last(s)
  PROVE  Once(Front(s), m, D, p)
  <1>1. PICK n \in Nat \ {0} : /\ n = Len(s) /\ Last(s) = s[n] /\ s[n] \in Nat
                               /\ Len(Front(s)) = n - 1
                               /\ \A i \in 1 .. n - 1 : Front(s)[i] = s[i]
    BY LastAndFront
  <1>2. n \in 1 .. n /\ \A i \in 1 .. n - 1 : i \in 1 .. n /\ i # n
    OBVIOUS
  <1>3. /\ FreeBlocks(s, m) /\ FreeOnce(s)
        /\ HeldNotFree(s, m, C, p) /\ HeldOnce(C, p) /\ FreeOrHeld(s, m, C, p)
    BY DEF Once
  <1>4. s[n] \in 1 .. m /\ s[n] \in 0 .. m /\ s[n] # 0
    <2>1. s[n] \in 1 .. m
      BY <1>1, <1>2, <1>3 DEF FreeBlocks
    <2> QED
      BY <2>1
  <1>5. Part(p, D[a][Len(D[a])]) = s[n] /\ Len(D[a]) \in 1 .. Len(D[a])
    BY <1>1 DEF Added
  <1>6. \A c \in Arenas : \A i \in 1 .. Len(D[c]) :
          (i \in 1 .. Len(C[c]) /\ D[c][i] = C[c][i]) \/ (c = a /\ i = Len(D[a]))
    BY DEF Added
  <1>7. FreeBlocks(Front(s), m)
    BY <1>1, <1>2, <1>3 DEF FreeBlocks
  <1>8. FreeOnce(Front(s))
    BY <1>1, <1>2, <1>3 DEF FreeOnce
  <1>9. \A c \in Arenas : \A i \in 1 .. Len(C[c]) : Part(p, C[c][i]) # s[n]
    BY <1>1, <1>2, <1>3 DEF HeldNotFree
  <1>10. HeldNotFree(Front(s), m, D, p)
    <2> SUFFICES ASSUME NEW c \in Arenas, NEW i \in 1 .. Len(D[c])
                 PROVE  /\ Part(p, D[c][i]) \in 0 .. m
                        /\ p = "descriptor" => Part(p, D[c][i]) # 0
                        /\ \A j \in 1 .. n - 1 : Front(s)[j] # Part(p, D[c][i])
      BY <1>1 DEF HeldNotFree
    <2>1. CASE i \in 1 .. Len(C[c]) /\ D[c][i] = C[c][i]
      BY <1>1, <1>2, <1>3, <2>1 DEF HeldNotFree
    <2>2. CASE c = a /\ i = Len(D[a])
      <3>1. \A j \in 1 .. n - 1 : Front(s)[j] # s[n]
        BY <1>1, <1>2, <1>3 DEF FreeOnce
      <3> QED
        BY <1>4, <1>5, <2>2, <3>1
    <2> QED
      BY <1>6, <2>1, <2>2
  <1>11. HeldOnce(D, p)
    <2> SUFFICES ASSUME NEW c \in Arenas, NEW d \in Arenas,
                        NEW i \in 1 .. Len(D[c]), NEW j \in 1 .. Len(D[d]),
                        Part(p, D[c][i]) = Part(p, D[d][j]), Part(p, D[c][i]) # 0
                 PROVE  c = d /\ i = j
      BY DEF HeldOnce
    <2>1. CASE i \in 1 .. Len(C[c]) /\ D[c][i] = C[c][i] /\ j \in 1 .. Len(C[d]) /\ D[d][j] = C[d][j]
      BY <1>3, <2>1 DEF HeldOnce
    <2>2. CASE i \in 1 .. Len(C[c]) /\ D[c][i] = C[c][i] /\ d = a /\ j = Len(D[a])
      BY <1>5, <1>9, <2>2
    <2>3. CASE j \in 1 .. Len(C[d]) /\ D[d][j] = C[d][j] /\ c = a /\ i = Len(D[a])
      BY <1>5, <1>9, <2>3
    <2> QED
      BY <1>6, <2>1, <2>2, <2>3
  <1>12. FreeOrHeld(Front(s), m, D, p)
    <2> SUFFICES ASSUME NEW b \in 1 .. m
                 PROVE  \/ \E i \in 1 .. n - 1 : Front(s)[i] = b
                        \/ \E c \in Arenas : \E i \in 1 .. Len(D[c]) : Part(p, D[c][i]) = b
      BY <1>1 DEF FreeOrHeld
    <2>1. CASE \E c \in Arenas : \E i \in 1 .. Len(C[c]) : Part(p, C[c][i]) = b
      BY <2>1 DEF Added
    <2>2. CASE \E i \in 1 .. n : s[i] = b
      <3>1. PICK i \in 1 .. n : s[i] = b
        BY <2>2
      <3>2. CASE i = n
        BY <1>5, <3>1, <3>2
      <3>3. CASE i # n
        <4>1. i \in 1 .. n - 1
          BY <3>3
        <4> QED
          BY <1>1, <3>1, <4>1
      <3> QED
        BY <3>2, <3>3
    <2> QED
      BY <1>1, <1>3, <2>1, <2>2 DEF FreeOrHeld
  <1> QED
    BY <1>7, <1>8, <1>10, <1>11, <1>12 DEF Once

(* The blocks of new memory are free. *)
LEMMA GrowOnce ==
  ASSUME NEW C, NEW p \in A!Allocator, NEW m \in Nat, NEW g \in Nat, Once(<< >>, m, C, p)
  PROVE  Once([i \in 1 .. g |-> m + i], m + g, C, p)
  <1>1. PICK s : s = [i \in 1 .. g |-> m + i]
    OBVIOUS
  <1>2. Len(s) = g /\ \A i \in 1 .. g : s[i] = m + i
    BY <1>1
  <1>3. HeldNotFree(<< >>, m, C, p) /\ HeldOnce(C, p) /\ FreeOrHeld(<< >>, m, C, p)
    BY DEF Once
  <1>4. FreeBlocks(s, m + g)
    BY <1>2 DEF FreeBlocks
  <1>5. FreeOnce(s)
    BY <1>2 DEF FreeOnce
  <1>6. HeldNotFree(s, m + g, C, p)
    <2> SUFFICES ASSUME NEW c \in Arenas, NEW i \in 1 .. Len(C[c])
                 PROVE  /\ Part(p, C[c][i]) \in 0 .. m + g
                        /\ p = "descriptor" => Part(p, C[c][i]) # 0
                        /\ \A j \in 1 .. g : s[j] # Part(p, C[c][i])
      BY <1>2 DEF HeldNotFree
    <2>1. Part(p, C[c][i]) \in 0 .. m /\ (p = "descriptor" => Part(p, C[c][i]) # 0)
      BY <1>3 DEF HeldNotFree
    <2>2. PICK b \in 0 .. m : b = Part(p, C[c][i])
      BY <2>1
    <2>3. b \in 0 .. m + g /\ \A j \in 1 .. g : m + j # b
      OBVIOUS
    <2> QED
      BY <1>2, <2>1, <2>2, <2>3
  <1>7. FreeOrHeld(s, m + g, C, p)
    <2> SUFFICES ASSUME NEW b \in 1 .. m + g
                 PROVE  \/ \E i \in 1 .. g : s[i] = b
                        \/ \E c \in Arenas : \E i \in 1 .. Len(C[c]) : Part(p, C[c][i]) = b
      BY <1>2 DEF FreeOrHeld
    <2>1. CASE b <= m
      <3>1. b \in 1 .. m /\ ~\E i \in 1 .. Len(<< >>) : << >>[i] = b
        BY <2>1
      <3> QED
        BY <1>3, <3>1 DEF FreeOrHeld
    <2>2. CASE ~(b <= m)
      <3>1. b - m \in 1 .. g /\ m + (b - m) = b
        BY <2>2
      <3> QED
        BY <1>2, <3>1
    <2> QED
      BY <2>1, <2>2
  <1>8. Once(s, m + g, C, p)
    BY <1>3, <1>4, <1>5, <1>6, <1>7 DEF Once
  <1> QED
    BY <1>1, <1>8

(* An external chunk has no block: one more, or one less, changes nothing for the allocator. *)
LEMMA SkipOnce ==
  ASSUME NEW C, NEW D, NEW a \in Arenas, NEW k, Added(C, D, a, k),
         NEW s, NEW m \in Nat, FreeBlocks(s, m), Part("chunk", k) = 0
  PROVE  Once(s, m, C, "chunk") <=> Once(s, m, D, "chunk")
  <1>1. 0 \in 0 .. m /\ \A b \in 1 .. m : b # 0
    OBVIOUS
  <1>2. PICK p : p = "chunk"
    OBVIOUS
  <1>3. p # "descriptor"
    BY <1>2
  <1>4. \A j \in 1 .. Len(s) : s[j] # 0
    BY <1>1 DEF FreeBlocks
  <1>5. Part(p, D[a][Len(D[a])]) = 0
    BY <1>2 DEF Added
  <1>6. \A c \in Arenas : \A i \in 1 .. Len(D[c]) :
          (i \in 1 .. Len(C[c]) /\ D[c][i] = C[c][i]) \/ Part(p, D[c][i]) = 0
    BY <1>5 DEF Added
  <1>7. \A c \in Arenas : \A i \in 1 .. Len(C[c]) : i \in 1 .. Len(D[c]) /\ D[c][i] = C[c][i]
    BY DEF Added
  <1>8. ASSUME Once(s, m, C, p) PROVE Once(s, m, D, p)
    <2>1. /\ FreeOnce(s) /\ HeldNotFree(s, m, C, p) /\ HeldOnce(C, p) /\ FreeOrHeld(s, m, C, p)
      BY <1>8 DEF Once
    <2>2. HeldNotFree(s, m, D, p)
      <3> SUFFICES ASSUME NEW c \in Arenas, NEW i \in 1 .. Len(D[c])
                   PROVE  /\ Part(p, D[c][i]) \in 0 .. m
                          /\ \A j \in 1 .. Len(s) : s[j] # Part(p, D[c][i])
        BY <1>3 DEF HeldNotFree
      <3>1. CASE i \in 1 .. Len(C[c]) /\ D[c][i] = C[c][i]
        BY <2>1, <3>1 DEF HeldNotFree
      <3>2. CASE Part(p, D[c][i]) = 0
        BY <1>1, <1>4, <3>2
      <3> QED
        BY <1>6, <3>1, <3>2
    <2>3. HeldOnce(D, p)
      <3> SUFFICES ASSUME NEW c \in Arenas, NEW d \in Arenas,
                          NEW i \in 1 .. Len(D[c]), NEW j \in 1 .. Len(D[d]),
                          Part(p, D[c][i]) = Part(p, D[d][j]), Part(p, D[c][i]) # 0
                   PROVE  c = d /\ i = j
        BY DEF HeldOnce
      <3>1. i \in 1 .. Len(C[c]) /\ D[c][i] = C[c][i] /\ j \in 1 .. Len(C[d]) /\ D[d][j] = C[d][j]
        BY <1>6
      <3> QED
        BY <2>1, <3>1 DEF HeldOnce
    <2>4. FreeOrHeld(s, m, D, p)
      BY <1>7, <2>1 DEF FreeOrHeld
    <2> QED
      BY <2>1, <2>2, <2>3, <2>4 DEF Once
  <1>9. ASSUME Once(s, m, D, p) PROVE Once(s, m, C, p)
    <2>1. /\ FreeOnce(s) /\ HeldNotFree(s, m, D, p) /\ HeldOnce(D, p) /\ FreeOrHeld(s, m, D, p)
      BY <1>9 DEF Once
    <2>2. HeldNotFree(s, m, C, p)
      BY <1>7, <2>1 DEF HeldNotFree
    <2>3. HeldOnce(C, p)
      BY <1>7, <2>1 DEF HeldOnce
    <2>4. FreeOrHeld(s, m, C, p)
      <3> SUFFICES ASSUME NEW b \in 1 .. m
                   PROVE  \/ \E i \in 1 .. Len(s) : s[i] = b
                          \/ \E c \in Arenas : \E i \in 1 .. Len(C[c]) : Part(p, C[c][i]) = b
        BY DEF FreeOrHeld
      <3>1. b # 0
        OBVIOUS
      <3>2. ASSUME NEW c \in Arenas, NEW i \in 1 .. Len(D[c]), Part(p, D[c][i]) = b
            PROVE  i \in 1 .. Len(C[c]) /\ Part(p, C[c][i]) = b
        BY <1>6, <3>1, <3>2
      <3>3. \/ \E i \in 1 .. Len(s) : s[i] = b
            \/ \E c \in Arenas : \E i \in 1 .. Len(D[c]) : Part(p, D[c][i]) = b
        BY <2>1 DEF FreeOrHeld
      <3> QED
        BY <3>2, <3>3, Zenon
    <2> QED
      BY <2>1, <2>2, <2>3, <2>4 DEF Once
  <1> QED
    BY <1>2, <1>8, <1>9

(* The block of a chunk that is freed is free. *)
LEMMA PutOnce ==
  ASSUME NEW C, NEW D, NEW a \in Arenas, NEW k, Added(C, D, a, k),
         NEW p \in A!Allocator, NEW s \in Seq(Nat), NEW m \in Nat,
         Once(s, m, D, p), Part(p, k) # 0
  PROVE  Part(p, k) \in Nat /\ Once(Append(s, Part(p, k)), m, C, p)
  <1>1. PICK n \in Nat : n = Len(s)
    BY LenProperties
  <1>2. Part(p, D[a][Len(D[a])]) = Part(p, k) /\ Len(D[a]) \in 1 .. Len(D[a])
    BY DEF Added
  <1>3. /\ FreeBlocks(s, m) /\ FreeOnce(s)
        /\ HeldNotFree(s, m, D, p) /\ HeldOnce(D, p) /\ FreeOrHeld(s, m, D, p)
    BY DEF Once
  <1>4. Part(p, k) \in 0 .. m /\ \A j \in 1 .. n : s[j] # Part(p, k)
    BY <1>1, <1>2, <1>3 DEF HeldNotFree
  <1>5. PICK b \in 1 .. m : b = Part(p, k)
    BY <1>4
  <1>6. b \in Nat /\ b # 0
    OBVIOUS
  <1>7. PICK u \in Seq(Nat) : u = Append(s, b)
    BY <1>6, AppendProperties
  <1>8. Len(u) = n + 1 /\ u[n + 1] = b /\ \A i \in 1 .. n : u[i] = s[i]
    BY <1>1, <1>6, <1>7, AppendProperties
  <1>9. \A i \in 1 .. n + 1 : i \in 1 .. n \/ i = n + 1
    OBVIOUS
  <1>10. n + 1 \in 1 .. n + 1 /\ \A i \in 1 .. n : i \in 1 .. n + 1
    OBVIOUS
  <1>11. FreeBlocks(u, m)
    BY <1>1, <1>3, <1>8, <1>9 DEF FreeBlocks
  <1>12. FreeOnce(u)
    <2>1. \A i \in 1 .. n : u[i] # b
      BY <1>4, <1>5, <1>8
    <2>2. \A i, j \in 1 .. n : u[i] = u[j] => i = j
      BY <1>1, <1>3, <1>8 DEF FreeOnce
    <2> QED
      BY <1>8, <1>9, <2>1, <2>2 DEF FreeOnce
  <1>13. \A c \in Arenas : \A i \in 1 .. Len(C[c]) : /\ i \in 1 .. Len(D[c]) /\ D[c][i] = C[c][i]
                                                     /\ c = a => i # Len(D[a])
    BY DEF Added
  <1>14. \A c \in Arenas : \A i \in 1 .. Len(C[c]) : Part(p, C[c][i]) # b
    <2> SUFFICES ASSUME NEW c \in Arenas, NEW i \in 1 .. Len(C[c]), Part(p, C[c][i]) = b
                 PROVE  FALSE
      OBVIOUS
    <2>1. i \in 1 .. Len(D[c]) /\ Part(p, D[c][i]) = Part(p, D[a][Len(D[a])]) /\ Part(p, D[c][i]) # 0
      BY <1>2, <1>5, <1>6, <1>13
    <2>2. c = a /\ i = Len(D[a])
      BY <1>2, <1>3, <2>1 DEF HeldOnce
    <2> QED
      BY <1>13, <2>2
  <1>15. HeldNotFree(u, m, C, p)
    <2> SUFFICES ASSUME NEW c \in Arenas, NEW i \in 1 .. Len(C[c])
                 PROVE  /\ Part(p, C[c][i]) \in 0 .. m
                        /\ p = "descriptor" => Part(p, C[c][i]) # 0
                        /\ \A j \in 1 .. n + 1 : u[j] # Part(p, C[c][i])
      BY <1>8 DEF HeldNotFree
    <2>1. i \in 1 .. Len(D[c]) /\ D[c][i] = C[c][i]
      BY <1>13
    <2>2. /\ Part(p, C[c][i]) \in 0 .. m
          /\ p = "descriptor" => Part(p, C[c][i]) # 0
          /\ \A j \in 1 .. n : s[j] # Part(p, C[c][i])
      BY <1>1, <1>3, <2>1 DEF HeldNotFree
    <2> QED
      BY <1>8, <1>9, <1>14, <2>2
  <1>16. HeldOnce(C, p)
    BY <1>3, <1>13 DEF HeldOnce
  <1>17. FreeOrHeld(u, m, C, p)
    <2> SUFFICES ASSUME NEW e \in 1 .. m
                 PROVE  \/ \E i \in 1 .. n + 1 : u[i] = e
                        \/ \E c \in Arenas : \E i \in 1 .. Len(C[c]) : Part(p, C[c][i]) = e
      BY <1>8 DEF FreeOrHeld
    <2>1. CASE \E i \in 1 .. n : s[i] = e
      BY <1>8, <1>10, <2>1
    <2>2. CASE \E c \in Arenas : \E i \in 1 .. Len(D[c]) : Part(p, D[c][i]) = e
      <3>1. PICK c \in Arenas : \E i \in 1 .. Len(D[c]) : Part(p, D[c][i]) = e
        BY <2>2
      <3>2. PICK i \in 1 .. Len(D[c]) : Part(p, D[c][i]) = e
        BY <3>1
      <3>3. CASE i \in 1 .. Len(C[c])
        BY <1>13, <3>2, <3>3
      <3>4. CASE c = a /\ i = Len(D[a])
        BY <1>2, <1>5, <1>8, <1>10, <3>2, <3>4
      <3> QED
        BY <3>3, <3>4 DEF Added
    <2> QED
      BY <1>1, <1>3, <2>1, <2>2 DEF FreeOrHeld
  <1>18. Once(u, m, C, p)
    BY <1>11, <1>12, <1>15, <1>16, <1>17 DEF Once
  <1> QED
    BY <1>5, <1>6, <1>7, <1>18

(* The used part of a chunk may change. *)
LEMMA SameOnce ==
  ASSUME NEW C, NEW D, NEW p \in A!Allocator, NEW s, NEW m \in Nat,
         \A c \in Arenas : /\ Len(D[c]) = Len(C[c])
                           /\ \A i \in 1 .. Len(C[c]) : Part(p, D[c][i]) = Part(p, C[c][i]),
         Once(s, m, C, p)
  PROVE  Once(s, m, D, p)
  <1>1. /\ FreeBlocks(s, m) /\ FreeOnce(s)
        /\ HeldNotFree(s, m, C, p) /\ HeldOnce(C, p) /\ FreeOrHeld(s, m, C, p)
    BY DEF Once
  <1>2. HeldNotFree(s, m, D, p)
    BY <1>1 DEF HeldNotFree
  <1>3. HeldOnce(D, p)
    BY <1>1 DEF HeldOnce
  <1>4. FreeOrHeld(s, m, D, p)
    BY <1>1 DEF FreeOrHeld
  <1> QED
    BY <1>1, <1>2, <1>3, <1>4 DEF Once

WithChunk(C, a, k) == [C EXCEPT ![a] = Append(C[a], k)]
WithoutLast(C, a)  == [C EXCEPT ![a] = Front(C[a])]

(* A chunk at the end of a chain. *)
LEMMA AppendAdds ==
  ASSUME NEW C \in [Arenas -> Seq(Chunk)], NEW a \in Arenas, NEW k \in Chunk, NEW D,
         D = WithChunk(C, a, k)
  PROVE  D \in [Arenas -> Seq(Chunk)] /\ Added(C, D, a, k) /\ Len(D[a]) = Len(C[a]) + 1
  <1>1. PICK s \in Seq(Chunk) : s = C[a]
    OBVIOUS
  <1>2. PICK n \in Nat : n = Len(s)
    BY LenProperties
  <1>3. PICK u \in Seq(Chunk) : u = Append(s, k)
    BY AppendProperties
  <1>4. Len(u) = n + 1 /\ u[n + 1] = k /\ \A i \in 1 .. n : u[i] = s[i]
    BY <1>2, <1>3, AppendProperties
  <1>5. D = [C EXCEPT ![a] = u]
    BY <1>1, <1>3 DEF WithChunk
  <1>6. D \in [Arenas -> Seq(Chunk)] /\ D[a] = u /\ \A c \in Arenas \ {a} : D[c] = C[c]
    BY <1>5
  <1>7. n + 1 \in 1 .. n + 1 /\ \A i \in 1 .. n : i \in 1 .. n + 1 /\ i # n + 1
    OBVIOUS
  <1>8. \A i \in 1 .. n + 1 : i \in 1 .. n \/ i = n + 1
    OBVIOUS
  <1>9. ASSUME NEW c \in Arenas, NEW i \in 1 .. Len(C[c])
        PROVE  i \in 1 .. Len(D[c]) /\ D[c][i] = C[c][i] /\ (c = a => i # Len(D[a]))
    BY <1>1, <1>2, <1>4, <1>6, <1>7
  <1>10. ASSUME NEW c \in Arenas, NEW i \in 1 .. Len(D[c])
         PROVE  i \in 1 .. Len(C[c]) \/ (c = a /\ i = Len(D[a]))
    BY <1>1, <1>2, <1>4, <1>6, <1>8
  <1> QED
    BY <1>1, <1>2, <1>4, <1>6, <1>7, <1>9, <1>10 DEF Added

(* A chain without its last chunk. *)
LEMMA FrontAdds ==
  ASSUME NEW C \in [Arenas -> Seq(Chunk)], NEW a \in Arenas, C[a] # << >>, NEW D,
         D = WithoutLast(C, a)
  PROVE  /\ D \in [Arenas -> Seq(Chunk)] /\ Added(D, C, a, Last(C[a])) /\ Last(C[a]) \in Chunk
         /\ Len(C[a]) \in 1 .. Len(C[a]) /\ C[a][Len(C[a])] = Last(C[a])
  <1>1. PICK s \in Seq(Chunk) : s = C[a]
    OBVIOUS
  <1>2. PICK n \in Nat \ {0} : /\ n = Len(s) /\ Last(s) = s[n] /\ s[n] \in Chunk
                               /\ Front(s) \in Seq(Chunk) /\ Len(Front(s)) = n - 1
                               /\ \A i \in 1 .. n - 1 : Front(s)[i] = s[i]
    BY <1>1, LastAndFront
  <1>3. PICK u \in Seq(Chunk) : u = Front(s)
    BY <1>2
  <1>4. D = [C EXCEPT ![a] = u]
    BY <1>1, <1>3 DEF WithoutLast
  <1>5. D \in [Arenas -> Seq(Chunk)] /\ D[a] = u /\ \A c \in Arenas \ {a} : D[c] = C[c]
    BY <1>4
  <1>6. n \in 1 .. n /\ \A i \in 1 .. n - 1 : i \in 1 .. n /\ i # n
    OBVIOUS
  <1>7. \A i \in 1 .. n : i \in 1 .. n - 1 \/ i = n
    OBVIOUS
  <1>8. ASSUME NEW c \in Arenas, NEW i \in 1 .. Len(D[c])
        PROVE  i \in 1 .. Len(C[c]) /\ C[c][i] = D[c][i] /\ (c = a => i # Len(C[a]))
    BY <1>1, <1>2, <1>3, <1>5, <1>6
  <1>9. ASSUME NEW c \in Arenas, NEW i \in 1 .. Len(C[c])
        PROVE  i \in 1 .. Len(D[c]) \/ (c = a /\ i = Len(C[a]))
    BY <1>1, <1>2, <1>3, <1>5, <1>7
  <1> QED
    BY <1>1, <1>2, <1>5, <1>6, <1>8, <1>9 DEF Added

(* SVR_BlockAlloc_alloc has a block to hand out. *)
LEMMA FilledOnce ==
  ASSUME ArenaTypes, BlocksOK, NEW p \in A!Allocator
  PROVE  \E s \in Seq(Nat), m \in Nat :
           /\ s = A!Filled(p) /\ s # << >>
           /\ m = (IF blocks[p] = << >> THEN made[p] + GrowSize ELSE made[p])
           /\ Once(s, m, chain, p)
  <1>1. blocks[p] \in Seq(Nat) /\ made[p] \in Nat /\ Once(blocks[p], made[p], chain, p)
    BY DEF ArenaTypes, BlocksOK
  <1>2. CASE blocks[p] = << >>
    <2>1. PICK g \in Nat \ {0} : g = GrowSize
      BY LibraryAssumption
    <2>2. PICK m \in Nat : m = made[p]
      BY <1>1
    <2>3. PICK C : C = chain
      OBVIOUS
    <2>4. Once(<< >>, m, C, p)
      BY <1>1, <1>2, <2>2, <2>3
    <2>5. PICK s : s = [i \in 1 .. g |-> m + i]
      OBVIOUS
    <2>6. s \in Seq(Nat) /\ Len(s) = g
      BY <2>5
    <2>7. s # << >>
      BY <2>6
    <2>8. Once(s, m + g, C, p)
      BY <2>4, <2>5, GrowOnce
    <2>9. s = A!Filled(p)
      BY <1>2, <2>1, <2>2, <2>5 DEF A!Filled
    <2>10. m + g \in Nat /\ m + g = (IF blocks[p] = << >> THEN made[p] + GrowSize ELSE made[p])
      BY <1>2, <2>1, <2>2
    <2> QED
      BY <2>3, <2>6, <2>7, <2>8, <2>9, <2>10
  <1>3. CASE blocks[p] # << >>
    BY <1>1, <1>3 DEF A!Filled
  <1> QED
    BY <1>2, <1>3

(* A chunk takes a block of each allocator it needs. *)
LEMMA TakeKeeps ==
  ASSUME ArenaTypes, BlocksOK, NEW a \in Arenas, NEW k, NEW ps \in SUBSET A!Allocator,
         A!TakeBlocks(ps), Added(chain, chain', a, k),
         \A p \in ps : Part(p, k) = Last(A!Filled(p)),
         \A p \in A!Allocator \ ps : p = "chunk" /\ Part(p, k) = 0
  PROVE  blocks' \in [A!Allocator -> Seq(Nat)] /\ made' \in [A!Allocator -> Nat] /\ BlocksOK'
  <1>1. PICK C : C = chain
    OBVIOUS
  <1>2. PICK D : D = chain'
    OBVIOUS
  <1>3. Added(C, D, a, k)
    BY <1>1, <1>2
  <1>4. ASSUME NEW p \in A!Allocator
        PROVE  \E s \in Seq(Nat), m \in Nat : blocks'[p] = s /\ made'[p] = m /\ Once(s, m, D, p)
    <2>1. CASE p \in ps
      <3>1. PICK s \in Seq(Nat), m \in Nat :
              /\ s = A!Filled(p) /\ s # << >>
              /\ m = (IF blocks[p] = << >> THEN made[p] + GrowSize ELSE made[p])
              /\ Once(s, m, C, p)
        BY <1>1, FilledOnce
      <3>2. Part(p, k) = Last(s)
        BY <2>1, <3>1
      <3>3. Once(Front(s), m, D, p)
        BY <1>3, <3>1, <3>2, TakeOnce
      <3>4. Front(s) \in Seq(Nat)
        BY <3>1, LastAndFront
      <3>5. blocks'[p] = Front(s)
        <4>1. blocks'[p] = A!Front(s)
          BY <2>1, <3>1 DEF A!TakeBlocks
        <4> QED
          BY <4>1 DEF A!Front, Front
      <3>6. made'[p] = m
        BY <2>1, <3>1 DEF A!TakeBlocks
      <3> QED
        BY <3>3, <3>4, <3>5, <3>6
    <2>2. CASE p \notin ps
      <3>1. blocks'[p] = blocks[p] /\ made'[p] = made[p]
        BY <2>2 DEF A!TakeBlocks
      <3>2. PICK s \in Seq(Nat) : s = blocks[p]
        BY DEF ArenaTypes
      <3>3. PICK m \in Nat : m = made[p]
        BY DEF ArenaTypes
      <3>4. Once(s, m, C, p)
        BY <1>1, <3>2, <3>3 DEF BlocksOK
      <3>5. p = "chunk" /\ Part(p, k) = 0
        BY <2>2
      <3>6. FreeBlocks(s, m)
        BY <3>4 DEF Once
      <3>7. Once(s, m, D, p)
        BY <1>3, <3>4, <3>5, <3>6, SkipOnce
      <3> QED
        BY <3>1, <3>2, <3>3, <3>7
    <2> QED
      BY <2>1, <2>2
  <1>5. blocks' \in [A!Allocator -> Seq(Nat)]
    <2>1. blocks' = [p \in A!Allocator |-> blocks'[p]]
      BY DEF A!TakeBlocks
    <2>2. \A p \in A!Allocator : blocks'[p] \in Seq(Nat)
      BY <1>4
    <2> QED
      BY <2>1, <2>2
  <1>6. made' \in [A!Allocator -> Nat]
    <2>1. made' = [p \in A!Allocator |-> made'[p]]
      BY DEF A!TakeBlocks
    <2>2. \A p \in A!Allocator : made'[p] \in Nat
      BY <1>4
    <2> QED
      BY <2>1, <2>2
  <1>7. BlocksOK'
    <2>1. \A p \in A!Allocator : Once(blocks'[p], made'[p], D, p)
      BY <1>4
    <2> QED
      BY <1>2, <2>1 DEF BlocksOK
  <1> QED
    BY <1>5, <1>6, <1>7

-----------------------------------------------------------------------------
(* Space. *)

(* The fields of a chunk. *)
LEMMA ChunkFields ==
  ASSUME NEW k \in Chunk
  PROVE  k.base \in Nat /\ k.descriptor \in Nat /\ k.size \in Nat /\ k.write_index \in Nat
  BY DEF Chunk

(* The fields of a reservation. *)
LEMMA ReservationFields ==
  ASSUME NEW r \in Reservation
  PROVE  r.chunk \in Nat /\ r.first \in Nat /\ r.size \in Nat
  BY DEF Reservation

(* A space reserved at the end of the used part of a chunk, of which more is used then, is
   apart from the others; the other chunks of the chain stay, and there may be a new one. *)
LEMMA ReserveApart ==
  ASSUME NEW c \in Seq(Chunk), NEW d \in Seq(Chunk),
         NEW v \in Seq(Reservation), NEW r \in Reservation, ReservedOK(c, v),
         \A i \in 1 .. Len(c) : i \in 1 .. Len(d) /\ c[i].write_index <= d[i].write_index,
         r.chunk \in 1 .. Len(d), r.first % Alignment = 0,
         r.first + r.size <= d[r.chunk].write_index,
         r.chunk \in 1 .. Len(c) => c[r.chunk].write_index = r.first
  PROVE  Append(v, r) \in Seq(Reservation) /\ ReservedOK(d, Append(v, r))
  <1>1. PICK n \in Nat : n = Len(v)
    BY LenProperties
  <1>2. PICK u \in Seq(Reservation) : u = Append(v, r)
    BY AppendProperties
  <1>3. Len(u) = n + 1 /\ u[n + 1] = r /\ \A i \in 1 .. n : u[i] = v[i]
    BY <1>1, <1>2, AppendProperties
  <1>4. \A i \in 1 .. n : v[i] \in Reservation
    BY <1>1, ElementOfSeq
  <1>5. \A i \in 1 .. n : /\ v[i].chunk \in 1 .. Len(c) /\ v[i].first % Alignment = 0
                          /\ v[i].first + v[i].size <= c[v[i].chunk].write_index
                          /\ \A j \in 1 .. i - 1 : v[j].chunk = v[i].chunk
                                                     => v[j].first + v[j].size <= v[i].first
    BY <1>1 DEF ReservedOK
  <1>6. \A i \in 1 .. Len(c) : c[i].write_index \in Nat
    BY ElementOfSeq, ChunkFields
  <1>7. \A i \in 1 .. Len(d) : d[i].write_index \in Nat
    BY ElementOfSeq, ChunkFields
  <1>8. ASSUME NEW i \in 1 .. n
        PROVE  /\ u[i].chunk \in 1 .. Len(d) /\ u[i].first % Alignment = 0
               /\ u[i].first + u[i].size <= d[u[i].chunk].write_index
               /\ \A j \in 1 .. i - 1 : u[j].chunk = u[i].chunk
                                          => u[j].first + u[j].size <= u[i].first
    <2>1. \A j \in 1 .. i - 1 : j \in 1 .. n
      OBVIOUS
    <2>2. PICK x \in 1 .. Len(c) : x = v[i].chunk
      BY <1>5
    <2>3. PICK y \in Nat : y = v[i].first + v[i].size
      <3>1. v[i].first \in Nat /\ v[i].size \in Nat
        BY <1>4, ReservationFields
      <3>2. \A x1, x2 \in Nat : x1 + x2 \in Nat
        OBVIOUS
      <3> QED
        BY <3>1, <3>2
    <2>4. y <= c[x].write_index
      BY <1>5, <2>2, <2>3
    <2>5. c[x].write_index <= d[x].write_index /\ x \in 1 .. Len(d)
      OBVIOUS
    <2>6. y <= d[x].write_index
      BY <1>6, <1>7, <2>4, <2>5
    <2>7. u[i] = v[i] /\ \A j \in 1 .. i - 1 : u[j] = v[j]
      BY <1>3, <2>1
    <2> QED
      BY <1>5, <2>2, <2>3, <2>5, <2>6, <2>7
  <1>9. ASSUME NEW j \in 1 .. n, u[j].chunk = r.chunk
        PROVE  u[j].first + u[j].size <= r.first
    BY <1>3, <1>5, <1>9
  <1>10. \A i \in 1 .. n + 1 : i \in 1 .. n \/ i = n + 1
    OBVIOUS
  <1>11. n + 1 - 1 = n
    OBVIOUS
  <1>12. ASSUME NEW i \in 1 .. n + 1
         PROVE  /\ u[i].chunk \in 1 .. Len(d) /\ u[i].first % Alignment = 0
                /\ u[i].first + u[i].size <= d[u[i].chunk].write_index
                /\ \A j \in 1 .. i - 1 : u[j].chunk = u[i].chunk
                                           => u[j].first + u[j].size <= u[i].first
    <2>1. CASE i \in 1 .. n
      BY <1>8, <2>1
    <2>2. CASE i = n + 1
      <3>1. u[i] = r
        BY <1>3, <2>2
      <3>2. \A j \in 1 .. i - 1 : j \in 1 .. n
        BY <1>11, <2>2
      <3>3. \A j \in 1 .. i - 1 : u[j].chunk = r.chunk => u[j].first + u[j].size <= r.first
        BY <1>9, <3>2
      <3> QED
        BY <3>1, <3>3
    <2> QED
      BY <1>10, <2>1, <2>2
  <1>13. ReservedOK(d, u)
    BY <1>3, <1>12 DEF ReservedOK
  <1> QED
    BY <1>2, <1>13

(* A new chunk: a block, or external memory if a block is too small for what it is used for. *)
LEMMA NewChunkOK ==
  ASSUME ArenaTypes, BlocksOK, NEW external \in BOOLEAN, NEW size \in Nat, NEW used \in Nat,
         external <=> BlockSize < size, used <= size, external => used = size, used % Alignment = 0
  PROVE  \E k \in Chunk : /\ k = A!NewChunk(external, size, used) /\ ChunkOK(k)
                          /\ Part("descriptor", k) = Last(A!Filled("descriptor"))
                          /\ Part("chunk", k) = (IF external THEN 0 ELSE Last(A!Filled("chunk")))
                          /\ k.write_index = used
  <1>1. PICK B \in Nat : B = BlockSize
    BY LibraryAssumption
  <1>2. ASSUME NEW p \in A!Allocator
        PROVE  Last(A!Filled(p)) \in Nat
    <2>1. PICK s \in Seq(Nat) : s = A!Filled(p) /\ s # << >>
      BY FilledOnce
    <2>2. \E n \in Nat \ {0} : Last(s) = s[n] /\ s[n] \in Nat
      BY <2>1, LastAndFront
    <2>3. Last(s) \in Nat
      BY <2>2
    <2> QED
      BY <2>1, <2>3, Zenon
  <1>3. \A s : A!Last(s) = Last(s)
    BY DEF A!Last, Last
  <1>4. PICK b \in Nat : b = (IF external THEN 0 ELSE Last(A!Filled("chunk")))
    BY <1>2 DEF A!Allocator
  <1>5. PICK e \in Nat : e = Last(A!Filled("descriptor"))
    BY <1>2 DEF A!Allocator
  <1>6. PICK z \in Nat : z = (IF external THEN size ELSE B)
    OBVIOUS
  <1>7. PICK k : k = [base |-> b, descriptor |-> e, size |-> z, write_index |-> used]
    OBVIOUS
  <1>8. k = A!NewChunk(external, size, used)
    BY <1>1, <1>3, <1>4, <1>5, <1>6, <1>7 DEF A!NewChunk, A!External
  <1>9. /\ k \in Chunk /\ k.base = b /\ k.descriptor = e /\ k.size = z /\ k.write_index = used
    BY <1>7 DEF Chunk
  <1>10. used <= z /\ (z = B \/ B < used)
    BY <1>1, <1>6
  <1>11. ChunkOK(k)
    BY <1>1, <1>9, <1>10 DEF ChunkOK
  <1>12. Part("descriptor", k) = e /\ Part("chunk", k) = b
    BY <1>9 DEF Part
  <1> QED
    BY <1>4, <1>5, <1>8, <1>9, <1>11, <1>12

(* SVR_Arena_alloc takes a chunk of which nothing is used. *)
LEMMA AllocKeeps ==
  ASSUME ArenaOK, NEW a \in Arenas, A!Alloc(a)
  PROVE  ArenaOK'
  <1>1. ArenaTypes /\ BlocksOK /\ SpaceOK
    BY DEF ArenaOK
  <1>2. /\ chain[a] = << >> /\ chain' = [chain EXCEPT ![a] = <<A!NewChunk(FALSE, 0, 0)>>]
        /\ A!TakeBlocks(A!Allocator) /\ reserved' = reserved
    BY DEF A!Alloc
  <1>3. 0 % Alignment = 0 /\ ~(BlockSize < 0)
    BY LibraryAssumption
  <1>4. PICK k \in Chunk : /\ k = A!NewChunk(FALSE, 0, 0) /\ ChunkOK(k)
                           /\ Part("descriptor", k) = Last(A!Filled("descriptor"))
                           /\ Part("chunk", k) = Last(A!Filled("chunk"))
    <2>1. PICK z \in Nat : z = 0
      OBVIOUS
    <2>2. (FALSE <=> BlockSize < z) /\ z <= z /\ (FALSE => z = z) /\ z % Alignment = 0
      BY <1>3, <2>1
    <2>3. \E k \in Chunk : /\ k = A!NewChunk(FALSE, z, z) /\ ChunkOK(k)
                           /\ Part("descriptor", k) = Last(A!Filled("descriptor"))
                           /\ Part("chunk", k) = (IF FALSE THEN 0 ELSE Last(A!Filled("chunk")))
                           /\ k.write_index = z
      BY <1>1, <2>2, NewChunkOK
    <2> QED
      BY <2>1, <2>3
  <1>5. PICK C \in [Arenas -> Seq(Chunk)] : C = chain
    BY <1>1 DEF ArenaTypes
  <1>6. PICK D : D = chain'
    OBVIOUS
  <1>7. D = WithChunk(C, a, k)
    <2>1. C[a] = << >>
      BY <1>2, <1>5
    <2>2. Append(C[a], k) = <<k>>
      BY <2>1
    <2> QED
      BY <1>2, <1>4, <1>5, <1>6, <2>2 DEF WithChunk
  <1>8. D \in [Arenas -> Seq(Chunk)] /\ Added(C, D, a, k) /\ Len(D[a]) = Len(C[a]) + 1
    BY <1>7, AppendAdds
  <1>9. \A p \in A!Allocator : Part(p, k) = Last(A!Filled(p))
    BY <1>4 DEF A!Allocator
  <1>10. /\ blocks' \in [A!Allocator -> Seq(Nat)] /\ made' \in [A!Allocator -> Nat] /\ BlocksOK'
    BY <1>1, <1>2, <1>5, <1>6, <1>8, <1>9, TakeKeeps
  <1>11. ArenaTypes'
    BY <1>1, <1>2, <1>6, <1>8, <1>10 DEF ArenaTypes
  <1>12. SpaceOK'
    <2>1. ASSUME NEW c \in Arenas
          PROVE  /\ \A i \in 1 .. Len(D[c]) : ChunkOK(D[c][i])
                 /\ ReservedOK(D[c], reserved[c])
      <3>1. CASE c = a
        <4>1. \A i \in 1 .. Len(D[a]) : D[a][i] = k
          <5>1. D[a] = <<k>>
            BY <1>2, <1>4, <1>5, <1>6
          <5> QED
            BY <5>1
        <4>2. ReservedOK(D[a], reserved[a])
          <5>1. ReservedOK(<< >>, reserved[a])
            BY <1>1, <1>2 DEF SpaceOK
          <5>2. \A i \in 1 .. Len(reserved[a]) : reserved[a][i].chunk \in 1 .. 0
            BY <5>1 DEF ReservedOK
          <5>3. \A i \in 1 .. Len(reserved[a]) : FALSE
            BY <5>2
          <5> QED
            BY <5>3 DEF ReservedOK
        <4> QED
          BY <1>4, <3>1, <4>1, <4>2
      <3>2. CASE c # a
        <4>1. D[c] = chain[c]
          BY <1>5, <1>7, <3>2 DEF WithChunk
        <4> QED
          BY <1>1, <4>1 DEF SpaceOK
      <3> QED
        BY <3>1, <3>2
    <2> QED
      BY <1>2, <1>6, <2>1 DEF SpaceOK
  <1> QED
    BY <1>10, <1>11, <1>12 DEF ArenaOK

UsedUpTo(C, a, i, w) == [C EXCEPT ![a][i].write_index = w]

(* The chains C and D differ in how much of a chunk is used. *)
DifferInUse(C, D, a, i, w) ==
  /\ \A c \in Arenas : Len(D[c]) = Len(C[c])
  /\ \A c \in Arenas \ {a} : D[c] = C[c]
  /\ \A j \in 1 .. Len(C[a]) : j # i => D[a][j] = C[a][j]
  /\ D[a][i].base = C[a][i].base /\ D[a][i].descriptor = C[a][i].descriptor
  /\ D[a][i].size = C[a][i].size /\ D[a][i].write_index = w

(* More of a chunk is used: nothing else about it, and no other chunk, changes. *)
LEMMA UsedMore ==
  ASSUME NEW C \in [Arenas -> Seq(Chunk)], NEW a \in Arenas, NEW i \in 1 .. Len(C[a]),
         NEW w \in Nat, NEW D, D = UsedUpTo(C, a, i, w)
  PROVE  D \in [Arenas -> Seq(Chunk)] /\ DifferInUse(C, D, a, i, w)
  <1>1. PICK s \in Seq(Chunk) : s = C[a]
    OBVIOUS
  <1>2. i \in 1 .. Len(s)
    BY <1>1
  <1>3. PICK k \in Chunk : k = s[i]
    BY <1>2, ElementOfSeq
  <1>4. PICK e : e = [k EXCEPT !.write_index = w]
    OBVIOUS
  <1>5. /\ e \in Chunk /\ e.base = k.base /\ e.descriptor = k.descriptor
        /\ e.size = k.size /\ e.write_index = w
    BY <1>4 DEF Chunk
  <1>6. PICK u : u = [s EXCEPT ![i] = e]
    OBVIOUS
  <1>7. u \in Seq(Chunk) /\ Len(u) = Len(s) /\ u[i] = e /\ \A j \in 1 .. Len(s) : j # i => u[j] = s[j]
    BY <1>2, <1>5, <1>6, ExceptSeq
  <1>8. D = [C EXCEPT ![a] = u]
    BY <1>1, <1>3, <1>4, <1>6 DEF UsedUpTo
  <1>9. D \in [Arenas -> Seq(Chunk)] /\ D[a] = u /\ \A c \in Arenas \ {a} : D[c] = C[c]
    BY <1>7, <1>8
  <1> QED
    BY <1>1, <1>3, <1>5, <1>7, <1>9 DEF DifferInUse

(* SVR_Arena_reserve in a chunk with room: what is reserved begins where its used part ended. *)
LEMMA ReserveFoundKeeps ==
  ASSUME ArenaOK, NEW a \in Arenas, NEW n \in Sizes, A!ReserveFound(a, n)
  PROVE  ArenaOK'
  <1>1. ArenaTypes /\ BlocksOK /\ SpaceOK
    BY DEF ArenaOK
  <1>2. n \in Nat
    BY LibraryAssumption
  <1>3. PICK size \in Nat : size = A!Aligned(n) /\ n <= size /\ size % Alignment = 0
    BY <1>2, AlignedUp
  <1>4. PICK C \in [Arenas -> Seq(Chunk)] : C = chain
    BY <1>1 DEF ArenaTypes
  <1>5. PICK V \in [Arenas -> Seq(Reservation)] : V = reserved
    BY <1>1 DEF ArenaTypes
  <1>6. PICK i \in A!Roomy(a, size) :
          /\ chain' = [chain EXCEPT ![a][i].write_index = @ + size]
          /\ reserved' = [reserved EXCEPT ![a] =
               Append(@, [chunk |-> i, first |-> chain[a][i].write_index, size |-> n])]
    BY <1>3 DEF A!ReserveFound
  <1>7. blocks' = blocks /\ made' = made
    BY DEF A!ReserveFound
  <1>8. PICK m \in Nat : m = Len(C[a])
    BY LenProperties
  <1>9. i \in 1 .. m - 1 /\ C[a][i].write_index + size < BlockSize
    BY <1>4, <1>6, <1>8 DEF A!Roomy, A!HasRoom
  <1>10. i \in 1 .. m /\ i \in Nat
    BY <1>9
  <1>11. PICK k \in Chunk : k = C[a][i]
    BY <1>8, <1>10, ElementOfSeq
  <1>12. PICK f \in Nat : f = k.write_index
    BY ChunkFields
  <1>13. PICK w \in Nat : w = f + size
    OBVIOUS
  <1>14. PICK B \in Nat : B = BlockSize
    BY LibraryAssumption
  <1>15. w < B /\ f <= w /\ f + n <= w
    BY <1>2, <1>3, <1>9, <1>11, <1>12, <1>13, <1>14
  <1>16. ChunkOK(k)
    BY <1>1, <1>4, <1>8, <1>10, <1>11 DEF SpaceOK
  <1>17. k.size = B /\ f % Alignment = 0
    BY <1>12, <1>14, <1>15, <1>16 DEF ChunkOK
  <1>18. w % Alignment = 0
    <2>1. PICK l \in Nat \ {0} : l = Alignment
      BY LibraryAssumption
    <2>2. (f + size) % l = 0
      BY <1>3, <1>17, <2>1, SumMod
    <2> QED
      BY <1>13, <2>1, <2>2
  <1>19. PICK D : D = chain'
    OBVIOUS
  <1>20. D = UsedUpTo(C, a, i, w)
    BY <1>4, <1>6, <1>11, <1>12, <1>13, <1>19 DEF UsedUpTo
  <1>21. /\ D \in [Arenas -> Seq(Chunk)] /\ \A c \in Arenas : Len(D[c]) = Len(C[c])
         /\ \A c \in Arenas \ {a} : D[c] = C[c]
         /\ \A j \in 1 .. m : j # i => D[a][j] = C[a][j]
         /\ D[a][i].base = k.base /\ D[a][i].descriptor = k.descriptor
         /\ D[a][i].size = k.size /\ D[a][i].write_index = w
    <2>1. i \in 1 .. Len(C[a])
      BY <1>8, <1>10
    <2>2. D \in [Arenas -> Seq(Chunk)] /\ DifferInUse(C, D, a, i, w)
      BY <1>20, <2>1, UsedMore
    <2> QED
      BY <1>8, <1>11, <2>2 DEF DifferInUse
  <1>22. BlocksOK'
    <2> SUFFICES ASSUME NEW p \in A!Allocator
                 PROVE  Once(blocks[p], made[p], D, p)
      BY <1>7, <1>19 DEF BlocksOK
    <2>1. ASSUME NEW c \in Arenas, NEW j \in 1 .. Len(C[c])
          PROVE  Part(p, D[c][j]) = Part(p, C[c][j])
      <3>1. CASE c # a
        BY <1>21, <3>1
      <3>2. CASE c = a /\ j # i
        BY <1>8, <1>21, <3>2
      <3>3. CASE c = a /\ j = i
        BY <1>11, <1>21, <3>3 DEF Part
      <3> QED
        BY <3>1, <3>2, <3>3
    <2>2. PICK s : s = blocks[p]
      OBVIOUS
    <2>3. PICK q \in Nat : q = made[p]
      BY <1>1 DEF ArenaTypes
    <2>4. Once(s, q, C, p)
      BY <1>1, <1>4, <2>2, <2>3 DEF BlocksOK
    <2>5. Once(s, q, D, p)
      BY <1>21, <2>1, <2>4, SameOnce
    <2> QED
      BY <2>2, <2>3, <2>5
  <1>23. PICK r : r = [chunk |-> i, first |-> f, size |-> n]
    OBVIOUS
  <1>24. r \in Reservation /\ r.chunk = i /\ r.first = f /\ r.size = n
    BY <1>2, <1>10, <1>23 DEF Reservation
  <1>25. reserved' = [V EXCEPT ![a] = Append(V[a], r)]
    BY <1>4, <1>5, <1>6, <1>11, <1>12, <1>23
  <1>26. Append(V[a], r) \in Seq(Reservation) /\ ReservedOK(D[a], Append(V[a], r))
    <2>1. PICK c \in Seq(Chunk) : c = C[a]
      OBVIOUS
    <2>2. PICK d \in Seq(Chunk) : d = D[a]
      BY <1>21
    <2>3. PICK v \in Seq(Reservation) : v = V[a]
      OBVIOUS
    <2>4. ReservedOK(c, v)
      BY <1>1, <1>4, <1>5, <2>1, <2>3 DEF SpaceOK
    <2>5. Len(c) = m /\ Len(d) = m
      BY <1>8, <1>21, <2>1, <2>2
    <2>6. ASSUME NEW j \in 1 .. m
          PROVE  c[j].write_index <= d[j].write_index
      <3>1. CASE j = i
        BY <1>11, <1>12, <1>15, <1>21, <2>1, <2>2, <3>1
      <3>2. CASE j # i
        <4>1. c[j] \in Chunk
          BY <2>5, ElementOfSeq
        <4>2. PICK z \in Nat : z = c[j].write_index
          BY <4>1, ChunkFields
        <4>3. d[j] = c[j]
          BY <1>21, <2>1, <2>2, <3>2
        <4> QED
          BY <4>2, <4>3
      <3> QED
        BY <3>1, <3>2
    <2>7. r.first + r.size <= d[r.chunk].write_index /\ c[r.chunk].write_index = r.first
      BY <1>11, <1>12, <1>15, <1>21, <1>24, <2>1, <2>2
    <2>8. r.chunk \in 1 .. Len(d) /\ r.first % Alignment = 0
      BY <1>10, <1>17, <1>24, <2>5
    <2>9. Append(v, r) \in Seq(Reservation) /\ ReservedOK(d, Append(v, r))
      BY <1>24, <2>4, <2>5, <2>6, <2>7, <2>8, ReserveApart
    <2> QED
      BY <2>2, <2>3, <2>9
  <1>27. ArenaTypes'
    BY <1>1, <1>7, <1>19, <1>21, <1>25, <1>26 DEF ArenaTypes
  <1>28. SpaceOK'
    <2> SUFFICES ASSUME NEW c \in Arenas
                 PROVE  /\ \A j \in 1 .. Len(D[c]) : ChunkOK(D[c][j])
                        /\ ReservedOK(D[c], reserved'[c])
      BY <1>19 DEF SpaceOK
    <2>1. CASE c # a
      <3>1. D[c] = chain[c] /\ reserved'[c] = reserved[c]
        BY <1>4, <1>5, <1>21, <1>25, <2>1
      <3> QED
        BY <1>1, <3>1 DEF SpaceOK
    <2>2. CASE c = a
      <3>1. reserved'[a] = Append(V[a], r)
        BY <1>25
      <3>2. ChunkOK(D[a][i])
        BY <1>14, <1>15, <1>17, <1>18, <1>21 DEF ChunkOK
      <3>3. ASSUME NEW j \in 1 .. m, j # i
            PROVE  ChunkOK(D[a][j])
        <4>1. D[a][j] = C[a][j] /\ ChunkOK(C[a][j])
          BY <1>1, <1>4, <1>8, <1>21, <3>3 DEF SpaceOK
        <4> QED
          BY <4>1
      <3>4. Len(D[a]) = m
        BY <1>8, <1>21
      <3> QED
        BY <1>26, <2>2, <3>1, <3>2, <3>3, <3>4
    <2> QED
      BY <2>1, <2>2
  <1> QED
    BY <1>22, <1>27, <1>28 DEF ArenaOK

(* SVR_Arena_reserve in a new chunk, which is used for what is reserved. *)
LEMMA ReserveNewKeeps ==
  ASSUME ArenaOK, NEW a \in Arenas, NEW n \in Sizes, A!ReserveNew(a, n)
  PROVE  ArenaOK'
  <1>1. ArenaTypes /\ BlocksOK /\ SpaceOK
    BY DEF ArenaOK
  <1>2. n \in Nat
    BY LibraryAssumption
  <1>3. PICK size \in Nat : size = A!Aligned(n) /\ n <= size /\ size % Alignment = 0
    BY <1>2, AlignedUp
  <1>4. PICK C \in [Arenas -> Seq(Chunk)] : C = chain
    BY <1>1 DEF ArenaTypes
  <1>5. PICK V \in [Arenas -> Seq(Reservation)] : V = reserved
    BY <1>1 DEF ArenaTypes
  <1>6. PICK external \in BOOLEAN : external = (size > BlockSize)
    <2>1. (size > BlockSize) \in BOOLEAN
      BY <1>3, LibraryAssumption
    <2> QED
      BY <2>1, Zenon
  <1>7. PICK ps \in SUBSET A!Allocator : ps = (IF external THEN {"descriptor"} ELSE A!Allocator)
    BY DEF A!Allocator
  <1>8. /\ chain' = [chain EXCEPT ![a] = Append(@, A!NewChunk(external, size, size))]
        /\ A!TakeBlocks(ps)
        /\ reserved' = [reserved EXCEPT ![a] =
                          Append(@, [chunk |-> Len(chain[a]) + 1, first |-> 0, size |-> n])]
    BY <1>3, <1>6, <1>7 DEF A!ReserveNew
  <1>9. BlockSize \in Nat
    BY LibraryAssumption
  <1>10. external <=> BlockSize < size
    BY <1>6, <1>9
  <1>11. size <= size
    OBVIOUS
  <1>12. PICK k \in Chunk : /\ k = A!NewChunk(external, size, size) /\ ChunkOK(k)
                            /\ Part("descriptor", k) = Last(A!Filled("descriptor"))
                            /\ Part("chunk", k) = (IF external THEN 0 ELSE Last(A!Filled("chunk")))
                            /\ k.write_index = size
    BY <1>1, <1>3, <1>10, <1>11, NewChunkOK
  <1>13. PICK D : D = chain'
    OBVIOUS
  <1>14. D = WithChunk(C, a, k)
    BY <1>4, <1>8, <1>12, <1>13 DEF WithChunk
  <1>15. D \in [Arenas -> Seq(Chunk)] /\ Added(C, D, a, k) /\ Len(D[a]) = Len(C[a]) + 1
    BY <1>14, AppendAdds
  <1>16. \A p \in ps : Part(p, k) = Last(A!Filled(p))
    BY <1>7, <1>12 DEF A!Allocator
  <1>17. \A p \in A!Allocator \ ps : p = "chunk" /\ Part(p, k) = 0
    BY <1>7, <1>12 DEF A!Allocator
  <1>18. blocks' \in [A!Allocator -> Seq(Nat)] /\ made' \in [A!Allocator -> Nat] /\ BlocksOK'
    BY <1>1, <1>4, <1>8, <1>13, <1>15, <1>16, <1>17, TakeKeeps
  <1>19. PICK m \in Nat : m = Len(C[a])
    BY LenProperties
  <1>20. PICK r : r = [chunk |-> m + 1, first |-> 0, size |-> n]
    OBVIOUS
  <1>21. r \in Reservation /\ r.chunk = m + 1 /\ r.first = 0 /\ r.size = n
    BY <1>2, <1>20 DEF Reservation
  <1>22. reserved' = [V EXCEPT ![a] = Append(V[a], r)]
    BY <1>4, <1>5, <1>8, <1>19, <1>20
  <1>23. Len(D[a]) = m + 1 /\ D[a][m + 1] = k /\ \A i \in 1 .. m : D[a][i] = C[a][i]
    BY <1>15, <1>19 DEF Added
  <1>24. \A i \in 1 .. m + 1 : i \in 1 .. m \/ i = m + 1
    OBVIOUS
  <1>25. Append(V[a], r) \in Seq(Reservation) /\ ReservedOK(D[a], Append(V[a], r))
    <2>1. PICK c \in Seq(Chunk) : c = C[a]
      OBVIOUS
    <2>2. PICK d \in Seq(Chunk) : d = D[a]
      BY <1>15
    <2>3. PICK v \in Seq(Reservation) : v = V[a]
      OBVIOUS
    <2>4. ReservedOK(c, v)
      BY <1>1, <1>4, <1>5, <2>1, <2>3 DEF SpaceOK
    <2>5. Len(c) = m /\ Len(d) = m + 1
      BY <1>19, <1>23, <2>1, <2>2
    <2>6. ASSUME NEW j \in 1 .. m
          PROVE  j \in 1 .. m + 1 /\ c[j].write_index <= d[j].write_index
      <3>1. c[j] \in Chunk
        BY <2>5, ElementOfSeq
      <3>2. PICK z \in Nat : z = c[j].write_index
        BY <3>1, ChunkFields
      <3>3. d[j] = c[j]
        BY <1>23, <2>1, <2>2
      <3> QED
        BY <3>2, <3>3
    <2>7. r.first + r.size <= d[r.chunk].write_index
      BY <1>2, <1>3, <1>12, <1>21, <1>23, <2>2
    <2>8. r.first % Alignment = 0
      BY <1>21, LibraryAssumption
    <2>9. r.chunk \in 1 .. Len(d) /\ r.chunk \notin 1 .. Len(c)
      BY <1>21, <2>5
    <2>10. Append(v, r) \in Seq(Reservation) /\ ReservedOK(d, Append(v, r))
      BY <1>21, <2>4, <2>5, <2>6, <2>7, <2>8, <2>9, ReserveApart
    <2> QED
      BY <2>2, <2>3, <2>10
  <1>26. ArenaTypes'
    BY <1>13, <1>15, <1>18, <1>22, <1>25 DEF ArenaTypes
  <1>27. SpaceOK'
    <2> SUFFICES ASSUME NEW c \in Arenas
                 PROVE  /\ \A j \in 1 .. Len(D[c]) : ChunkOK(D[c][j])
                        /\ ReservedOK(D[c], reserved'[c])
      BY <1>13 DEF SpaceOK
    <2>1. CASE c # a
      <3>1. D[c] = chain[c] /\ reserved'[c] = reserved[c]
        BY <1>4, <1>5, <1>14, <1>22, <2>1 DEF WithChunk
      <3> QED
        BY <1>1, <3>1 DEF SpaceOK
    <2>2. CASE c = a
      <3>1. reserved'[a] = Append(V[a], r)
        BY <1>22
      <3>2. \A j \in 1 .. m : ChunkOK(C[a][j])
        BY <1>1, <1>4, <1>19 DEF SpaceOK
      <3>3. \A j \in 1 .. m + 1 : ChunkOK(D[a][j])
        BY <1>12, <1>23, <1>24, <3>2
      <3> QED
        BY <1>23, <1>25, <2>2, <3>1, <3>3
    <2> QED
      BY <2>1, <2>2
  <1> QED
    BY <1>18, <1>26, <1>27 DEF ArenaOK

(* SVR_Arena_free returns what the last chunk took, and nothing is reserved any more. *)
LEMMA FreeKeeps ==
  ASSUME ArenaOK, NEW a \in Arenas, A!Free(a)
  PROVE  ArenaOK'
  <1>1. ArenaTypes /\ BlocksOK /\ SpaceOK
    BY DEF ArenaOK
  <1>2. PICK C \in [Arenas -> Seq(Chunk)] : C = chain
    BY <1>1 DEF ArenaTypes
  <1>3. C[a] # << >>
    BY <1>2 DEF A!Free
  <1>4. PICK D : D = WithoutLast(C, a)
    OBVIOUS
  <1>5. /\ D \in [Arenas -> Seq(Chunk)] /\ Added(D, C, a, Last(C[a])) /\ Last(C[a]) \in Chunk
        /\ Len(C[a]) \in 1 .. Len(C[a]) /\ C[a][Len(C[a])] = Last(C[a])
    BY <1>3, <1>4, FrontAdds
  <1>6. PICK k \in Chunk : k = Last(C[a])
    BY <1>5
  <1>7. Added(D, C, a, k)
    BY <1>5, <1>6
  <1>8. \A s : A!Last(s) = Last(s) /\ A!Front(s) = Front(s)
    BY DEF A!Last, Last, A!Front, Front
  <1>9. chain' = D
    <2>1. chain' = [chain EXCEPT ![a] = A!Front(@)]
      BY DEF A!Free
    <2> QED
      BY <1>2, <1>4, <1>8, <2>1 DEF WithoutLast
  <1>10. made' = made /\ reserved' = [reserved EXCEPT ![a] = << >>]
    BY DEF A!Free
  <1>11. blocks' = [blocks EXCEPT !["chunk"] = IF k.base = 0 THEN @ ELSE Append(@, k.base),
                                  !["descriptor"] = Append(@, k.descriptor)]
    <2>1. A!Last(chain[a]) = k
      BY <1>2, <1>6, <1>8
    <2> QED
      BY <2>1 DEF A!Free, A!External
  <1>12. PICK S \in [A!Allocator -> Seq(Nat)] : S = blocks
    BY <1>1 DEF ArenaTypes
  <1>13. PICK M \in [A!Allocator -> Nat] : M = made
    BY <1>1 DEF ArenaTypes
  <1>14. \A p \in A!Allocator : Once(S[p], M[p], C, p)
    BY <1>1, <1>2, <1>12, <1>13 DEF BlocksOK
  <1>15. ASSUME NEW p \in A!Allocator
         PROVE  \E s \in Seq(Nat) : blocks'[p] = s /\ Once(s, M[p], D, p)
    <2>1. PICK s \in Seq(Nat) : s = S[p]
      OBVIOUS
    <2>2. PICK m \in Nat : m = M[p]
      OBVIOUS
    <2>3. Once(s, m, C, p)
      BY <1>14, <2>1, <2>2
    <2>4. CASE Part(p, k) = 0
      <3>1. p # "descriptor"
        <4>1. p = "descriptor" => Part(p, C[a][Len(C[a])]) # 0
          BY <1>5, <2>3 DEF Once, HeldNotFree
        <4> QED
          BY <1>5, <1>6, <2>4, <4>1
      <3>2. p = "chunk"
        BY <3>1 DEF A!Allocator
      <3>3. k.base = 0
        BY <2>4, <3>2 DEF Part
      <3>4. blocks'[p] = s
        BY <1>11, <1>12, <2>1, <3>2, <3>3 DEF A!Allocator
      <3>5. FreeBlocks(s, m)
        BY <2>3 DEF Once
      <3>6. Once(s, m, D, p)
        BY <1>7, <2>3, <2>4, <3>2, <3>5, SkipOnce
      <3> QED
        BY <2>2, <3>4, <3>6
    <2>5. CASE Part(p, k) # 0
      <3>1. Part(p, k) \in Nat /\ Once(Append(s, Part(p, k)), m, D, p)
        BY <1>7, <2>3, <2>5, PutOnce
      <3>2. PICK u \in Seq(Nat) : u = Append(s, Part(p, k))
        BY <3>1, AppendProperties
      <3>3. blocks'[p] = u
        <4>1. CASE p = "chunk"
          BY <1>11, <1>12, <2>1, <2>5, <3>2, <4>1 DEF A!Allocator, Part
        <4>2. CASE p = "descriptor"
          BY <1>11, <1>12, <2>1, <2>5, <3>2, <4>2 DEF A!Allocator, Part
        <4> QED
          BY <4>1, <4>2 DEF A!Allocator
      <3> QED
        BY <2>2, <3>1, <3>2, <3>3
    <2> QED
      BY <2>4, <2>5
  <1>16. blocks' \in [A!Allocator -> Seq(Nat)]
    <2>1. blocks' = [p \in A!Allocator |-> blocks'[p]]
      BY <1>11, <1>12
    <2>2. \A p \in A!Allocator : blocks'[p] \in Seq(Nat)
      BY <1>15
    <2> QED
      BY <2>1, <2>2
  <1>17. BlocksOK'
    <2>1. \A p \in A!Allocator : Once(blocks'[p], made'[p], D, p)
      BY <1>10, <1>13, <1>15
    <2> QED
      BY <1>9, <2>1 DEF BlocksOK
  <1>18. ArenaTypes'
    BY <1>1, <1>5, <1>9, <1>10, <1>16 DEF ArenaTypes
  <1>19. SpaceOK'
    <2> SUFFICES ASSUME NEW c \in Arenas
                 PROVE  /\ \A j \in 1 .. Len(D[c]) : ChunkOK(D[c][j])
                        /\ ReservedOK(D[c], reserved'[c])
      BY <1>9 DEF SpaceOK
    <2>1. \A j \in 1 .. Len(D[c]) : j \in 1 .. Len(C[c]) /\ D[c][j] = C[c][j]
      BY <1>7 DEF Added
    <2>2. \A j \in 1 .. Len(C[c]) : ChunkOK(C[c][j])
      BY <1>1, <1>2 DEF SpaceOK
    <2>3. ReservedOK(D[c], reserved'[c])
      <3>1. reserved \in [Arenas -> Seq(Reservation)]
        BY <1>1 DEF ArenaTypes
      <3>2. CASE c # a
        <4>1. D[c] = chain[c] /\ reserved'[c] = reserved[c]
          BY <1>2, <1>4, <1>10, <3>1, <3>2 DEF WithoutLast
        <4> QED
          BY <1>1, <4>1 DEF SpaceOK
      <3>3. CASE c = a
        <4>1. reserved'[c] = << >>
          BY <1>10, <3>1, <3>3
        <4>2. ReservedOK(D[c], << >>)
          BY DEF ReservedOK
        <4> QED
          BY <4>1, <4>2
      <3> QED
        BY <3>2, <3>3
    <2> QED
      BY <2>1, <2>2, <2>3
  <1> QED
    BY <1>17, <1>18, <1>19 DEF ArenaOK

(* No memory has been taken at first. *)
LEMMA ArenaStarts ==
  ASSUME A!Init
  PROVE  ArenaOK
  <1>1. /\ chain = [a \in Arenas |-> << >>] /\ reserved = [a \in Arenas |-> << >>]
        /\ blocks = [p \in A!Allocator |-> << >>] /\ made = [p \in A!Allocator |-> 0]
    BY DEF A!Init
  <1>2. ArenaTypes
    BY <1>1 DEF ArenaTypes
  <1>3. \A a \in Arenas : chain[a] = << >> /\ reserved[a] = << >>
    BY <1>1
  <1>4. ASSUME NEW p \in A!Allocator
        PROVE  Once(blocks[p], made[p], chain, p)
    <2>1. blocks[p] = << >> /\ made[p] = 0
      BY <1>1
    <2>2. FreeBlocks(<< >>, 0) /\ FreeOnce(<< >>)
      BY DEF FreeBlocks, FreeOnce
    <2>3. \A a \in Arenas : \A i \in 1 .. Len(chain[a]) : FALSE
      BY <1>3
    <2>4. HeldNotFree(<< >>, 0, chain, p) /\ HeldOnce(chain, p)
      BY <2>3 DEF HeldNotFree, HeldOnce
    <2>5. FreeOrHeld(<< >>, 0, chain, p)
      BY DEF FreeOrHeld
    <2> QED
      BY <2>1, <2>2, <2>4, <2>5 DEF Once
  <1>5. ASSUME NEW a \in Arenas
        PROVE  /\ \A i \in 1 .. Len(chain[a]) : ChunkOK(chain[a][i])
               /\ ReservedOK(chain[a], reserved[a])
    BY <1>3 DEF ReservedOK
  <1> QED
    BY <1>2, <1>4, <1>5 DEF ArenaOK, BlocksOK, SpaceOK

(* A set of different numbers between 1 and m, in a sequence, is no longer than m. *)
LEMMA NoLonger ==
  ASSUME NEW s \in Seq(Nat), NEW m \in Nat, FreeBlocks(s, m), FreeOnce(s)
  PROVE  Len(s) <= m
  <1>1. PICK n \in Nat : n = Len(s)
    BY LenProperties
  <1>2. PICK f : f = [i \in 1 .. n |-> s[i]]
    OBVIOUS
  <1>3. f \in [1 .. n -> 1 .. m]
    BY <1>1, <1>2 DEF FreeBlocks
  <1>4. \A i, j \in 1 .. n : f[i] = f[j] => i = j
    BY <1>1, <1>2 DEF FreeOnce
  <1>5. f \in Injection(1 .. n, 1 .. m)
    BY <1>3, <1>4 DEF Injection, IsInjective
  <1>6. ExistsInjection(1 .. n, 1 .. m)
    BY <1>5 DEF ExistsInjection
  <1> QED
    BY <1>1, <1>6, Fun_NatInjLeq

(* The places of a block: one. *)
LEMMA OneUse ==
  ASSUME ArenaTypes, NEW p \in A!Allocator, Once(blocks[p], made[p], chain, p),
         NEW b \in 1 .. made[p]
  PROVE  Cardinality(A!BlockUses(p, b)) = 1
  <1>1. PICK s \in Seq(Nat) : s = blocks[p]
    BY DEF ArenaTypes
  <1>2. PICK C \in [Arenas -> Seq(Chunk)] : C = chain
    BY DEF ArenaTypes
  <1>3. PICK m \in Nat : m = made[p]
    BY DEF ArenaTypes
  <1>4. b \in 1 .. m /\ b # 0
    BY <1>3
  <1>5. FreeOnce(s) /\ HeldNotFree(s, m, C, p) /\ HeldOnce(C, p) /\ FreeOrHeld(s, m, C, p)
    BY <1>1, <1>2, <1>3 DEF Once
  <1>6. DOMAIN s = 1 .. Len(s) /\ \A a \in Arenas : DOMAIN C[a] = 1 .. Len(C[a])
    BY LenProperties
  <1>7. A!BlockUses(p, b) = {<<"free", i>> : i \in {i \in 1 .. Len(s) : s[i] = b}}
          \cup UNION {{<<a, i>> : i \in {i \in 1 .. Len(C[a]) : b = Part(p, C[a][i])}} : a \in Arenas}
    BY <1>1, <1>2, <1>6 DEF A!BlockUses, Part
  <1>8. \A x \in A!BlockUses(p, b) :
          \/ \E i \in 1 .. Len(s) : s[i] = b /\ x = <<"free", i>>
          \/ \E a \in Arenas : \E i \in 1 .. Len(C[a]) : b = Part(p, C[a][i]) /\ x = <<a, i>>
    BY <1>7
  <1>9. \E x : A!BlockUses(p, b) = {x}
    <2>1. CASE \E i \in 1 .. Len(s) : s[i] = b
      <3>1. PICK i \in 1 .. Len(s) : s[i] = b
        BY <2>1
      <3>2. <<"free", i>> \in A!BlockUses(p, b)
        BY <1>7, <3>1
      <3>3. \A x \in A!BlockUses(p, b) : x = <<"free", i>>
        <4>1. \A j \in 1 .. Len(s) : s[j] = b => j = i
          BY <1>5, <3>1 DEF FreeOnce
        <4>2. \A a \in Arenas : \A j \in 1 .. Len(C[a]) : b # Part(p, C[a][j])
          BY <1>5, <3>1 DEF HeldNotFree
        <4> QED
          BY <1>8, <4>1, <4>2
      <3> QED
        BY <3>2, <3>3
    <2>2. CASE ~\E i \in 1 .. Len(s) : s[i] = b
      <3>1. \E a \in Arenas : \E i \in 1 .. Len(C[a]) : Part(p, C[a][i]) = b
        BY <1>4, <1>5, <2>2 DEF FreeOrHeld
      <3>2. PICK a \in Arenas : \E i \in 1 .. Len(C[a]) : Part(p, C[a][i]) = b
        BY <3>1
      <3>3. PICK i \in 1 .. Len(C[a]) : Part(p, C[a][i]) = b
        BY <3>2
      <3>4. <<a, i>> \in A!BlockUses(p, b)
        BY <1>7, <3>3
      <3>5. \A x \in A!BlockUses(p, b) : x = <<a, i>>
        <4>1. \A c \in Arenas : \A j \in 1 .. Len(C[c]) : Part(p, C[c][j]) = b => c = a /\ j = i
          BY <1>4, <1>5, <3>3 DEF HeldOnce
        <4> QED
          BY <1>8, <2>2, <4>1
      <3> QED
        BY <3>4, <3>5
    <2> QED
      BY <2>1, <2>2
  <1> QED
    BY <1>9, FS_Singleton

(* What follows from the invariant. *)
LEMMA ArenaApart ==
  ASSUME ArenaOK
  PROVE  A!MemoryApart
  <1>1. ArenaTypes /\ BlocksOK /\ SpaceOK
    BY DEF ArenaOK
  <1>2. A!BlocksOnce
    <2> SUFFICES ASSUME NEW p \in A!Allocator
                 PROVE  /\ \A b \in 1 .. made[p] : Cardinality(A!BlockUses(p, b)) = 1
                        /\ Len(blocks[p]) <= made[p]
      <3>1. \A S : A!Cardinality(S) = Cardinality(S)
        BY DEF A!Cardinality, Cardinality
      <3> QED
        BY <3>1 DEF A!BlocksOnce
    <2>1. Once(blocks[p], made[p], chain, p)
      BY <1>1 DEF BlocksOK
    <2>2. blocks[p] \in Seq(Nat) /\ made[p] \in Nat
      BY <1>1 DEF ArenaTypes
    <2>3. Len(blocks[p]) <= made[p]
      BY <2>1, <2>2, NoLonger DEF Once
    <2> QED
      BY <1>1, <2>1, <2>3, OneUse
  <1>3. A!ReservationsApart
    <2> SUFFICES ASSUME NEW a \in Arenas, NEW i \in DOMAIN reserved[a]
                 PROVE  /\ reserved[a][i].first + reserved[a][i].size
                             <= chain[a][reserved[a][i].chunk].size
                        /\ reserved[a][i].first % Alignment = 0
                        /\ \A j \in 1 .. i - 1 : reserved[a][j].chunk = reserved[a][i].chunk
                             => A!Bytes(reserved[a][j]) \cap A!Bytes(reserved[a][i]) = {}
      BY DEF A!ReservationsApart
    <2>1. PICK c \in Seq(Chunk) : c = chain[a]
      BY <1>1 DEF ArenaTypes
    <2>2. PICK v \in Seq(Reservation) : v = reserved[a]
      BY <1>1 DEF ArenaTypes
    <2>3. PICK n \in Nat : n = Len(v) /\ i \in 1 .. n
      BY <2>2, LenProperties
    <2>4. ReservedOK(c, v) /\ \A j \in 1 .. Len(c) : ChunkOK(c[j])
      BY <1>1, <2>1, <2>2 DEF SpaceOK
    <2>5. \A j \in 1 .. n : v[j] \in Reservation
      BY <2>3, ElementOfSeq
    <2>6. PICK x \in 1 .. Len(c) : x = v[i].chunk
      BY <2>3, <2>4 DEF ReservedOK
    <2>7. /\ v[i].first + v[i].size <= c[x].write_index /\ v[i].first % Alignment = 0
          /\ \A j \in 1 .. i - 1 : v[j].chunk = v[i].chunk => v[j].first + v[j].size <= v[i].first
      BY <2>3, <2>4, <2>6 DEF ReservedOK
    <2>8. v[i].first + v[i].size <= c[x].size
      <3>1. c[x] \in Chunk /\ c[x].write_index <= c[x].size
        BY <2>4, ElementOfSeq DEF ChunkOK
      <3>2. PICK y \in Nat, z \in Nat : y = c[x].write_index /\ z = c[x].size
        BY <3>1, ChunkFields
      <3>3. PICK f \in Nat, g \in Nat : f = v[i].first /\ g = v[i].size
        BY <2>3, <2>5, ReservationFields
      <3>4. f + g <= y /\ y <= z
        BY <2>7, <3>1, <3>2, <3>3
      <3>5. f + g <= z
        BY <3>4
      <3> QED
        BY <3>2, <3>3, <3>5
    <2>9. ASSUME NEW j \in 1 .. i - 1, v[j].chunk = v[i].chunk
          PROVE  A!Bytes(v[j]) \cap A!Bytes(v[i]) = {}
      <3>1. j \in 1 .. n
        BY <2>3
      <3>2. PICK f \in Nat, g \in Nat : f = v[i].first /\ g = v[i].size
        BY <2>3, <2>5, ReservationFields
      <3>3. PICK d \in Nat, e \in Nat : d = v[j].first /\ e = v[j].size
        BY <2>5, <3>1, ReservationFields
      <3>4. d + e <= f
        BY <2>7, <2>9, <3>2, <3>3
      <3>5. (d .. d + e - 1) \cap (f .. f + g - 1) = {}
        BY <3>4
      <3>6. A!Bytes(v[j]) = d .. d + e - 1 /\ A!Bytes(v[i]) = f .. f + g - 1
        BY <3>2, <3>3 DEF A!Bytes
      <3> QED
        BY <3>5, <3>6
    <2> QED
      BY <2>1, <2>2, <2>6, <2>7, <2>8, <2>9
  <1> QED
    BY <1>2, <1>3 DEF A!MemoryApart

(* Every block of an allocator is free or in one chunk, and what is reserved in an arena lies
   within its chunk, on a boundary and apart from the rest: for any number of arenas that are
   filled and freed at once, any sizes, and external chunks among the others. *)
THEOREM MemoryStaysApart == Spec => []MemoryApart
  <1>1. Init => ArenaOK
    <2> SUFFICES ASSUME Init PROVE ArenaOK
      OBVIOUS
    <2>1. A!Init
      BY DEF Init
    <2> QED
      BY <2>1, ArenaStarts
  <1>2. ArenaOK /\ [Next]_vars => ArenaOK'
    <2> SUFFICES ASSUME ArenaOK, [Next]_vars PROVE ArenaOK'
      OBVIOUS
    <2>1. CASE UNCHANGED arena
      <3>1. UNCHANGED <<chain, blocks, made, reserved>>
        BY <2>1 DEF arena
      <3>2. ArenaTypes' /\ BlocksOK' /\ SpaceOK'
        BY <3>1 DEF ArenaOK, ArenaTypes, BlocksOK, SpaceOK
      <3> QED
        BY <3>2 DEF ArenaOK
    <2>2. CASE A!Next
      <3>1. PICK a \in Arenas : \/ A!Alloc(a) \/ A!Free(a)
                                \/ \E n \in Sizes : A!ReserveFound(a, n) \/ A!ReserveNew(a, n)
        BY <2>2 DEF A!Next
      <3>2. CASE A!Alloc(a)
        BY <3>2, AllocKeeps
      <3>3. CASE A!Free(a)
        BY <3>3, FreeKeeps
      <3>4. ASSUME NEW n \in Sizes, A!ReserveFound(a, n)
            PROVE  ArenaOK'
        BY <3>4, ReserveFoundKeeps
      <3>5. ASSUME NEW n \in Sizes, A!ReserveNew(a, n)
            PROVE  ArenaOK'
        BY <3>5, ReserveNewKeeps
      <3> QED
        BY <3>1, <3>2, <3>3, <3>4, <3>5
    <2>3. A!Next \/ UNCHANGED arena
      BY DEF Next, vars
    <2> QED
      BY <2>1, <2>2, <2>3
  <1>3. ArenaOK => MemoryApart
    BY ArenaApart DEF MemoryApart
  <1> QED
    BY <1>1, <1>2, <1>3, PTL DEF Spec

-----------------------------------------------------------------------------
(* Option strings. *)

(* The order of the numbers. *)
Below == {ss \in Nat \X Nat : ss[1] < ss[2]}

(* Every set of numbers has a least ... *)
LEMMA Least ==
  ASSUME NEW T, T \subseteq Nat, T # {}
  PROVE  \E x \in T : \A y \in T : x <= y
  <1>1. IsWellFoundedOn(Below, Nat)
    BY NatLessThanWellFounded DEF OpToRel, Below
  <1>2. PICK x \in T : \A y \in T : ~(<<y, x>> \in Below)
    BY <1>1, WFMin
  <1>3. \A y \in T : x <= y
    <2> SUFFICES ASSUME NEW y \in T
                 PROVE  x <= y
      OBVIOUS
    <2>1. x \in Nat /\ y \in Nat
      OBVIOUS
    <2>2. ~(y < x)
      BY <1>2, <2>1 DEF Below
    <2> QED
      BY <2>1, <2>2
  <1> QED
    BY <1>3

(* ... and a greatest, if it is bounded. *)
LEMMA Greatest ==
  ASSUME NEW n \in Nat, NEW T, T \subseteq 0 .. n, T # {}
  PROVE  \E x \in T : \A y \in T : y <= x
  <1>1. PICK U : U = {k \in Nat : k <= n /\ n - k \in T}
    OBVIOUS
  <1>2. \A y \in T : y \in Nat /\ n - y \in Nat /\ n - y <= n /\ n - (n - y) = y
    OBVIOUS
  <1>3. \A y \in T : n - y \in U
    BY <1>1, <1>2
  <1>4. U \subseteq Nat /\ U # {}
    BY <1>1, <1>3
  <1>5. PICK u \in U : \A y \in U : u <= y
    BY <1>4, Least
  <1>6. u \in Nat /\ u <= n /\ n - u \in T
    BY <1>1
  <1>7. \A y \in T : y <= n - u
    <2> SUFFICES ASSUME NEW y \in T
                 PROVE  y <= n - u
      OBVIOUS
    <2>1. u <= n - y /\ y \in Nat
      BY <1>2, <1>3, <1>5
    <2> QED
      BY <1>6, <2>1
  <1> QED
    BY <1>6, <1>7

(* The least element is what Min takes ... *)
LEMMA MinIs ==
  ASSUME NEW T, T \subseteq Nat, NEW x \in T, \A y \in T : x <= y
  PROVE  O!Min(T) = x
  <1>1. \A v \in T : (\A u \in T : v <= u) => v = x
    <2> SUFFICES ASSUME NEW v \in T, \A u \in T : v <= u
                 PROVE  v = x
      OBVIOUS
    <2>1. v <= x /\ x <= v /\ x \in Nat /\ v \in Nat
      OBVIOUS
    <2> QED
      BY <2>1
  <1> QED
    BY <1>1 DEF O!Min

(* ... and the greatest what Max takes. *)
LEMMA MaxIs ==
  ASSUME NEW T, T \subseteq Nat, NEW x \in T, \A y \in T : y <= x
  PROVE  O!Max(T) = x
  <1>1. \A v \in T : (\A u \in T : v >= u) => v = x
    <2> SUFFICES ASSUME NEW v \in T, \A u \in T : v >= u
                 PROVE  v = x
      OBVIOUS
    <2>1. x <= v /\ v <= x /\ x \in Nat /\ v \in Nat
      OBVIOUS
    <2> QED
      BY <2>1
  <1>2. \A y \in T : x >= y
    OBVIOUS
  <1> QED
    BY <1>1, <1>2 DEF O!Max

(* The characters of a string. *)
Letter == O!Char \ {"end"}

(* p is the first place from i on whose character is not in the class. *)
PastOK(d, i, class, p) == /\ p \in Nat /\ i <= p /\ p < Len(d) /\ d[p + 1] \notin class
                          /\ \A j \in i + 1 .. p : d[j] \in class

(* Skipping a class of characters ends, at the terminator if not before. *)
LEMMA PastStops ==
  ASSUME NEW d \in Seq(O!Char), NEW i \in Nat, i < Len(d), d[Len(d)] = "end",
         NEW class, "end" \notin class
  PROVE  PastOK(d, i, class, O!Past(d, i, class))
  <1>1. PICK n \in Nat : n = Len(d)
    BY LenProperties
  <1>2. PICK T : T = {j \in i .. n - 1 : d[j + 1] \notin class}
    OBVIOUS
  <1>3. O!Past(d, i, class) = O!Min(T)
    BY <1>1, <1>2 DEF O!Past, O!Here
  <1>4. T \subseteq Nat
    BY <1>2
  <1>5. n - 1 \in T
    <2>1. n - 1 \in i .. n - 1 /\ (n - 1) + 1 = n
      BY <1>1
    <2> QED
      BY <1>1, <1>2, <2>1
  <1>6. PICK x \in T : \A y \in T : x <= y
    BY <1>4, <1>5, Least
  <1>7. O!Min(T) = x
    BY <1>4, <1>6, MinIs
  <1>8. x \in Nat /\ i <= x /\ x < n /\ d[x + 1] \notin class
    BY <1>2, <1>6
  <1>9. \A j \in i + 1 .. x : d[j] \in class
    <2> SUFFICES ASSUME NEW j \in i + 1 .. x, d[j] \notin class
                 PROVE  FALSE
      OBVIOUS
    <2>1. PICK k \in Nat : k = j - 1
      BY <1>8
    <2>2. k \in i .. n - 1 /\ k + 1 = j /\ ~(x <= k)
      BY <1>8, <2>1
    <2>3. k \in T
      BY <1>2, <2>2
    <2> QED
      BY <1>6, <2>2, <2>3
  <1> QED
    BY <1>1, <1>3, <1>7, <1>8, <1>9 DEF PastOK

(* x is the first c in i .. j. *)
FirstOK(s, i, j, c, x) == /\ x \in i .. j + 1 /\ \A k \in i .. x - 1 : s[k] # c
                          /\ x <= j => s[x] = c

(* There is only one first place: First finds it ... *)
LEMMA FirstIs ==
  ASSUME NEW s, NEW i \in Nat, NEW j \in Nat, NEW c, NEW x, FirstOK(s, i, j, c, x)
  PROVE  O!First(s, i, j, c) = x
  <1>1. PICK T : T = {k \in i .. j : s[k] = c} \cup {j + 1}
    OBVIOUS
  <1>2. T \subseteq Nat
    BY <1>1
  <1>3. x \in Nat /\ i <= x /\ x <= j + 1 /\ (x <= j \/ x = j + 1)
    BY DEF FirstOK
  <1>4. x \in T
    BY <1>1, <1>3 DEF FirstOK
  <1>5. \A y \in T : x <= y
    <2> SUFFICES ASSUME NEW y \in T, ~(x <= y)
                 PROVE  FALSE
      OBVIOUS
    <2>1. y \in i .. j /\ s[y] = c
      BY <1>1, <1>3
    <2>2. y \in i .. x - 1
      BY <1>3, <2>1
    <2> QED
      BY <2>1, <2>2 DEF FirstOK
  <1> QED
    BY <1>1, <1>2, <1>4, <1>5, MinIs DEF O!First

(* ... and there always is one, the place behind j if the character is not there. *)
LEMMA FirstExists ==
  ASSUME NEW s, NEW i \in Nat, NEW j \in Nat, i <= j + 1, NEW c
  PROVE  FirstOK(s, i, j, c, O!First(s, i, j, c))
  <1>1. PICK T : T = {k \in i .. j : s[k] = c} \cup {j + 1}
    OBVIOUS
  <1>2. T \subseteq Nat /\ T # {}
    BY <1>1
  <1>3. PICK x \in T : \A y \in T : x <= y
    BY <1>2, Least
  <1>4. x \in i .. j + 1 /\ (x <= j => s[x] = c)
    BY <1>1
  <1>5. \A k \in i .. x - 1 : s[k] # c
    <2> SUFFICES ASSUME NEW k \in i .. x - 1, s[k] = c
                 PROVE  FALSE
      OBVIOUS
    <2>1. k \in i .. j /\ ~(x <= k)
      BY <1>4
    <2>2. k \in T
      BY <1>1, <2>1
    <2> QED
      BY <1>3, <2>1, <2>2
  <1>6. FirstOK(s, i, j, c, x)
    BY <1>4, <1>5 DEF FirstOK
  <1> QED
    BY <1>6, FirstIs

(* A string between two places. *)
LEMMA Cut ==
  ASSUME NEW s \in Seq(Letter), NEW a \in Nat, NEW b \in Nat, 1 <= a, a <= b + 1, b <= Len(s)
  PROVE  /\ SubSeq(s, a, b) \in Seq(Letter) /\ Len(SubSeq(s, a, b)) = b + 1 - a
         /\ \A i \in 1 .. b + 1 - a : SubSeq(s, a, b)[i] = s[a + i - 1]
  <1>1. \A i \in a .. b : i \in 1 .. Len(s) /\ s[i] \in Letter
    BY ElementOfSeq, LenProperties
  <1>2. /\ SubSeq(s, a, b) \in Seq(Letter)
        /\ Len(SubSeq(s, a, b)) = IF a <= b THEN b - a + 1 ELSE 0
        /\ \A i \in 1 .. b - a + 1 : SubSeq(s, a, b)[i] = s[a + i - 1]
    BY <1>1, SubSeqProperties
  <1>3. b - a + 1 = b + 1 - a /\ (~(a <= b) => b + 1 - a = 0)
    OBVIOUS
  <1> QED
    BY <1>2, <1>3

(* A part that ends before it starts is empty. *)
LEMMA CutEmpty ==
  ASSUME NEW s \in Seq(Letter), NEW a \in Int, NEW b \in Int, b < a
  PROVE  SubSeq(s, a, b) = << >>
  <1>1. \A i \in a .. b : FALSE
    OBVIOUS
  <1> QED
    BY <1>1, SubSeqProperties, EmptySeq

(* Only spaces. *)
Blank(s, i, j) == \A k \in i .. j : s[k] = "space"

(* What is stripped starts at the first character that is no space ... *)
LEMMA StrippedFrom ==
  ASSUME NEW s \in Seq(Letter), NEW i \in Nat \ {0}, NEW j \in Nat, NEW a \in i .. j,
         Blank(s, i, a - 1), s[a] # "space"
  PROVE  O!Min(O!Text(s, i, j)) = a
  <1>1. PICK T : T = O!Text(s, i, j)
    OBVIOUS
  <1>2. T \subseteq Nat /\ a \in T
    BY <1>1 DEF O!Text
  <1>3. \A y \in T : a <= y
    <2> SUFFICES ASSUME NEW y \in T, ~(a <= y)
                 PROVE  FALSE
      OBVIOUS
    <2>1. y \in i .. j /\ s[y] # "space" /\ y \in i .. a - 1
      BY <1>1 DEF O!Text
    <2> QED
      BY <2>1 DEF Blank
  <1>4. O!Min(T) = a
    BY <1>2, <1>3, MinIs
  <1> QED
    BY <1>1, <1>4

(* ... and ends at the last one. *)
LEMMA StrippedTo ==
  ASSUME NEW s \in Seq(Letter), NEW i \in Nat \ {0}, NEW j \in Nat, NEW b \in i .. j,
         Blank(s, b + 1, j), s[b] # "space"
  PROVE  O!Max(O!Text(s, i, j)) = b
  <1>1. PICK T : T = O!Text(s, i, j)
    OBVIOUS
  <1>2. T \subseteq Nat /\ b \in T
    BY <1>1 DEF O!Text
  <1>3. \A y \in T : y <= b
    <2> SUFFICES ASSUME NEW y \in T, ~(y <= b)
                 PROVE  FALSE
      OBVIOUS
    <2>1. y \in i .. j /\ s[y] # "space" /\ y \in b + 1 .. j
      BY <1>1 DEF O!Text
    <2> QED
      BY <2>1 DEF Blank
  <1>4. O!Max(T) = b
    BY <1>2, <1>3, MaxIs
  <1> QED
    BY <1>1, <1>4

(* So stripping drops the spaces at both ends ... *)
LEMMA StrippedIs ==
  ASSUME NEW s \in Seq(Letter), NEW i \in Nat \ {0}, NEW j \in Nat, NEW a \in i .. j, NEW b \in a .. j,
         Blank(s, i, a - 1), s[a] # "space", Blank(s, b + 1, j), s[b] # "space"
  PROVE  O!Stripped(s, i, j) = SubSeq(s, a, b)
  <1>1. b \in i .. j
    OBVIOUS
  <1>2. O!Min(O!Text(s, i, j)) = a /\ O!Max(O!Text(s, i, j)) = b
    BY <1>1, StrippedFrom, StrippedTo
  <1>3. O!Text(s, i, j) # {}
    BY DEF O!Text
  <1> QED
    BY <1>2, <1>3 DEF O!Stripped

(* ... and leaves nothing of spaces. *)
LEMMA StrippedBlank ==
  ASSUME NEW s, NEW i, NEW j, Blank(s, i, j)
  PROVE  O!Stripped(s, i, j) = << >>
  <1>1. O!Text(s, i, j) = {}
    BY DEF O!Text, Blank
  <1> QED
    BY <1>1 DEF O!Stripped

(* A part with spaces at its end is its text with spaces after it. *)
LEMMA PaddedCut ==
  ASSUME NEW s \in Seq(Letter), NEW a \in Nat, NEW b \in Nat, NEW c \in Nat, 1 <= a, a <= b, b <= c,
         c <= Len(s), Blank(s, b + 1, c)
  PROVE  O!IsPadded(SubSeq(s, a, c), SubSeq(s, a, b)) /\ SubSeq(s, a, b) # << >>
  <1>1. a <= b + 1 /\ a <= c + 1 /\ b <= Len(s)
    BY LenProperties
  <1>2. PICK l \in Nat \ {0} : l = b + 1 - a
    OBVIOUS
  <1>3. PICK m \in Nat : m = c + 1 - a
    OBVIOUS
  <1>4. PICK v \in Seq(Letter) : v = SubSeq(s, a, b)
    BY <1>1, Cut
  <1>5. PICK t \in Seq(Letter) : t = SubSeq(s, a, c)
    BY <1>1, Cut
  <1>6. Len(v) = l /\ \A i \in 1 .. l : v[i] = s[a + i - 1]
    BY <1>1, <1>2, <1>4, Cut
  <1>7. Len(t) = m /\ \A i \in 1 .. m : t[i] = s[a + i - 1]
    BY <1>1, <1>3, <1>5, Cut
  <1>8. l <= m /\ 1 <= l + 1 /\ l + 1 - 1 = l
    BY <1>2, <1>3
  <1>9. PICK u \in Seq(Letter) : u = SubSeq(t, 1, l)
    <2>1. 1 \in Nat /\ l \in Nat /\ 1 <= 1 /\ 1 <= l + 1 /\ l <= Len(t)
      BY <1>7, <1>8
    <2>2. SubSeq(t, 1, l) \in Seq(Letter)
      BY <2>1, Cut
    <2> QED
      BY <2>2
  <1>10. Len(u) = l /\ \A i \in 1 .. l : u[i] = t[1 + i - 1]
    BY <1>7, <1>8, <1>9, Cut
  <1>11. \A i \in 1 .. l : u[i] = v[i]
    <2> SUFFICES ASSUME NEW i \in 1 .. l
                 PROVE  u[i] = v[i]
      OBVIOUS
    <2>1. 1 + i - 1 = i /\ i \in 1 .. m
      BY <1>8
    <2> QED
      BY <1>6, <1>7, <1>10, <2>1
  <1>12. u = v
    BY <1>6, <1>10, <1>11, SeqEqual
  <1>13. \A i \in l + 1 .. m : t[i] = "space"
    <2> SUFFICES ASSUME NEW i \in l + 1 .. m
                 PROVE  t[i] = "space"
      OBVIOUS
    <2>1. i \in 1 .. m /\ a + i - 1 \in b + 1 .. c
      BY <1>2, <1>3
    <2> QED
      BY <1>7, <2>1 DEF Blank
  <1>14. v # << >>
    BY <1>6
  <1> QED
    BY <1>4, <1>5, <1>6, <1>7, <1>8, <1>9, <1>12, <1>13, <1>14 DEF O!IsPadded

(* Names. *)
LEMMA NameIs ==
  ASSUME NEW s \in Seq(Letter), NEW a \in Nat, NEW b \in Nat, 1 <= a, a <= b, b <= Len(s),
         \A k \in a .. b : s[k] \in O!Name
  PROVE  O!IsName(SubSeq(s, a, b))
  <1>1. PICK t \in Seq(Letter) : t = SubSeq(s, a, b)
    <2>1. a <= b + 1
      OBVIOUS
    <2> QED
      BY <2>1, Cut
  <1>2. PICK n \in Nat : n = b + 1 - a
    OBVIOUS
  <1>3. Len(t) = n /\ \A i \in 1 .. n : t[i] = s[a + i - 1]
    <2>1. a <= b + 1
      OBVIOUS
    <2> QED
      BY <1>1, <1>2, <2>1, Cut
  <1>4. \A i \in 1 .. n : t[i] \in O!Name
    <2> SUFFICES ASSUME NEW i \in 1 .. n
                 PROVE  t[i] \in O!Name
      OBVIOUS
    <2>1. PICK k \in a .. b : k = a + i - 1
      BY <1>2
    <2> QED
      BY <1>3, <2>1
  <1>5. DOMAIN t = 1 .. n
    BY <1>1, <1>3
  <1>6. O!Range(t) \subseteq O!Name
    BY <1>4, <1>5 DEF O!Range
  <1>7. t # << >>
    BY <1>2, <1>3
  <1> QED
    BY <1>1, <1>6, <1>7 DEF O!IsName

(* A part with a character that names cannot have is no name. *)
LEMMA NameNot ==
  ASSUME NEW s \in Seq(Letter), NEW a \in Nat, NEW b \in Nat, 1 <= a, b <= Len(s),
         NEW k \in a .. b, s[k] \notin O!Name
  PROVE  SubSeq(s, a, b) # << >> /\ ~O!IsName(SubSeq(s, a, b))
  <1>0. a <= b + 1
    OBVIOUS
  <1>1. PICK t \in Seq(Letter) : t = SubSeq(s, a, b)
    BY <1>0, Cut
  <1>2. PICK n \in Nat : n = b + 1 - a
    OBVIOUS
  <1>3. Len(t) = n /\ \A i \in 1 .. n : t[i] = s[a + i - 1]
    BY <1>0, <1>1, <1>2, Cut
  <1>4. PICK i \in 1 .. n : i = k + 1 - a
    BY <1>2
  <1>5. a + i - 1 = k
    BY <1>4
  <1>6. t[i] = s[k] /\ DOMAIN t = 1 .. n
    BY <1>1, <1>3, <1>5
  <1>7. ~(O!Range(t) \subseteq O!Name)
    BY <1>4, <1>6 DEF O!Range
  <1>8. t # << >>
    BY <1>2, <1>3, <1>4
  <1> QED
    BY <1>1, <1>7, <1>8 DEF O!IsName

(* A text with something else than a name in it, and more after it. *)
LEMMA StrippedNot ==
  ASSUME NEW s \in Seq(Letter), NEW i \in Nat \ {0}, NEW j \in Nat, j <= Len(s), NEW a \in i .. j,
         Blank(s, i, a - 1), s[a] # "space", NEW e \in a .. j, s[e] \notin O!Name,
         NEW m \in e .. j, s[m] # "space"
  PROVE  O!Stripped(s, i, j) # << >> /\ ~O!IsName(O!Stripped(s, i, j))
  <1>1. PICK T : T = {k \in i .. j : s[k] # "space"}
    OBVIOUS
  <1>2. T \subseteq 0 .. j /\ m \in T
    BY <1>1
  <1>3. PICK b \in T : \A y \in T : y <= b
    BY <1>2, Greatest
  <1>4. b \in i .. j /\ s[b] # "space" /\ m <= b
    BY <1>1, <1>2, <1>3
  <1>5. Blank(s, b + 1, j)
    <2> SUFFICES ASSUME NEW k \in b + 1 .. j, s[k] # "space"
                 PROVE  FALSE
      BY DEF Blank
    <2>1. k \in i .. j /\ ~(k <= b)
      BY <1>4
    <2> QED
      BY <1>1, <1>3, <2>1
  <1>6. b \in a .. j /\ e \in a .. b
    BY <1>4
  <1>7. O!Stripped(s, i, j) = SubSeq(s, a, b)
    BY <1>4, <1>5, <1>6, StrippedIs
  <1>8. a \in Nat /\ b \in Nat /\ 1 <= a /\ b <= Len(s)
    BY <1>4, LenProperties
  <1> QED
    BY <1>6, <1>7, <1>8, NameNot

(* The colon and the commas. *)
LEMMA ColonPlace ==
  ASSUME NEW s \in Seq(Letter)
  PROVE  FirstOK(s, 1, Len(s), "colon", O!Colon(s)) /\ O!Colon(s) \in 1 .. Len(s) + 1
  <1>1. PICK n \in Nat : n = Len(s)
    BY LenProperties
  <1>2. 1 <= n + 1 /\ 1 \in Nat
    OBVIOUS
  <1>3. FirstOK(s, 1, n, "colon", O!First(s, 1, n, "colon"))
    BY <1>2, FirstExists
  <1> QED
    BY <1>1, <1>3 DEF O!Colon, FirstOK

(* How many commas there are after the colon, up to j. *)
Count(s, j) == Cardinality(O!Commas(s, j))

(* The commas up to a place are finitely many ... *)
LEMMA CountFacts ==
  ASSUME NEW s \in Seq(Letter), NEW j \in Nat
  PROVE  IsFiniteSet(O!Commas(s, j)) /\ Count(s, j) \in Nat
  <1>1. O!Colon(s) \in 1 .. Len(s) + 1
    BY ColonPlace
  <1>2. O!Colon(s) + 1 \in Int
    BY <1>1, LenProperties
  <1>3. IsFiniteSet(O!Colon(s) + 1 .. j)
    BY <1>2, FS_Interval
  <1>4. O!Commas(s, j) \subseteq O!Colon(s) + 1 .. j
    BY DEF O!Commas
  <1>5. IsFiniteSet(O!Commas(s, j))
    BY <1>3, <1>4, FS_Subset
  <1> QED
    BY <1>5, FS_CardinalityType DEF Count

(* ... and no fewer further on. *)
LEMMA CountGrows ==
  ASSUME NEW s \in Seq(Letter), NEW i \in Nat, NEW j \in Nat, i <= j
  PROVE  Count(s, i) <= Count(s, j)
  <1>1. O!Colon(s) \in Nat
    BY ColonPlace, LenProperties
  <1>2. O!Commas(s, i) \subseteq O!Commas(s, j)
    BY <1>1 DEF O!Commas
  <1> QED
    BY <1>2, CountFacts, FS_Subset DEF Count

(* No comma in i + 1 .. j. *)
NoComma(s, i, j) == \A k \in i + 1 .. j : s[k] # "comma"

(* Where there is no comma the number stays ... *)
LEMMA CountStays ==
  ASSUME NEW s \in Seq(Letter), NEW i \in Nat, NEW j \in Nat, i <= j, NoComma(s, i, j)
  PROVE  Count(s, i) = Count(s, j)
  <1>1. PICK c \in Nat : c = O!Colon(s)
    BY ColonPlace, LenProperties
  <1>2. {k \in c + 1 .. i : s[k] = "comma"} = {k \in c + 1 .. j : s[k] = "comma"}
    <2>1. \A k \in c + 1 .. j : s[k] = "comma" => k \in c + 1 .. i
      <3> SUFFICES ASSUME NEW k \in c + 1 .. j, s[k] = "comma", ~(k \in c + 1 .. i)
                   PROVE  FALSE
        OBVIOUS
      <3>1. k \in i + 1 .. j
        OBVIOUS
      <3> QED
        BY <3>1 DEF NoComma
    <2>2. \A k \in c + 1 .. i : k \in c + 1 .. j
      OBVIOUS
    <2> QED
      BY <2>1, <2>2
  <1>3. O!Commas(s, i) = O!Commas(s, j)
    BY <1>1, <1>2 DEF O!Commas
  <1> QED
    BY <1>3 DEF Count

(* ... and at a comma it grows by one. *)
LEMMA CountOne ==
  ASSUME NEW s \in Seq(Letter), NEW i \in Nat, NEW e \in Nat, i < e, O!Colon(s) <= i,
         NoComma(s, i, e - 1), s[e] = "comma"
  PROVE  Count(s, e) = Count(s, i) + 1
  <1>1. PICK f \in Nat : f = e - 1
    OBVIOUS
  <1>2. i <= f /\ Count(s, i) = Count(s, f)
    <2>1. i <= f
      BY <1>1
    <2> QED
      BY <1>1, <2>1, CountStays
  <1>3. PICK c \in Nat : c = O!Colon(s)
    BY ColonPlace, LenProperties
  <1>4. {k \in c + 1 .. e : s[k] = "comma"} = {k \in c + 1 .. f : s[k] = "comma"} \cup {e}
    BY <1>1, <1>3
  <1>5. O!Commas(s, e) = O!Commas(s, f) \cup {e} /\ e \notin O!Commas(s, f)
    BY <1>1, <1>3, <1>4 DEF O!Commas
  <1>6. IsFiniteSet(O!Commas(s, f))
    BY CountFacts
  <1>7. Cardinality(O!Commas(s, f) \cup {e}) = Cardinality(O!Commas(s, f)) + 1
    BY <1>5, <1>6, FS_AddElement
  <1> QED
    BY <1>2, <1>5, <1>7 DEF Count

(* b is the comma before the option after k others, or the colon before the first. *)
Begins(s, k, b) == /\ b \in O!Colon(s) .. Len(s) /\ Count(s, b) = k /\ O!Comma(s, k) = b

(* The first option begins at the colon. *)
LEMMA FirstBegins ==
  ASSUME NEW s \in Seq(Letter), O!Colon(s) <= Len(s)
  PROVE  Begins(s, 0, O!Colon(s))
  <1>1. PICK c \in Nat : c = O!Colon(s)
    BY ColonPlace, LenProperties
  <1>2. O!Commas(s, c) = {}
    BY <1>1 DEF O!Commas
  <1>3. Count(s, c) = 0
    BY <1>2, FS_EmptySet DEF Count
  <1>4. c \in c .. Len(s)
    BY <1>1, LenProperties
  <1> QED
    BY <1>1, <1>3, <1>4 DEF Begins, O!Comma

(* The next comma, or the end. *)
LEMMA NextComma ==
  ASSUME NEW s \in Seq(Letter), NEW k \in Nat, NEW b, Begins(s, k, b),
         NEW e \in b + 1 .. Len(s) + 1, NoComma(s, b, e - 1), e <= Len(s) => s[e] = "comma"
  PROVE  /\ O!Comma(s, k + 1) = e
         /\ e <= Len(s) => Begins(s, k + 1, e)
         /\ e = Len(s) + 1 => Count(s, Len(s)) = k
  <1>1. PICK n \in Nat : n = Len(s)
    BY LenProperties
  <1>2. PICK c \in Nat : c = O!Colon(s)
    BY ColonPlace, LenProperties
  <1>3. b \in Nat /\ c <= b /\ b <= n /\ Count(s, b) = k
    BY <1>1, <1>2 DEF Begins
  <1>4. e \in Nat /\ b < e /\ e <= n + 1 /\ e - 1 \in Nat /\ b <= e - 1
    BY <1>1, <1>3
  <1>5. PICK T : T = {i \in O!Commas(s, n) : Count(s, i) = k + 1} \cup {n + 1}
    OBVIOUS
  <1>6. O!Comma(s, k + 1) = O!Min(T)
    <2>1. k + 1 # 0
      OBVIOUS
    <2>2. \A S : O!Cardinality(S) = Cardinality(S)
      BY DEF O!Cardinality, Cardinality
    <2>3. {i \in O!Commas(s, n) : O!Cardinality(O!Commas(s, i)) = k + 1}
            = {i \in O!Commas(s, n) : Count(s, i) = k + 1}
      BY <2>2 DEF Count
    <2> QED
      BY <1>1, <1>5, <2>1, <2>3 DEF O!Comma
  <1>7. \A i \in O!Commas(s, n) : i \in c + 1 .. n /\ s[i] = "comma"
    BY <1>2 DEF O!Commas
  <1>8. T \subseteq Nat
    BY <1>5, <1>7
  <1>9. e <= n => Count(s, e) = k + 1
    BY <1>1, <1>2, <1>3, <1>4, CountOne
  <1>10. e \in T
    <2>1. CASE e <= n
      <3>1. e \in c + 1 .. n /\ s[e] = "comma"
        BY <1>1, <1>3, <1>4, <2>1
      <3>2. e \in O!Commas(s, n)
        BY <1>2, <3>1 DEF O!Commas
      <3> QED
        BY <1>5, <1>9, <2>1, <3>2
    <2>2. CASE ~(e <= n)
      <3>1. e = n + 1
        BY <1>4, <2>2
      <3> QED
        BY <1>5, <3>1
    <2> QED
      BY <2>1, <2>2
  <1>11. \A y \in T : e <= y
    <2> SUFFICES ASSUME NEW y \in T, ~(e <= y)
                 PROVE  FALSE
      OBVIOUS
    <2>1. y # n + 1
      BY <1>4
    <2>2. y \in O!Commas(s, n) /\ Count(s, y) = k + 1
      BY <1>5, <2>1
    <2>3. y \in Nat /\ s[y] = "comma" /\ y < e
      BY <1>4, <1>7, <2>2
    <2>4. CASE y <= b
      <3>1. Count(s, y) <= Count(s, b)
        BY <1>3, <2>3, <2>4, CountGrows
      <3>2. k + 1 <= k
        BY <1>3, <2>2, <3>1
      <3> QED
        BY <3>2
    <2>5. CASE ~(y <= b)
      <3>1. y \in b + 1 .. e - 1
        BY <1>3, <1>4, <2>3, <2>5
      <3> QED
        BY <2>3, <3>1 DEF NoComma
    <2> QED
      BY <2>4, <2>5
  <1>12. O!Comma(s, k + 1) = e
    BY <1>6, <1>8, <1>10, <1>11, MinIs
  <1>13. e <= n => Begins(s, k + 1, e)
    <2> SUFFICES ASSUME e <= n
                 PROVE  Begins(s, k + 1, e)
      OBVIOUS
    <2>1. e \in c .. n
      BY <1>3, <1>4
    <2> QED
      BY <1>1, <1>2, <1>9, <1>12, <2>1 DEF Begins
  <1>14. e = n + 1 => Count(s, n) = k
    <2> SUFFICES ASSUME e = n + 1
                 PROVE  Count(s, n) = k
      OBVIOUS
    <2>1. e - 1 = n
      BY <1>1
    <2>2. NoComma(s, b, n)
      BY <2>1
    <2> QED
      BY <1>3, <2>2, CountStays
  <1> QED
    BY <1>1, <1>12, <1>13, <1>14

(* There is one. *)
LEMMA CommaPlace ==
  ASSUME NEW s \in Seq(Letter), NEW k \in Nat, NEW b, Begins(s, k, b),
         NEW i \in b .. Len(s), NoComma(s, b, i)
  PROVE  O!Comma(s, k + 1) \in i + 1 .. Len(s) + 1
  <1>1. PICK n \in Nat : n = Len(s)
    BY LenProperties
  <1>2. PICK c \in Nat : c = O!Colon(s)
    BY ColonPlace, LenProperties
  <1>3. b \in Nat /\ c <= b /\ b <= n /\ b <= i /\ i <= n /\ i \in Nat
    BY <1>1, <1>2 DEF Begins
  <1>4. PICK e : e = O!First(s, i + 1, n, "comma")
    OBVIOUS
  <1>5. i + 1 \in Nat /\ i + 1 <= n + 1
    BY <1>3
  <1>6. FirstOK(s, i + 1, n, "comma", e)
    BY <1>4, <1>5, FirstExists
  <1>7. /\ e \in i + 1 .. n + 1 /\ (e <= n => s[e] = "comma")
        /\ \A k_1 \in i + 1 .. e - 1 : s[k_1] # "comma"
    BY <1>6 DEF FirstOK
  <1>8. e \in b + 1 .. n + 1
    BY <1>3, <1>7
  <1>9. NoComma(s, b, e - 1)
    <2> SUFFICES ASSUME NEW j \in b + 1 .. e - 1
                 PROVE  s[j] # "comma"
      BY DEF NoComma
    <2>1. j \in b + 1 .. i \/ j \in i + 1 .. e - 1
      BY <1>3, <1>7
    <2> QED
      BY <1>7, <2>1 DEF NoComma
  <1>10. O!Comma(s, k + 1) = e
    BY <1>1, <1>7, <1>8, <1>9, NextComma
  <1> QED
    BY <1>1, <1>7, <1>10

(* The options given. *)
LEMMA GivenUpTo ==
  ASSUME NEW s \in Seq(Letter), NEW k \in Nat, NEW b, Begins(s, k, b),
         NEW m \in O!Colon(s) + 1 .. Len(s), s[m] # "space"
  PROVE  O!Given(s) = 1 .. Count(s, Len(s)) + 1 /\ k + 1 \in O!Given(s)
  <1>1. PICK n \in Nat : n = Len(s)
    BY LenProperties
  <1>2. PICK c \in Nat : c = O!Colon(s)
    BY ColonPlace, LenProperties
  <1>3. b \in Nat /\ b <= n /\ Count(s, b) = k
    BY <1>1, <1>2 DEF Begins
  <1>4. O!Text(s, O!Colon(s) + 1, Len(s)) # {}
    BY DEF O!Text
  <1>5. \A S : O!Cardinality(S) = Cardinality(S)
    BY DEF O!Cardinality, Cardinality
  <1>6. O!Given(s) = 1 .. Count(s, Len(s)) + 1
    BY <1>4, <1>5 DEF O!Given, Count
  <1>7. k <= Count(s, n) /\ Count(s, n) \in Nat
    BY <1>3, CountGrows, CountFacts
  <1>8. k + 1 \in 1 .. Count(s, n) + 1
    BY <1>7
  <1> QED
    BY <1>1, <1>6, <1>8

-----------------------------------------------------------------------------
(* What the parser reads. *)

(* The copy d from the offset o on. *)
Copy(s, d, o) == /\ d \in Seq(O!Char) /\ Len(d) = Len(s) + 1 /\ d[Len(s) + 1] = "end"
                 /\ o \in 0 .. Len(s) /\ \A j \in o + 1 .. Len(s) : d[j] = s[j]

(* What is at place i, counted from 0. *)
CharOf(s, i) == IF i < Len(s) THEN s[i + 1] ELSE "end"

(* Skipping a class in the rest of the copy is skipping it in the string. *)
LEMMA PastInString ==
  ASSUME NEW s \in Seq(Letter), NEW d, NEW o, Copy(s, d, o), NEW i \in o .. Len(s),
         NEW class, "end" \notin class, NEW p, p = O!Past(d, i, class)
  PROVE  /\ p \in Nat /\ i <= p /\ p <= Len(s) /\ O!Here(d, p) = CharOf(s, p)
         /\ CharOf(s, p) \notin class /\ \A j \in i + 1 .. p : s[j] \in class
  <1>1. PICK n \in Nat : n = Len(s)
    BY LenProperties
  <1>2. /\ d \in Seq(O!Char) /\ Len(d) = n + 1 /\ d[n + 1] = "end" /\ o \in Nat
        /\ \A j \in o + 1 .. n : d[j] = s[j]
    BY <1>1 DEF Copy
  <1>3. i \in Nat /\ o <= i /\ i <= n /\ i < n + 1
    BY <1>1, <1>2
  <1>4. i < Len(d) /\ d[Len(d)] = "end"
    BY <1>2, <1>3
  <1>5. PastOK(d, i, class, p)
    BY <1>2, <1>3, <1>4, PastStops
  <1>6. p \in Nat /\ i <= p /\ p < n + 1 /\ d[p + 1] \notin class /\ \A j \in i + 1 .. p : d[j] \in class
    BY <1>2, <1>5 DEF PastOK
  <1>7. d[p + 1] = CharOf(s, p)
    <2>1. CASE p < n
      <3>1. p + 1 \in o + 1 .. n
        BY <1>2, <1>3, <1>6, <2>1
      <3> QED
        BY <1>1, <1>2, <2>1, <3>1 DEF CharOf
    <2>2. CASE ~(p < n)
      <3>1. p = n
        BY <1>6, <2>2
      <3> QED
        BY <1>1, <1>2, <2>2, <3>1 DEF CharOf
    <2> QED
      BY <2>1, <2>2
  <1>8. \A j \in i + 1 .. p : s[j] \in class
    <2> SUFFICES ASSUME NEW j \in i + 1 .. p
                 PROVE  s[j] \in class
      OBVIOUS
    <2>1. j \in o + 1 .. n
      BY <1>2, <1>3, <1>6
    <2> QED
      BY <1>2, <1>6, <2>1
  <1>9. p <= n
    BY <1>6
  <1> QED
    BY <1>1, <1>6, <1>7, <1>8, <1>9 DEF O!Here

(* Spaces, a name and spaces. *)
Scan(s, o, st, en, nx) ==
  /\ st \in Nat /\ en \in Nat /\ nx \in Nat
  /\ o <= st /\ st <= en /\ en <= nx /\ nx <= Len(s)
  /\ Blank(s, o + 1, st) /\ (\A j \in st + 1 .. en : s[j] \in O!Name) /\ Blank(s, en + 1, nx)
  /\ CharOf(s, st) # "space" /\ CharOf(s, en) \notin O!Name /\ CharOf(s, nx) # "space"

(* What ReadObject and ReadOption skip: spaces, a name, spaces. *)
LEMMA Scanned ==
  ASSUME NEW s \in Seq(Letter), NEW d, NEW o, Copy(s, d, o),
         NEW st, st = O!PastSpace(d, o), NEW en, en = O!Past(d, st, O!Name),
         NEW nx, nx = O!PastSpace(d, en)
  PROVE  /\ Scan(s, o, st, en, nx)
         /\ O!Here(d, st) = CharOf(s, st) /\ O!Here(d, nx) = CharOf(s, nx)
  <1>1. PICK n \in Nat : n = Len(s)
    BY LenProperties
  <1>2. o \in Nat /\ o <= n
    BY <1>1 DEF Copy
  <1>3. PICK sp : sp = {"space"}
    OBVIOUS
  <1>4. "end" \notin sp /\ "end" \notin O!Name /\ \A c : c \in sp <=> c = "space"
    BY <1>3 DEF O!Name
  <1>5. st = O!Past(d, o, sp) /\ nx = O!Past(d, en, sp)
    BY <1>3 DEF O!PastSpace
  <1>6. o \in o .. Len(s)
    BY <1>1, <1>2
  <1>7. /\ st \in Nat /\ o <= st /\ st <= n /\ O!Here(d, st) = CharOf(s, st)
        /\ CharOf(s, st) \notin sp /\ \A j \in o + 1 .. st : s[j] \in sp
    BY <1>1, <1>4, <1>5, <1>6, PastInString
  <1>8. st \in o .. Len(s)
    BY <1>1, <1>2, <1>7
  <1>9. /\ en \in Nat /\ st <= en /\ en <= n
        /\ CharOf(s, en) \notin O!Name /\ \A j \in st + 1 .. en : s[j] \in O!Name
    BY <1>1, <1>4, <1>8, PastInString
  <1>10. en \in o .. Len(s)
    BY <1>1, <1>2, <1>7, <1>9
  <1>11. /\ nx \in Nat /\ en <= nx /\ nx <= n /\ O!Here(d, nx) = CharOf(s, nx)
         /\ CharOf(s, nx) \notin sp /\ \A j \in en + 1 .. nx : s[j] \in sp
    BY <1>1, <1>4, <1>5, <1>10, PastInString
  <1> QED
    BY <1>1, <1>4, <1>7, <1>9, <1>11 DEF Scan, Blank

(* Of a scan: if there is no name then there are spaces only, and what is in front of the
   name, in it and behind it is no punctuation. *)
LEMMA ScanFacts ==
  ASSUME NEW s \in Seq(Letter), NEW o \in Nat, NEW st, NEW en, NEW nx, Scan(s, o, st, en, nx)
  PROVE  /\ st = en => Blank(s, o + 1, nx)
         /\ \A j \in o + 1 .. nx : s[j] # "colon" /\ s[j] # "comma" /\ s[j] # "equals"
         /\ st # en => s[st + 1] # "space" /\ s[en] # "space" /\ st + 1 \in 1 .. en /\ en <= Len(s)
         /\ nx < Len(s) => /\ st + 1 \in 1 .. nx + 1 /\ en + 1 \in st + 1 .. nx + 1
                           /\ s[st + 1] # "space" /\ s[en + 1] \notin O!Name /\ s[nx + 1] # "space"
  <1>1. PICK n \in Nat : n = Len(s)
    BY LenProperties
  <1>2. /\ st \in Nat /\ en \in Nat /\ nx \in Nat
        /\ o <= st /\ st <= en /\ en <= nx /\ nx <= n
        /\ Blank(s, o + 1, st) /\ (\A j \in st + 1 .. en : s[j] \in O!Name) /\ Blank(s, en + 1, nx)
        /\ CharOf(s, st) # "space" /\ CharOf(s, en) \notin O!Name /\ CharOf(s, nx) # "space"
    BY <1>1 DEF Scan
  <1>3. \A j \in o + 1 .. nx : \/ j \in o + 1 .. st
                               \/ j \in st + 1 .. en
                               \/ j \in en + 1 .. nx
    BY <1>2
  <1>4. st = en => Blank(s, o + 1, nx)
    <2> SUFFICES ASSUME st = en, NEW j \in o + 1 .. nx
                 PROVE  s[j] = "space"
      BY DEF Blank
    <2>1. j \in o + 1 .. st \/ j \in en + 1 .. nx
      BY <1>2
    <2> QED
      BY <1>2, <2>1 DEF Blank
  <1>5. \A j \in o + 1 .. nx : s[j] # "colon" /\ s[j] # "comma" /\ s[j] # "equals"
    <2> SUFFICES ASSUME NEW j \in o + 1 .. nx
                 PROVE  s[j] # "colon" /\ s[j] # "comma" /\ s[j] # "equals"
      OBVIOUS
    <2>1. s[j] = "space" \/ s[j] \in O!Name
      BY <1>2, <1>3 DEF Blank
    <2> QED
      BY <2>1 DEF O!Name
  <1>6. st # en => s[st + 1] # "space" /\ s[en] # "space" /\ st + 1 \in 1 .. en /\ en <= n
    <2> SUFFICES ASSUME st # en
                 PROVE  s[st + 1] # "space" /\ s[en] # "space" /\ st + 1 \in 1 .. en /\ en <= n
      OBVIOUS
    <2>1. st + 1 \in st + 1 .. en /\ en \in st + 1 .. en /\ st + 1 \in 1 .. en /\ en <= n
      BY <1>2
    <2> QED
      BY <1>2, <2>1 DEF O!Name
  <1>7. ASSUME nx < n
        PROVE  /\ st + 1 \in 1 .. nx + 1 /\ en + 1 \in st + 1 .. nx + 1
               /\ s[st + 1] # "space" /\ s[en + 1] \notin O!Name /\ s[nx + 1] # "space"
    <2>1. st < n /\ en < n /\ st + 1 \in 1 .. nx + 1 /\ en + 1 \in st + 1 .. nx + 1
      BY <1>2, <1>7
    <2> QED
      BY <1>1, <1>2, <1>7, <2>1 DEF CharOf
  <1> QED
    BY <1>1, <1>4, <1>5, <1>6, <1>7

(* The text that is scanned, without its spaces. *)
LEMMA ScannedText ==
  ASSUME NEW s \in Seq(Letter), NEW b \in Nat, NEW o \in Nat, b <= o, Blank(s, b + 1, o),
         NEW st, NEW en, NEW nx, Scan(s, o, st, en, nx)
  PROVE  /\ O!Stripped(s, b + 1, nx) = SubSeq(s, st + 1, en)
         /\ IF st = en THEN SubSeq(s, st + 1, en) = << >> ELSE O!IsName(SubSeq(s, st + 1, en))
  <1>1. PICK n \in Nat : n = Len(s)
    BY LenProperties
  <1>2. /\ st \in Nat /\ en \in Nat /\ nx \in Nat /\ o <= st /\ st <= en /\ en <= nx /\ nx <= n
        /\ Blank(s, o + 1, st) /\ (\A j \in st + 1 .. en : s[j] \in O!Name) /\ Blank(s, en + 1, nx)
    BY <1>1 DEF Scan
  <1>3. b + 1 \in Nat \ {0} /\ b + 1 <= nx + 1
    BY <1>2
  <1>4. CASE st = en
    <2>1. Blank(s, o + 1, nx)
      BY <1>4, ScanFacts
    <2>2. Blank(s, b + 1, nx)
      <3> SUFFICES ASSUME NEW j \in b + 1 .. nx
                   PROVE  s[j] = "space"
        BY DEF Blank
      <3>1. j \in b + 1 .. o \/ j \in o + 1 .. nx
        BY <1>2
      <3> QED
        BY <2>1, <3>1 DEF Blank
    <2>3. O!Stripped(s, b + 1, nx) = << >>
      BY <1>2, <1>3, <2>2, StrippedBlank
    <2>4. st + 1 \in Int /\ en \in Int /\ en < st + 1
      BY <1>2, <1>4
    <2>5. SubSeq(s, st + 1, en) = << >>
      BY <2>4, CutEmpty
    <2> QED
      BY <1>4, <2>3, <2>5
  <1>5. CASE st # en
    <2>1. s[st + 1] # "space" /\ s[en] # "space"
      BY <1>5, ScanFacts
    <2>2. /\ st + 1 \in b + 1 .. nx /\ en \in st + 1 .. nx /\ (st + 1) - 1 = st
          /\ st + 1 \in Nat /\ 1 <= st + 1 /\ st + 1 <= en /\ en <= Len(s)
      BY <1>1, <1>2, <1>5
    <2>3. Blank(s, b + 1, st)
      <3> SUFFICES ASSUME NEW j \in b + 1 .. st
                   PROVE  s[j] = "space"
        BY DEF Blank
      <3>1. j \in b + 1 .. o \/ j \in o + 1 .. st
        BY <1>2
      <3> QED
        BY <1>2, <3>1 DEF Blank
    <2>4. PICK a \in b + 1 .. nx : a = st + 1
      BY <2>2
    <2>5. Blank(s, b + 1, a - 1) /\ s[a] # "space" /\ en \in a .. nx
      BY <2>1, <2>2, <2>3, <2>4
    <2>6. O!Stripped(s, b + 1, nx) = SubSeq(s, a, en)
      BY <1>2, <1>3, <2>1, <2>5, StrippedIs
    <2>7. O!IsName(SubSeq(s, a, en))
      BY <1>2, <2>2, <2>4, NameIs
    <2> QED
      BY <1>5, <2>4, <2>6, <2>7
  <1> QED
    BY <1>4, <1>5

(* With more behind it, it is no name. *)
LEMMA ScannedNot ==
  ASSUME NEW s \in Seq(Letter), NEW b \in Nat, NEW o \in Nat, b <= o, Blank(s, b + 1, o),
         NEW st, NEW en, NEW nx, Scan(s, o, st, en, nx), NEW j \in nx + 1 .. Len(s)
  PROVE  O!Stripped(s, b + 1, j) # << >> /\ ~O!IsName(O!Stripped(s, b + 1, j))
  <1>1. PICK n \in Nat : n = Len(s)
    BY LenProperties
  <1>2. /\ st \in Nat /\ en \in Nat /\ nx \in Nat /\ o <= st /\ st <= en /\ en <= nx /\ nx <= n
        /\ Blank(s, o + 1, st)
    BY <1>1 DEF Scan
  <1>3. nx < n /\ j \in Nat /\ j <= n /\ nx + 1 <= j
    BY <1>1, <1>2
  <1>4. s[st + 1] # "space" /\ s[en + 1] \notin O!Name /\ s[nx + 1] # "space"
    BY <1>1, <1>3, ScanFacts
  <1>5. b + 1 \in Nat \ {0}
    OBVIOUS
  <1>6. PICK a \in b + 1 .. j : a = st + 1
    BY <1>2, <1>3
  <1>7. PICK e \in a .. j : e = en + 1
    BY <1>2, <1>3, <1>6
  <1>8. PICK m \in e .. j : m = nx + 1
    BY <1>2, <1>3, <1>7
  <1>9. a - 1 = st
    BY <1>2, <1>6
  <1>10. Blank(s, b + 1, st)
    <2> SUFFICES ASSUME NEW k \in b + 1 .. st
                 PROVE  s[k] = "space"
      BY DEF Blank
    <2>1. k \in b + 1 .. o \/ k \in o + 1 .. st
      BY <1>2
    <2> QED
      BY <1>2, <2>1 DEF Blank
  <1>11. Blank(s, b + 1, a - 1) /\ s[a] # "space" /\ s[e] \notin O!Name /\ s[m] # "space"
    BY <1>4, <1>6, <1>7, <1>8, <1>9, <1>10
  <1> QED
    BY <1>1, <1>3, <1>5, <1>11, StrippedNot

(* The object. *)
LEMMA ObjectRead ==
  ASSUME NEW s \in Seq(Letter), NEW st, NEW en, NEW nx, Scan(s, 0, st, en, nx)
  PROVE  IF CharOf(s, nx) \in {"end", "colon"}
           THEN /\ O!Colon(s) = nx + 1 /\ O!Object(s) = SubSeq(s, st + 1, en)
                /\ IF st = en THEN O!Object(s) = << >> ELSE O!IsName(O!Object(s))
           ELSE O!Object(s) # << >> /\ ~O!IsName(O!Object(s))
  <1>1. PICK n \in Nat : n = Len(s)
    BY LenProperties
  <1>2. st \in Nat /\ en \in Nat /\ nx \in Nat /\ nx <= n
    BY <1>1 DEF Scan
  <1>3. \A j \in 1 .. nx : s[j] # "colon"
    BY ScanFacts
  <1>4. Blank(s, 0 + 1, 0) /\ 0 \in Nat /\ 0 <= 0 /\ 0 + 1 = 1
    BY DEF Blank
  <1>5. \A j \in 1 .. n : s[j] # "end"
    BY <1>1, ElementOfSeq DEF Letter
  <1>6. CASE CharOf(s, nx) \in {"end", "colon"}
    <2>1. nx + 1 \in 1 .. n + 1 /\ (nx + 1) - 1 = nx
      BY <1>2
    <2>2. nx + 1 <= n => s[nx + 1] = "colon"
      <3> SUFFICES ASSUME nx + 1 <= n
                   PROVE  s[nx + 1] = "colon"
        OBVIOUS
      <3>1. nx < n /\ nx + 1 \in 1 .. n
        BY <1>2
      <3> QED
        BY <1>1, <1>5, <1>6, <3>1 DEF CharOf
    <2>3. FirstOK(s, 1, n, "colon", nx + 1)
      BY <1>3, <2>1, <2>2 DEF FirstOK
    <2>4. O!Colon(s) = nx + 1
      BY <1>1, <2>3, FirstIs DEF O!Colon
    <2>5. O!Object(s) = O!Stripped(s, 1, nx)
      BY <2>1, <2>4 DEF O!Object
    <2>6. /\ O!Stripped(s, 1, nx) = SubSeq(s, st + 1, en)
          /\ IF st = en THEN SubSeq(s, st + 1, en) = << >> ELSE O!IsName(SubSeq(s, st + 1, en))
      BY <1>4, ScannedText
    <2> QED
      BY <1>6, <2>4, <2>5, <2>6
  <1>7. CASE ~(CharOf(s, nx) \in {"end", "colon"})
    <2>1. nx < n /\ s[nx + 1] # "colon"
      BY <1>1, <1>2, <1>7 DEF CharOf
    <2>2. PICK c : c = O!Colon(s)
      OBVIOUS
    <2>3. /\ c \in 1 .. n + 1 /\ (c <= n => s[c] = "colon")
      BY <1>1, <2>2, ColonPlace DEF FirstOK
    <2>4. c # nx + 1 /\ ~(c \in 1 .. nx)
      BY <1>2, <1>3, <2>1, <2>3
    <2>5. PICK j \in nx + 1 .. Len(s) : j = c - 1
      BY <1>1, <1>2, <2>3, <2>4
    <2>6. O!Object(s) = O!Stripped(s, 1, j)
      BY <2>2, <2>5 DEF O!Object
    <2>7. O!Stripped(s, 1, j) # << >> /\ ~O!IsName(O!Stripped(s, 1, j))
      BY <1>4, ScannedNot
    <2> QED
      BY <1>7, <2>6, <2>7
  <1> QED
    BY <1>6, <1>7

(* An equals sign at q, the first since the option began at b. *)
EqualsAt(s, b, q) == /\ q \in b + 1 .. Len(s) /\ s[q] = "equals"
                     /\ \A j \in b + 1 .. q - 1 : s[j] # "equals" /\ s[j] # "comma"

(* The first equals sign of the option is the one that ends its key. *)
LEMMA EqualsFound ==
  ASSUME NEW s \in Seq(Letter), NEW k \in Nat, NEW b, Begins(s, k, b), NEW q, EqualsAt(s, b, q)
  PROVE  /\ O!Equals(s, k + 1) = q /\ O!Key(s, k + 1) = O!Stripped(s, b + 1, q - 1)
         /\ NoComma(s, b, q) /\ b \in Nat /\ q \in Nat
  <1>1. PICK n \in Nat : n = Len(s)
    BY LenProperties
  <1>2. b \in Nat /\ b <= n /\ O!Comma(s, k) = b
    BY <1>1, ColonPlace DEF Begins
  <1>3. q \in Nat /\ b < q /\ q <= n /\ s[q] = "equals"
    BY <1>1, <1>2 DEF EqualsAt
  <1>4. NoComma(s, b, q)
    <2> SUFFICES ASSUME NEW j \in b + 1 .. q
                 PROVE  s[j] # "comma"
      BY DEF NoComma
    <2>1. j = q \/ j \in b + 1 .. q - 1
      BY <1>2, <1>3
    <2> QED
      BY <1>3, <2>1 DEF EqualsAt
  <1>5. q \in b .. Len(s)
    BY <1>1, <1>2, <1>3
  <1>6. PICK e \in q + 1 .. n + 1 : e = O!Comma(s, k + 1)
    BY <1>1, <1>4, <1>5, CommaPlace
  <1>7. PICK j \in Nat : j = e - 1
    BY <1>3, <1>6
  <1>8. q \in b + 1 .. j + 1 /\ b + 1 \in Nat
    BY <1>2, <1>3, <1>6, <1>7
  <1>9. FirstOK(s, b + 1, j, "equals", q)
    BY <1>3, <1>8 DEF FirstOK, EqualsAt
  <1>10. (k + 1) - 1 = k
    OBVIOUS
  <1>11. O!Equals(s, k + 1) = O!First(s, b + 1, j, "equals")
    BY <1>2, <1>6, <1>7, <1>10 DEF O!Equals
  <1>12. O!Equals(s, k + 1) = q
    BY <1>8, <1>9, <1>11, FirstIs
  <1> QED
    BY <1>2, <1>3, <1>4, <1>10, <1>12 DEF O!Key

(* A name that is followed by an equals sign is the key ... *)
LEMMA KeyRead ==
  ASSUME NEW s \in Seq(Letter), NEW k \in Nat, NEW b, Begins(s, k, b), NEW o \in Nat, b <= o,
         Blank(s, b + 1, o), NEW st, NEW en, NEW nx, Scan(s, o, st, en, nx),
         CharOf(s, nx) = "equals"
  PROVE  /\ EqualsAt(s, b, nx + 1) /\ O!Key(s, k + 1) = SubSeq(s, st + 1, en)
         /\ IF st = en THEN O!Key(s, k + 1) = << >> ELSE O!IsName(O!Key(s, k + 1))
  <1>1. PICK n \in Nat : n = Len(s)
    BY LenProperties
  <1>2. b \in Nat /\ b <= n
    BY <1>1, ColonPlace DEF Begins
  <1>3. st \in Nat /\ en \in Nat /\ nx \in Nat /\ o <= st /\ st <= en /\ en <= nx /\ nx <= n
    BY <1>1 DEF Scan
  <1>4. nx < n /\ s[nx + 1] = "equals"
    BY <1>1, <1>3 DEF CharOf
  <1>5. PICK q \in Nat : q = nx + 1
    BY <1>3
  <1>6. q - 1 = nx /\ q \in b + 1 .. n
    BY <1>2, <1>3, <1>4, <1>5
  <1>7. \A j \in b + 1 .. nx : s[j] # "equals" /\ s[j] # "comma"
    <2> SUFFICES ASSUME NEW j \in b + 1 .. nx
                 PROVE  s[j] # "equals" /\ s[j] # "comma"
      OBVIOUS
    <2>1. j \in b + 1 .. o \/ j \in o + 1 .. nx
      BY <1>2, <1>3
    <2> QED
      BY <2>1, ScanFacts DEF Blank
  <1>8. EqualsAt(s, b, q)
    BY <1>1, <1>4, <1>5, <1>6, <1>7 DEF EqualsAt
  <1>9. O!Key(s, k + 1) = O!Stripped(s, b + 1, nx)
    BY <1>6, <1>8, EqualsFound
  <1>10. /\ O!Stripped(s, b + 1, nx) = SubSeq(s, st + 1, en)
         /\ IF st = en THEN SubSeq(s, st + 1, en) = << >> ELSE O!IsName(SubSeq(s, st + 1, en))
    BY <1>2, ScannedText
  <1> QED
    BY <1>5, <1>8, <1>9, <1>10

(* ... and without one the option is not well formed. *)
LEMMA KeyNot ==
  ASSUME NEW s \in Seq(Letter), NEW k \in Nat, NEW b, Begins(s, k, b), NEW o \in Nat, b <= o,
         Blank(s, b + 1, o), NEW st, NEW en, NEW nx, Scan(s, o, st, en, nx),
         ~(st # en /\ CharOf(s, nx) = "equals")
  PROVE  ~(O!IsName(O!Key(s, k + 1)) /\ O!Value(s, k + 1) # << >>)
  <1>1. PICK n \in Nat : n = Len(s)
    BY LenProperties
  <1>2. b \in Nat /\ b <= n /\ O!Comma(s, k) = b /\ b + 1 \in Nat
    BY <1>1, ColonPlace DEF Begins
  <1>3. st \in Nat /\ en \in Nat /\ nx \in Nat /\ o <= st /\ st <= en /\ en <= nx /\ nx <= n
    BY <1>1 DEF Scan
  <1>4. \A j \in b + 1 .. nx : s[j] # "equals" /\ s[j] # "comma"
    <2> SUFFICES ASSUME NEW j \in b + 1 .. nx
                 PROVE  s[j] # "equals" /\ s[j] # "comma"
      OBVIOUS
    <2>1. j \in b + 1 .. o \/ j \in o + 1 .. nx
      BY <1>2, <1>3
    <2> QED
      BY <2>1, ScanFacts DEF Blank
  <1>5. NoComma(s, b, nx)
    BY <1>4 DEF NoComma
  <1>6. (k + 1) - 1 = k
    OBVIOUS
  <1>7. CASE CharOf(s, nx) = "equals"
    <2>1. O!Key(s, k + 1) = << >>
      BY <1>7, KeyRead
    <2> QED
      BY <2>1 DEF O!IsName
  <1>8. CASE CharOf(s, nx) = "end" \/ CharOf(s, nx) = "comma"
    <2>1. PICK e \in Nat : e = nx + 1
      BY <1>3
    <2>2. e \in b + 1 .. n + 1 /\ e - 1 = nx
      BY <1>2, <1>3, <2>1
    <2>3. e <= n => s[e] = "comma"
      <3> SUFFICES ASSUME e <= n
                   PROVE  s[e] = "comma"
        OBVIOUS
      <3>1. nx < n /\ e \in 1 .. n
        BY <1>3, <2>1
      <3>2. s[e] # "end"
        BY <1>1, <3>1, ElementOfSeq DEF Letter
      <3> QED
        BY <1>1, <1>8, <2>1, <3>1, <3>2 DEF CharOf
    <2>4. O!Comma(s, k + 1) = e
      BY <1>1, <1>5, <2>2, <2>3, NextComma
    <2>5. FirstOK(s, b + 1, nx, "equals", e)
      BY <1>4, <2>1, <2>2 DEF FirstOK
    <2>6. O!Equals(s, k + 1) = e
      BY <1>2, <1>3, <1>6, <2>2, <2>4, <2>5, FirstIs DEF O!Equals
    <2>7. O!Value(s, k + 1) = O!Stripped(s, e + 1, nx)
      BY <2>2, <2>4, <2>6 DEF O!Value
    <2>8. Blank(s, e + 1, nx)
      BY <1>3, <2>1 DEF Blank
    <2>9. O!Value(s, k + 1) = << >>
      BY <2>7, <2>8, StrippedBlank
    <2> QED
      BY <2>9
  <1>9. CASE CharOf(s, nx) # "end" /\ CharOf(s, nx) # "comma" /\ CharOf(s, nx) # "equals"
    <2>1. nx < n /\ s[nx + 1] # "comma" /\ s[nx + 1] # "equals"
      BY <1>1, <1>3, <1>9 DEF CharOf
    <2>2. PICK i \in b .. Len(s) : i = nx + 1
      BY <1>1, <1>2, <1>3, <2>1
    <2>3. NoComma(s, b, i)
      <3> SUFFICES ASSUME NEW j \in b + 1 .. i
                   PROVE  s[j] # "comma"
        BY DEF NoComma
      <3>1. j = i \/ j \in b + 1 .. nx
        BY <1>2, <1>3, <2>2
      <3> QED
        BY <1>4, <2>1, <2>2, <3>1
    <2>4. PICK e \in i + 1 .. n + 1 : e = O!Comma(s, k + 1)
      BY <1>1, <2>3, CommaPlace
    <2>5. PICK j \in Nat : j = e - 1
      BY <1>2, <2>2, <2>4
    <2>6. b + 1 <= j + 1 /\ nx + 1 <= j /\ j <= n
      <3>1. b \in Nat /\ i \in Nat /\ b <= i /\ i = nx + 1
        BY <1>2, <1>3, <2>2
      <3>2. e \in Nat /\ i + 1 <= e /\ e <= n + 1
        BY <1>1, <3>1, <2>4
      <3>3. i <= j /\ j <= n
        BY <1>1, <2>5, <3>1, <3>2
      <3> QED
        BY <2>5, <3>1, <3>3
    <2>7. PICK q : q = O!First(s, b + 1, j, "equals")
      OBVIOUS
    <2>8. O!Equals(s, k + 1) = q
      BY <1>2, <1>6, <2>4, <2>5, <2>7 DEF O!Equals
    <2>9. FirstOK(s, b + 1, j, "equals", q)
      BY <1>2, <2>6, <2>7, FirstExists
    <2>10. q \in b + 1 .. j + 1 /\ (q <= j => s[q] = "equals")
      BY <2>9 DEF FirstOK
    <2>11. ~(q \in b + 1 .. nx) /\ q # nx + 1
      <3>1. nx <= j /\ q \in Nat
        BY <1>2, <1>3, <2>6, <2>10
      <3>2. ~(q <= j) => q # nx + 1 /\ ~(q \in b + 1 .. nx)
        BY <1>3, <2>6, <3>1
      <3>3. q <= j => q # nx + 1 /\ ~(q \in b + 1 .. nx)
        BY <1>4, <2>1, <2>10
      <3> QED
        BY <3>2, <3>3
    <2>12. PICK l \in nx + 1 .. Len(s) : l = q - 1
      BY <1>1, <1>2, <1>3, <2>6, <2>10, <2>11
    <2>13. O!Key(s, k + 1) = O!Stripped(s, b + 1, l)
      BY <1>2, <1>6, <2>8, <2>12 DEF O!Key
    <2>14. ~O!IsName(O!Stripped(s, b + 1, l))
      BY <1>2, ScannedNot
    <2> QED
      BY <2>13, <2>14
  <1> QED
    BY <1>7, <1>8, <1>9

(* What is read up to a comma or the end is the value and the spaces after it, and the next
   option begins at the comma. *)
LEMMA ValueRead ==
  ASSUME NEW s \in Seq(Letter), NEW k \in Nat, NEW b, Begins(s, k, b), NEW q, EqualsAt(s, b, q),
         NEW st \in q .. Len(s), NEW en \in st .. Len(s), Blank(s, q + 1, st),
         CharOf(s, st) # "space", NoComma(s, st, en), CharOf(s, en) \in {"comma", "end"}
  PROVE  /\ en < Len(s) => s[en + 1] = "comma" /\ Begins(s, k + 1, en + 1)
         /\ en = Len(s) => Count(s, Len(s)) = k
         /\ (st = en) = (O!Value(s, k + 1) = << >>)
         /\ st # en => O!IsPadded(SubSeq(s, st + 1, en), O!Value(s, k + 1))
  <1>1. PICK n \in Nat : n = Len(s)
    BY LenProperties
  <1>2. b \in Nat /\ q \in Nat /\ O!Equals(s, k + 1) = q /\ NoComma(s, b, q)
    BY EqualsFound
  <1>3. b < q /\ q <= n
    BY <1>1, <1>2 DEF EqualsAt
  <1>4. st \in Nat /\ en \in Nat /\ q <= st /\ st <= en /\ en <= n
    BY <1>1, <1>2
  <1>5. NoComma(s, b, en)
    <2> SUFFICES ASSUME NEW j \in b + 1 .. en
                 PROVE  s[j] # "comma"
      BY DEF NoComma
    <2>1. j \in b + 1 .. q \/ j \in q + 1 .. st \/ j \in st + 1 .. en
      BY <1>2, <1>3, <1>4
    <2> QED
      BY <1>2, <2>1 DEF NoComma, Blank
  <1>6. PICK e \in Nat : e = en + 1
    BY <1>4
  <1>7. e \in b + 1 .. n + 1 /\ e - 1 = en
    BY <1>2, <1>3, <1>4, <1>6
  <1>8. e <= n => s[e] = "comma"
    <2> SUFFICES ASSUME e <= n
                 PROVE  s[e] = "comma"
      OBVIOUS
    <2>1. en < n /\ e \in 1 .. n
      BY <1>4, <1>6
    <2>2. s[e] # "end"
      BY <1>1, <2>1, ElementOfSeq DEF Letter
    <2> QED
      BY <1>1, <1>6, <2>1, <2>2 DEF CharOf
  <1>9. /\ O!Comma(s, k + 1) = e /\ (e <= n => Begins(s, k + 1, e))
        /\ (e = n + 1 => Count(s, n) = k)
    BY <1>1, <1>5, <1>7, <1>8, NextComma
  <1>10. O!Value(s, k + 1) = O!Stripped(s, q + 1, en)
    BY <1>2, <1>7, <1>9 DEF O!Value
  <1>11. q + 1 \in Nat \ {0}
    BY <1>2
  <1>12. /\ (st = en) = (O!Value(s, k + 1) = << >>)
         /\ st # en => O!IsPadded(SubSeq(s, st + 1, en), O!Value(s, k + 1))
    <2>1. CASE st = en
      BY <1>10, <2>1, StrippedBlank
    <2>2. CASE st # en
      <3>1. PICK a \in q + 1 .. en : a = st + 1
        BY <1>2, <1>4, <2>2
      <3>2. a - 1 = st /\ st < n /\ 1 <= a /\ a \in Nat
        BY <1>2, <1>4, <2>2, <3>1
      <3>3. Blank(s, q + 1, a - 1) /\ s[a] # "space"
        BY <1>1, <3>1, <3>2 DEF CharOf
      <3>4. PICK T : T = {j \in q + 1 .. en : s[j] # "space"}
        OBVIOUS
      <3>5. T \subseteq 0 .. en /\ a \in T
        BY <1>2, <3>3, <3>4
      <3>6. PICK z \in T : \A y \in T : y <= z
        BY <1>4, <3>5, Greatest
      <3>7. z \in q + 1 .. en /\ s[z] # "space" /\ a <= z
        BY <3>4, <3>5, <3>6
      <3>8. Blank(s, z + 1, en)
        <4> SUFFICES ASSUME NEW j \in z + 1 .. en, s[j] # "space"
                     PROVE  FALSE
          BY DEF Blank
        <4>1. j \in q + 1 .. en /\ ~(j <= z)
          BY <1>2, <3>7
        <4> QED
          BY <3>4, <3>6, <4>1
      <3>9. z \in a .. en /\ z \in Nat /\ z <= en
        BY <1>2, <3>1, <3>7
      <3>10. O!Value(s, k + 1) = SubSeq(s, a, z)
        BY <1>4, <1>10, <1>11, <3>3, <3>7, <3>8, <3>9, StrippedIs
      <3>11. O!IsPadded(SubSeq(s, a, en), SubSeq(s, a, z)) /\ SubSeq(s, a, z) # << >>
        BY <1>1, <1>4, <3>2, <3>7, <3>8, <3>9, PaddedCut
      <3> QED
        BY <2>2, <3>1, <3>10, <3>11
    <2> QED
      BY <2>1, <2>2
  <1>13. (en < n => e <= n) /\ (en = n => e = n + 1)
    BY <1>4, <1>6
  <1> QED
    BY <1>1, <1>6, <1>8, <1>9, <1>12, <1>13

(* Nothing but spaces after the last comma. *)
LEMMA LastBlank ==
  ASSUME NEW s \in Seq(Letter), NEW k \in Nat, NEW b, Begins(s, k, b), Blank(s, b + 1, Len(s))
  PROVE  ~O!IsName(O!Key(s, k + 1))
  <1>1. PICK n \in Nat : n = Len(s)
    BY LenProperties
  <1>2. b \in Nat /\ b <= n /\ O!Comma(s, k) = b
    BY <1>1, ColonPlace DEF Begins
  <1>3. b \in b .. Len(s) /\ NoComma(s, b, b)
    BY <1>1, <1>2 DEF NoComma
  <1>4. PICK e \in b + 1 .. n + 1 : e = O!Comma(s, k + 1)
    BY <1>1, <1>3, CommaPlace
  <1>5. PICK j \in Nat : j = e - 1
    BY <1>2, <1>4
  <1>6. b + 1 \in Nat \ {0} /\ b + 1 <= j + 1 /\ j <= n
    BY <1>2, <1>4, <1>5
  <1>7. PICK q : q = O!First(s, b + 1, j, "equals")
    OBVIOUS
  <1>8. FirstOK(s, b + 1, j, "equals", q)
    BY <1>6, <1>7, FirstExists
  <1>9. q \in b + 1 .. j + 1
    BY <1>8 DEF FirstOK
  <1>10. PICK l \in Nat : l = q - 1
    BY <1>2, <1>9
  <1>11. b + 1 <= l + 1 /\ l <= n
    BY <1>2, <1>6, <1>9, <1>10
  <1>12. (k + 1) - 1 = k
    OBVIOUS
  <1>13. O!Key(s, k + 1) = O!Stripped(s, b + 1, l)
    BY <1>2, <1>4, <1>5, <1>7, <1>10, <1>12 DEF O!Key, O!Equals
  <1>14. Blank(s, b + 1, l)
    BY <1>1, <1>2, <1>11 DEF Blank
  <1>15. O!Key(s, k + 1) = << >>
    BY <1>6, <1>11, <1>13, <1>14, StrippedBlank
  <1> QED
    BY <1>15 DEF O!IsName

-----------------------------------------------------------------------------
(* The terminators, and the pointers to what they end. *)

(* Pointer i is to the string t, which is terminated before place o. *)
PointsAt(d, i, o, t) == /\ i \in Nat /\ t \in Seq(Letter) /\ i + Len(t) < o
                        /\ d[i + Len(t) + 1] = "end" /\ \A j \in 1 .. Len(t) : d[i + j] = t[j]

(* A pointer reads the text it points at. *)
LEMMA PointerReads ==
  ASSUME NEW d \in Seq(O!Char), NEW i, NEW t, PointsAt(d, i, Len(d), t)
  PROVE  O!StringAt(d, i) = t
  <1>1. PICK n \in Nat : n = Len(d)
    BY LenProperties
  <1>2. i \in Nat /\ t \in Seq(Letter)
    BY DEF PointsAt
  <1>3. PICK w \in Nat : w = Len(t)
    BY <1>2, LenProperties
  <1>4. i + w < n /\ d[i + w + 1] = "end" /\ \A j \in 1 .. w : d[i + j] = t[j]
    BY <1>1, <1>3 DEF PointsAt
  <1>5. PICK T : T = {j \in i .. n - 1 : d[j + 1] = "end"}
    OBVIOUS
  <1>6. \A j \in 1 .. w : t[j] # "end"
    BY <1>2, <1>3, ElementOfSeq DEF Letter
  <1>7. O!Min(T) = i + w
    <2>1. T \subseteq Nat /\ i + w \in T
      BY <1>2, <1>4, <1>5
    <2>2. \A y \in T : i + w <= y
      <3> SUFFICES ASSUME NEW y \in T, ~(i + w <= y)
                   PROVE  FALSE
        OBVIOUS
      <3>1. y \in i .. n - 1 /\ d[y + 1] = "end"
        BY <1>5
      <3>2. PICK j \in 1 .. w : j = y + 1 - i
        BY <1>2, <3>1
      <3>3. i + j = y + 1
        BY <1>2, <3>1, <3>2
      <3>4. t[j] = d[y + 1]
        BY <1>4, <3>3
      <3> QED
        BY <1>6, <3>1, <3>4
    <2> QED
      BY <2>1, <2>2, MinIs
  <1>8. O!StringAt(d, i) = SubSeq(d, i + 1, i + w)
    BY <1>1, <1>5, <1>7 DEF O!StringAt, O!Here
  <1>9. PICK v : v = SubSeq(d, i + 1, i + w)
    OBVIOUS
  <1>10. PICK e \in Nat : e = i + 1
    BY <1>2
  <1>11. PICK f \in Nat : f = i + w
    BY <1>2
  <1>12. \A j \in e .. f : j \in 1 .. n /\ d[j] \in O!Char
    <2>1. \A j \in e .. f : j \in 1 .. n
      BY <1>2, <1>4, <1>10, <1>11
    <2> QED
      BY <1>1, <2>1, ElementOfSeq
  <1>13. /\ v \in Seq(O!Char) /\ Len(v) = IF e <= f THEN f - e + 1 ELSE 0
         /\ \A j \in 1 .. f - e + 1 : v[j] = d[e + j - 1]
    BY <1>9, <1>10, <1>11, <1>12, SubSeqProperties
  <1>14. f - e + 1 = w /\ (~(e <= f) => w = 0) /\ \A j \in 1 .. w : e + j - 1 = i + j
    BY <1>2, <1>10, <1>11
  <1>15. Len(v) = w /\ \A j \in 1 .. w : v[j] = t[j]
    BY <1>4, <1>13, <1>14
  <1>16. t \in Seq(O!Char)
    BY <1>2 DEF Letter
  <1>17. v = t
    BY <1>3, <1>13, <1>15, <1>16, SeqEqual
  <1> QED
    BY <1>8, <1>9, <1>17

(* What is before place o stays. *)
SameBefore(d, e, o) == \A j \in 1 .. o : e[j] = d[j]

(* A pointer to what does not change stays right. *)
LEMMA PointerStays ==
  ASSUME NEW d, NEW e, NEW i, NEW t, NEW o \in Nat, PointsAt(d, i, o, t), SameBefore(d, e, o),
         NEW p \in Nat, o <= p
  PROVE  PointsAt(e, i, p, t)
  <1>1. i \in Nat /\ t \in Seq(Letter)
    BY DEF PointsAt
  <1>2. PICK w \in Nat : w = Len(t)
    BY <1>1, LenProperties
  <1>3. i + w < o /\ d[i + w + 1] = "end" /\ \A j \in 1 .. w : d[i + j] = t[j]
    BY <1>2 DEF PointsAt
  <1>4. i + w < p /\ i + w + 1 \in 1 .. o /\ \A j \in 1 .. w : i + j \in 1 .. o
    BY <1>1, <1>3
  <1>5. e[i + w + 1] = "end" /\ \A j \in 1 .. w : e[i + j] = t[j]
    BY <1>3, <1>4 DEF SameBefore
  <1> QED
    BY <1>1, <1>2, <1>4, <1>5 DEF PointsAt

(* The copy after a terminator is put behind a text: the text can be pointed at from any later
   offset, and nothing before it or behind it has changed. *)
TextCut(s, d, o, st, en, e, text) ==
  /\ e \in Seq(O!Char) /\ Len(e) = Len(s) + 1 /\ SameBefore(d, e, o)
  /\ \A p \in Nat : en < p => PointsAt(e, st, p, text)
  /\ \A p \in 0 .. Len(s) : en < p => Copy(s, e, p)

(* descriptor[en] = '\0', at a place that was read: what is before the offset stays, what is
   after it is as before, and what was read there can be pointed at. *)
LEMMA Terminating ==
  ASSUME NEW s \in Seq(Letter), NEW d, NEW o, Copy(s, d, o), NEW st \in o .. Len(s),
         NEW en \in st .. Len(s), NEW e, e = O!Terminated(d, en)
  PROVE  /\ e \in Seq(O!Char) /\ Len(e) = Len(s) + 1 /\ SameBefore(d, e, o)
         /\ \A p \in Nat : en < p => PointsAt(e, st, p, SubSeq(s, st + 1, en))
         /\ \A p \in 0 .. Len(s) : en < p => Copy(s, e, p)
  <1>1. PICK n \in Nat : n = Len(s)
    BY LenProperties
  <1>2. /\ d \in Seq(O!Char) /\ Len(d) = n + 1 /\ d[n + 1] = "end" /\ o \in Nat
        /\ \A j \in o + 1 .. n : d[j] = s[j]
    BY <1>1 DEF Copy
  <1>3. st \in Nat /\ en \in Nat /\ o <= st /\ st <= en /\ en <= n
    BY <1>1, <1>2
  <1>4. PICK x \in Nat : x = en + 1
    BY <1>3
  <1>5. x \in 1 .. n + 1 /\ "end" \in O!Char
    BY <1>3, <1>4 DEF O!Char
  <1>6. e = [d EXCEPT ![x] = "end"]
    BY <1>4 DEF O!Terminated
  <1>7. /\ e \in Seq(O!Char) /\ Len(e) = n + 1
        /\ \A j \in 1 .. n + 1 : e[j] = IF j = x THEN "end" ELSE d[j]
    BY <1>2, <1>5, <1>6, ExceptSeq
  <1>8. SameBefore(d, e, o)
    <2> SUFFICES ASSUME NEW j \in 1 .. o
                 PROVE  e[j] = d[j]
      BY DEF SameBefore
    <2>1. j \in 1 .. n + 1 /\ j # x
      BY <1>2, <1>3, <1>4
    <2> QED
      BY <1>7, <2>1
  <1>9. ASSUME NEW p \in Nat, en < p
        PROVE  PointsAt(e, st, p, SubSeq(s, st + 1, en))
    <2>1. PICK a \in Nat : a = st + 1
      BY <1>3
    <2>2. 1 <= a /\ a <= en + 1 /\ en <= Len(s) /\ en + 1 - a = en - st /\ en - st \in Nat
      BY <1>1, <1>3, <2>1
    <2>3. PICK t \in Seq(Letter) : t = SubSeq(s, a, en)
      BY <1>3, <2>2, Cut
    <2>4. PICK w \in Nat : w = en - st
      BY <2>2
    <2>5. Len(t) = w /\ \A j \in 1 .. w : t[j] = s[a + j - 1]
      BY <1>3, <2>2, <2>3, <2>4, Cut
    <2>6. st + w = en /\ st + w + 1 = x /\ \A j \in 1 .. w : a + j - 1 = st + j
      BY <1>3, <1>4, <2>1, <2>4
    <2>7. e[x] = "end"
      BY <1>5, <1>7
    <2>8. ASSUME NEW j \in 1 .. w
          PROVE  e[st + j] = t[j]
      <3>1. PICK l \in Nat : l = st + j
        BY <1>3
      <3>2. l \in o + 1 .. n /\ l \in 1 .. n + 1 /\ l # x
        BY <1>2, <1>3, <1>4, <2>4, <3>1
      <3>3. e[l] = s[l]
        BY <1>2, <1>7, <3>2
      <3> QED
        BY <2>5, <2>6, <3>1, <3>3
    <2>9. PointsAt(e, st, p, t)
      BY <1>3, <1>9, <2>3, <2>5, <2>6, <2>7, <2>8 DEF PointsAt
    <2> QED
      BY <2>1, <2>3, <2>9
  <1>10. ASSUME NEW p \in 0 .. n, en < p
         PROVE  Copy(s, e, p)
    <2>1. \A j \in p + 1 .. n : j \in o + 1 .. n /\ j \in 1 .. n + 1 /\ j # x
      BY <1>2, <1>3, <1>4, <1>10
    <2>2. \A j \in p + 1 .. n : e[j] = s[j]
      BY <1>2, <1>7, <2>1
    <2>3. n + 1 \in 1 .. n + 1
      OBVIOUS
    <2>4. e[n + 1] = "end"
      BY <1>2, <1>7, <2>3
    <2> QED
      BY <1>1, <1>7, <2>2, <2>4 DEF Copy
  <1> QED
    BY <1>1, <1>7, <1>8, <1>9, <1>10

(* The same for a text that is known by another name. *)
LEMMA TerminatingText ==
  ASSUME NEW s \in Seq(Letter), NEW d, NEW o, Copy(s, d, o), NEW st \in o .. Len(s),
         NEW en \in st .. Len(s), NEW e, e = O!Terminated(d, en),
         NEW text, text = SubSeq(s, st + 1, en)
  PROVE  TextCut(s, d, o, st, en, e, text)
  <1>1. /\ e \in Seq(O!Char) /\ Len(e) = Len(s) + 1 /\ SameBefore(d, e, o)
        /\ \A p \in Nat : en < p => PointsAt(e, st, p, SubSeq(s, st + 1, en))
        /\ \A p \in 0 .. Len(s) : en < p => Copy(s, e, p)
    BY Terminating
  <1> QED
    BY <1>1, Zenon DEF TextCut

(* What is cut can be used from any offset behind it. *)
LEMMA TextCutAt ==
  ASSUME NEW s, NEW d, NEW o, NEW st, NEW en, NEW e, NEW text,
         TextCut(s, d, o, st, en, e, text), NEW p \in Nat, en < p
  PROVE  PointsAt(e, st, p, text) /\ (p \in 0 .. Len(s) => Copy(s, e, p))
  BY DEF TextCut


-----------------------------------------------------------------------------
(* The parser. *)

(* An option stored; the name and the options stored are those of the grammar. *)
Entry == [key : Seq(Letter), value : Nat]

NameOK(s, d, o, nm) ==
  IF nm = NULL THEN O!Object(s) = << >>
  ELSE O!IsName(O!Object(s)) /\ PointsAt(d, nm, o, O!Object(s))
OptionOK(s, d, o, k, entry) ==
  /\ entry.key = O!Key(s, k) /\ O!IsName(O!Key(s, k)) /\ O!Value(s, k) # << >>
  /\ \E text : PointsAt(d, entry.value, o, text) /\ O!IsPadded(text, O!Value(s, k))
OptionsOK(s, d, o, ops) == /\ ops \in Seq(Entry)
                           /\ \A k \in 1 .. Len(ops) : OptionOK(s, d, o, k, ops[k])

(* What has been stored is right; the rest of the copy is as it was. *)
Stored(s, d, o, nm, ops) == Copy(s, d, o) /\ NameOK(s, d, o, nm) /\ OptionsOK(s, d, o, ops)

(* An option is next, behind k others: there is one, unless it is the first. *)
OptionPlace(s, o, k) == \E b \in Nat : /\ Begins(s, k, b) /\ b <= o /\ Blank(s, b + 1, o)
                                       /\ k > 0 => CharOf(s, o) \notin {"space", "end"}

(* A value is next, behind the option at id and its equals sign. *)
ValuePlace(s, d, o, id, k) ==
  \E b \in Nat : /\ Begins(s, k, b) /\ EqualsAt(s, b, o) /\ O!IsName(O!Key(s, k + 1))
                 /\ PointsAt(d, id, o, O!Key(s, k + 1))

(* What the parser promises. *)
Parsed(s, d, nm, ops) ==
  /\ O!OptionsFormed(s)
  /\ IF nm = NULL THEN O!Object(s) = << >>
     ELSE O!IsName(O!Object(s)) /\ O!StringAt(d, nm) = O!Object(s)
  /\ [k \in DOMAIN ops |-> ops[k].key] = [k \in O!Given(s) |-> O!Key(s, k)]
  /\ \A k \in O!Given(s) : O!IsPadded(O!StringAt(d, ops[k].value), O!Value(s, k))
Answered(s, d, nm, ops, res) == \/ res = "options" /\ Parsed(s, d, nm, ops)
                                \/ res = "error" /\ ~O!WellFormed(s)

(* The inductive invariant of the parser: what holds at each of its places. *)
ParserOK ==
  /\ string \in Seq(Letter) /\ at \in {"object", "option", "value", "done"}
  /\ at = "object" => descriptor = Append(string, "end") /\ offset = 0 /\ options = << >>
  /\ at = "option" => /\ Stored(string, descriptor, offset, name, options)
                      /\ OptionPlace(string, offset, Len(options))
  /\ at = "value" => /\ Stored(string, descriptor, offset, name, options)
                     /\ ValuePlace(string, descriptor, offset, identifier, Len(options))
  /\ at = "done" => Answered(string, descriptor, name, options, result)

(* If all the options were stored, the string is of the documented form, but for its object. *)
LEMMA Accepting ==
  ASSUME NEW s \in Seq(Letter), NEW d \in Seq(O!Char), NEW nm, NEW ops,
         NameOK(s, d, Len(d), nm), OptionsOK(s, d, Len(d), ops), O!Given(s) = 1 .. Len(ops)
  PROVE  Answered(s, d, nm, ops, "options")
  <1>1. ops \in Seq(Entry) /\ DOMAIN ops = 1 .. Len(ops)
    BY LenProperties DEF OptionsOK
  <1>2. \A k \in 1 .. Len(ops) : OptionOK(s, d, Len(d), k, ops[k])
    BY DEF OptionsOK
  <1>3. O!OptionsFormed(s)
    BY <1>2 DEF O!OptionsFormed, OptionOK
  <1>4. \A k \in 1 .. Len(ops) : /\ ops[k].key = O!Key(s, k)
                               /\ O!IsPadded(O!StringAt(d, ops[k].value), O!Value(s, k))
    <2> SUFFICES ASSUME NEW k \in 1 .. Len(ops)
                 PROVE  /\ ops[k].key = O!Key(s, k)
                        /\ O!IsPadded(O!StringAt(d, ops[k].value), O!Value(s, k))
      OBVIOUS
    <2>1. PICK text : /\ ops[k].key = O!Key(s, k)
                      /\ PointsAt(d, ops[k].value, Len(d), text)
                      /\ O!IsPadded(text, O!Value(s, k))
      BY <1>2 DEF OptionOK
    <2>2. O!StringAt(d, ops[k].value) = text
      BY <2>1, PointerReads
    <2> QED
      BY <2>1, <2>2
  <1>5. IF nm = NULL THEN O!Object(s) = << >>
        ELSE O!IsName(O!Object(s)) /\ O!StringAt(d, nm) = O!Object(s)
    BY PointerReads DEF NameOK
  <1>6. [k \in DOMAIN ops |-> ops[k].key] = [k \in O!Given(s) |-> O!Key(s, k)]
    BY <1>1, <1>4
  <1>7. \A k \in O!Given(s) : O!IsPadded(O!StringAt(d, ops[k].value), O!Value(s, k))
    BY <1>4
  <1>8. Parsed(s, d, nm, ops)
    BY <1>3, <1>5, <1>6, <1>7 DEF Parsed
  <1> QED
    BY <1>8 DEF Answered

(* What is stored stays when more is written behind it. *)
LEMMA StoredStays ==
  ASSUME NEW s \in Seq(Letter), NEW d, NEW o \in Nat, NEW nm, NEW ops,
         NameOK(s, d, o, nm), OptionsOK(s, d, o, ops), NEW e, SameBefore(d, e, o),
         NEW p \in Nat, o <= p
  PROVE  NameOK(s, e, p, nm) /\ OptionsOK(s, e, p, ops)
  <1>1. NameOK(s, e, p, nm)
    BY PointerStays DEF NameOK
  <1>2. ASSUME NEW k \in 1 .. Len(ops)
        PROVE  OptionOK(s, e, p, k, ops[k])
    <2>1. OptionOK(s, d, o, k, ops[k])
      BY DEF OptionsOK
    <2>2. PICK text : PointsAt(d, ops[k].value, o, text) /\ O!IsPadded(text, O!Value(s, k))
      BY <2>1 DEF OptionOK
    <2>3. PointsAt(e, ops[k].value, p, text)
      BY <2>2, PointerStays
    <2> QED
      BY <2>1, <2>2, <2>3 DEF OptionOK
  <1> QED
    BY <1>1, <1>2 DEF OptionsOK

(* The object, alone or before the options. *)
LEMMA ObjectStep ==
  ASSUME ParserOK, O!ReadObject, NULL \notin Nat
  PROVE  ParserOK'
  <1>1. /\ at = "object" /\ descriptor = Append(string, "end") /\ offset = 0 /\ options = << >>
        /\ string' = string
    BY DEF ParserOK, O!ReadObject
  <1>2. PICK s \in Seq(Letter) : s = string
    BY DEF ParserOK
  <1>3. PICK n \in Nat : n = Len(s)
    BY LenProperties
  <1>4. PICK d : d = descriptor
    OBVIOUS
  <1>5. PICK st : st = O!PastSpace(d, 0)
    OBVIOUS
  <1>6. PICK en : en = O!Past(d, st, O!Name)
    OBVIOUS
  <1>7. PICK nx : nx = O!PastSpace(d, en)
    OBVIOUS
  <1>8. Copy(s, d, 0)
    <2>1. s \in Seq(O!Char) /\ "end" \in O!Char /\ d = Append(s, "end")
      <3>1. s \in Seq(O!Char)
        BY DEF Letter
      <3>2. "end" \in O!Char
        BY DEF O!Char
      <3> QED
        BY <1>1, <1>2, <1>4, <3>1, <3>2
    <2>2. /\ d \in Seq(O!Char) /\ Len(d) = n + 1 /\ d[n + 1] = "end"
          /\ \A j \in 1 .. n : d[j] = s[j]
      BY <1>3, <2>1, AppendProperties
    <2>3. 0 \in 0 .. n /\ 0 + 1 = 1
      OBVIOUS
    <2> QED
      BY <1>3, <2>2, <2>3 DEF Copy
  <1>9. Scan(s, 0, st, en, nx) /\ O!Here(d, nx) = CharOf(s, nx)
    BY <1>5, <1>6, <1>7, <1>8, Scanned
  <1>10. st \in Nat /\ en \in Nat /\ nx \in Nat /\ st <= en /\ en <= nx /\ nx <= n
    BY <1>3, <1>9 DEF Scan
  <1>11. PICK c : c = CharOf(s, nx)
    OBVIOUS
  <1>12. /\ c \in {"end", "colon"} =>
              /\ descriptor' = O!Terminated(d, en) /\ name' = IF st = en THEN NULL ELSE st
              /\ offset' = IF c = "colon" THEN nx + 1 ELSE nx
              /\ at' = IF c = "colon" THEN "option" ELSE "done"
              /\ result' = IF c = "colon" THEN NULL ELSE "options"
              /\ options' = << >>
         /\ c \notin {"end", "colon"} => result' = "error" /\ at' = "done"
    BY <1>1, <1>4, <1>5, <1>6, <1>7, <1>9, <1>11 DEF O!ReadObject, O!Fail
  <1>13. CASE c \notin {"end", "colon"}
    <2>1. O!Object(s) # << >> /\ ~O!IsName(O!Object(s))
      BY <1>9, <1>11, <1>13, ObjectRead
    <2>2. ~O!WellFormed(s)
      BY <2>1 DEF O!WellFormed
    <2>3. string' = s /\ at' = "done" /\ result' = "error"
      BY <1>1, <1>2, <1>12, <1>13
    <2>4. Answered(s, descriptor', name', options', result')
      BY <2>2, <2>3 DEF Answered
    <2> QED
      BY <2>3, <2>4 DEF ParserOK
  <1>14. CASE c \in {"end", "colon"}
    <2>1. /\ O!Colon(s) = nx + 1 /\ O!Object(s) = SubSeq(s, st + 1, en)
          /\ IF st = en THEN O!Object(s) = << >> ELSE O!IsName(O!Object(s))
      BY <1>9, <1>11, <1>14, ObjectRead
    <2>2. PICK e : e = O!Terminated(d, en)
      OBVIOUS
    <2>3. PICK nm : nm = IF st = en THEN NULL ELSE st
      OBVIOUS
    <2>4. st \in 0 .. Len(s) /\ en \in st .. Len(s)
      BY <1>3, <1>10
    <2>5. /\ e \in Seq(O!Char) /\ Len(e) = n + 1
          /\ \A p \in Nat : en < p => PointsAt(e, st, p, O!Object(s))
          /\ \A p \in 0 .. n : en < p => Copy(s, e, p)
      BY <1>3, <1>8, <2>1, <2>2, <2>4, Terminating
    <2>6. \A p \in Nat : en < p => NameOK(s, e, p, nm)
      <3> SUFFICES ASSUME NEW p \in Nat, en < p
                   PROVE  NameOK(s, e, p, nm)
        OBVIOUS
      <3>1. PointsAt(e, st, p, O!Object(s))
        BY <2>5
      <3>2. CASE st = en
        BY <2>1, <2>3, <3>2 DEF NameOK
      <3>3. CASE st # en
        BY <1>10, <2>1, <2>3, <3>1, <3>3 DEF NameOK
      <3> QED
        BY <3>2, <3>3
    <2>7. PICK ops : ops = << >>
      OBVIOUS
    <2>8. ops \in Seq(Entry) /\ Len(ops) = 0
      BY <2>7, EmptySeq
    <2>9. \A p : OptionsOK(s, e, p, ops)
      BY <2>8 DEF OptionsOK
    <2>10. string' = s /\ descriptor' = e /\ name' = nm /\ options' = ops
      BY <1>1, <1>2, <1>12, <1>14, <2>2, <2>3, <2>7
    <2>11. CASE c = "colon"
      <3>1. nx < n
        BY <1>3, <1>10, <1>11, <2>11 DEF CharOf
      <3>2. PICK p \in 0 .. n : p = nx + 1
        BY <1>10, <3>1
      <3>3. en < p /\ p \in Nat
        BY <1>10, <3>2
      <3>4. Stored(s, e, p, nm, ops)
        BY <2>5, <2>6, <2>9, <3>3 DEF Stored
      <3>5. Begins(s, 0, p)
        BY <1>3, <2>1, <3>1, <3>2, FirstBegins
      <3>6. Blank(s, p + 1, p) /\ p <= p
        BY <3>3 DEF Blank
      <3>7. OptionPlace(s, p, Len(ops))
        BY <2>8, <3>3, <3>5, <3>6 DEF OptionPlace
      <3>8. at' = "option" /\ offset' = p
        BY <1>12, <1>14, <2>11, <3>2
      <3> QED
        BY <2>10, <3>4, <3>7, <3>8 DEF ParserOK
    <2>12. CASE c = "end"
      <3>1. nx = n
        <4>1. CASE nx < n
          <5>1. nx + 1 \in 1 .. n
            BY <1>10, <4>1
          <5>2. s[nx + 1] # "end"
            BY <1>3, <5>1, ElementOfSeq DEF Letter
          <5> QED
            BY <1>3, <1>11, <2>12, <4>1, <5>2 DEF CharOf
        <4> QED
          BY <1>10, <4>1
      <3>2. O!Text(s, O!Colon(s) + 1, Len(s)) = {}
        BY <1>3, <2>1, <3>1 DEF O!Text
      <3>3. O!Given(s) = 1 .. Len(ops)
        BY <2>8, <3>2 DEF O!Given
      <3>4. en < n + 1 /\ n + 1 \in Nat
        BY <1>10
      <3>5. NameOK(s, e, Len(e), nm) /\ OptionsOK(s, e, Len(e), ops)
        BY <2>5, <2>6, <2>9, <3>4
      <3>6. Answered(s, e, nm, ops, "options")
        BY <2>5, <3>3, <3>5, Accepting
      <3>7. at' = "done" /\ result' = "options"
        BY <1>12, <1>14, <2>12
      <3> QED
        BY <2>10, <3>6, <3>7 DEF ParserOK
    <2> QED
      BY <1>14, <2>11, <2>12
  <1> QED
    BY <1>13, <1>14

(* Nothing after the colon. *)
LEMMA EndStep ==
  ASSUME ParserOK, O!EndOfInput
  PROVE  ParserOK'
  <1>1. /\ at = "option" /\ at' = "done" /\ result' = "options"
        /\ string' = string /\ descriptor' = descriptor /\ name' = name /\ options' = options
        /\ O!Here(descriptor, O!PastSpace(descriptor, offset)) = "end"
    BY DEF O!EndOfInput
  <1>2. PICK s \in Seq(Letter) : s = string
    BY DEF ParserOK
  <1>3. PICK n \in Nat : n = Len(s)
    BY LenProperties
  <1>4. PICK d : d = descriptor
    OBVIOUS
  <1>5. PICK o : o = offset
    OBVIOUS
  <1>6. PICK nm : nm = name
    OBVIOUS
  <1>7. PICK ops : ops = options
    OBVIOUS
  <1>8. Stored(s, d, o, nm, ops) /\ OptionPlace(s, o, Len(ops))
    BY <1>1, <1>2, <1>4, <1>5, <1>6, <1>7 DEF ParserOK
  <1>9. Copy(s, d, o) /\ NameOK(s, d, o, nm) /\ OptionsOK(s, d, o, ops)
    BY <1>8 DEF Stored
  <1>10. o \in Nat /\ o <= n /\ o \in o .. Len(s) /\ d \in Seq(O!Char) /\ Len(d) = n + 1
    BY <1>3, <1>9 DEF Copy
  <1>11. PICK sp : sp = {"space"}
    OBVIOUS
  <1>12. PICK p : p = O!Past(d, o, sp)
    OBVIOUS
  <1>13. O!Here(d, p) = "end" /\ "end" \notin sp
    BY <1>1, <1>4, <1>5, <1>11, <1>12 DEF O!PastSpace
  <1>14. /\ p \in Nat /\ o <= p /\ p <= n /\ O!Here(d, p) = CharOf(s, p)
         /\ \A j \in o + 1 .. p : s[j] \in sp
    BY <1>3, <1>9, <1>10, <1>12, <1>13, PastInString
  <1>15. p = n
    <2>1. CASE p < n
      <3>1. p + 1 \in 1 .. n
        BY <1>14, <2>1
      <3>2. s[p + 1] # "end"
        BY <1>3, <3>1, ElementOfSeq DEF Letter
      <3> QED
        BY <1>3, <1>13, <1>14, <2>1, <3>2 DEF CharOf
    <2> QED
      BY <1>14, <2>1
  <1>16. PICK k \in Nat : k = Len(ops)
    BY <1>9, LenProperties DEF OptionsOK
  <1>17. PICK b \in Nat : /\ Begins(s, k, b) /\ b <= o /\ Blank(s, b + 1, o)
                          /\ k > 0 => CharOf(s, o) \notin {"space", "end"}
    BY <1>8, <1>16 DEF OptionPlace
  <1>18. k = 0
    <2> SUFFICES ASSUME k > 0
                 PROVE  FALSE
      BY <1>16
    <2>1. CharOf(s, o) # "space" /\ CharOf(s, o) # "end"
      BY <1>17
    <2>2. o < n /\ s[o + 1] # "space"
      BY <1>3, <1>10, <2>1 DEF CharOf
    <2>3. o + 1 \in o + 1 .. p
      BY <1>10, <1>15, <2>2
    <2> QED
      BY <1>11, <1>14, <2>2, <2>3
  <1>19. b = O!Colon(s)
    BY <1>17, <1>18 DEF Begins, O!Comma
  <1>20. \A j \in b + 1 .. n : s[j] = "space"
    <2> SUFFICES ASSUME NEW j \in b + 1 .. n
                 PROVE  s[j] = "space"
      OBVIOUS
    <2>1. j \in b + 1 .. o \/ j \in o + 1 .. p
      BY <1>10, <1>14, <1>15, <1>17
    <2> QED
      BY <1>11, <1>14, <1>17, <2>1 DEF Blank
  <1>21. O!Text(s, O!Colon(s) + 1, Len(s)) = {}
    BY <1>3, <1>19, <1>20 DEF O!Text
  <1>22. O!Given(s) = 1 .. Len(ops)
    BY <1>16, <1>18, <1>21 DEF O!Given
  <1>23. SameBefore(d, d, o) /\ n + 1 \in Nat /\ o <= n + 1
    BY <1>10 DEF SameBefore
  <1>24. NameOK(s, d, Len(d), nm) /\ OptionsOK(s, d, Len(d), ops)
    BY <1>9, <1>10, <1>23, StoredStays
  <1>25. Answered(s, d, nm, ops, "options")
    BY <1>10, <1>22, <1>24, Accepting
  <1>26. string' = s /\ descriptor' = d /\ name' = nm /\ options' = ops
    BY <1>1, <1>2, <1>4, <1>6, <1>7
  <1> QED
    BY <1>1, <1>25, <1>26 DEF ParserOK

(* An option and its equals sign. *)
LEMMA OptionStep ==
  ASSUME ParserOK, O!ReadOption
  PROVE  ParserOK'
  <1>1. at = "option" /\ string' = string
    BY DEF O!ReadOption
  <1>2. PICK s \in Seq(Letter) : s = string
    BY DEF ParserOK
  <1>3. PICK n \in Nat : n = Len(s)
    BY LenProperties
  <1>4. PICK d : d = descriptor
    OBVIOUS
  <1>5. PICK o : o = offset
    OBVIOUS
  <1>6. PICK nm : nm = name
    OBVIOUS
  <1>7. PICK ops : ops = options
    OBVIOUS
  <1>8. Stored(s, d, o, nm, ops) /\ OptionPlace(s, o, Len(ops))
    BY <1>1, <1>2, <1>4, <1>5, <1>6, <1>7 DEF ParserOK
  <1>9. Copy(s, d, o) /\ NameOK(s, d, o, nm) /\ OptionsOK(s, d, o, ops)
    BY <1>8 DEF Stored
  <1>10. o \in Nat /\ o <= n
    BY <1>3, <1>9 DEF Copy
  <1>11. PICK st : st = O!PastSpace(d, o)
    OBVIOUS
  <1>12. PICK en : en = O!Past(d, st, O!Name)
    OBVIOUS
  <1>13. PICK nx : nx = O!PastSpace(d, en)
    OBVIOUS
  <1>14. /\ Scan(s, o, st, en, nx)
         /\ O!Here(d, st) = CharOf(s, st) /\ O!Here(d, nx) = CharOf(s, nx)
    BY <1>9, <1>11, <1>12, <1>13, Scanned
  <1>15. /\ CharOf(s, st) # "end"
         /\ st # en /\ CharOf(s, nx) = "equals" =>
              /\ identifier' = st /\ descriptor' = O!Terminated(d, en) /\ offset' = nx + 1
              /\ at' = "value" /\ name' = name /\ options' = options
         /\ ~(st # en /\ CharOf(s, nx) = "equals") => result' = "error" /\ at' = "done"
    BY <1>4, <1>5, <1>11, <1>12, <1>13, <1>14 DEF O!ReadOption, O!Fail
  <1>16. /\ st \in Nat /\ en \in Nat /\ nx \in Nat
         /\ o <= st /\ st <= en /\ en <= nx /\ nx <= n /\ CharOf(s, st) # "space"
    BY <1>3, <1>14 DEF Scan
  <1>17. PICK k \in Nat : k = Len(ops)
    BY <1>9, LenProperties DEF OptionsOK
  <1>18. PICK b \in Nat : Begins(s, k, b) /\ b <= o /\ Blank(s, b + 1, o)
    BY <1>8, <1>17 DEF OptionPlace
  <1>19. CASE ~(st # en /\ CharOf(s, nx) = "equals")
    <2>1. ~(O!IsName(O!Key(s, k + 1)) /\ O!Value(s, k + 1) # << >>)
      BY <1>10, <1>14, <1>18, <1>19, KeyNot
    <2>2. st < n /\ s[st + 1] # "space"
      BY <1>3, <1>15, <1>16 DEF CharOf
    <2>3. O!Colon(s) \in Nat /\ O!Colon(s) <= b
      BY <1>18, ColonPlace, LenProperties DEF Begins
    <2>4. PICK m \in O!Colon(s) + 1 .. Len(s) : m = st + 1
      <3>1. PICK c \in Nat : c = O!Colon(s)
        BY <2>3
      <3>2. st + 1 \in c + 1 .. n
        <4>1. c <= b /\ b <= o /\ o <= st /\ st < n
          BY <1>16, <1>18, <2>2, <2>3, <3>1
        <4> QED
          BY <1>10, <1>16, <4>1
      <3> QED
        BY <1>3, <3>1, <3>2
    <2>5. k + 1 \in O!Given(s)
      BY <1>18, <2>2, <2>4, GivenUpTo
    <2>6. ~O!WellFormed(s)
      BY <2>1, <2>5 DEF O!WellFormed, O!OptionsFormed
    <2>7. string' = s /\ at' = "done" /\ result' = "error"
      BY <1>1, <1>2, <1>15, <1>19
    <2>8. Answered(s, descriptor', name', options', result')
      BY <2>6, <2>7 DEF Answered
    <2> QED
      BY <2>7, <2>8 DEF ParserOK
  <1>20. CASE st # en /\ CharOf(s, nx) = "equals"
    <2>1. /\ EqualsAt(s, b, nx + 1) /\ O!Key(s, k + 1) = SubSeq(s, st + 1, en)
          /\ O!IsName(O!Key(s, k + 1))
      BY <1>10, <1>14, <1>18, <1>20, KeyRead
    <2>2. PICK e : e = O!Terminated(d, en)
      OBVIOUS
    <2>3. nx < n
      BY <1>3, <1>16, <1>20 DEF CharOf
    <2>4. PICK p \in 0 .. n : p = nx + 1
      BY <1>16, <2>3
    <2>5. p \in Nat /\ en < p /\ o <= p
      BY <1>10, <1>16, <2>4
    <2>6. st \in o .. Len(s) /\ en \in st .. Len(s)
      BY <1>3, <1>10, <1>16
    <2>7. /\ SameBefore(d, e, o) /\ PointsAt(e, st, p, O!Key(s, k + 1)) /\ Copy(s, e, p)
      <3>1. PICK text : text = O!Key(s, k + 1)
        OBVIOUS
      <3>2. text = SubSeq(s, st + 1, en)
        BY <2>1, <3>1
      <3>3. TextCut(s, d, o, st, en, e, text)
        BY <1>9, <2>2, <2>6, <3>2, TerminatingText
      <3>4. PointsAt(e, st, p, text) /\ (p \in 0 .. Len(s) => Copy(s, e, p))
        BY <2>5, <3>3, TextCutAt
      <3>5. p \in 0 .. Len(s)
        BY <1>3, <2>4
      <3> QED
        BY <3>1, <3>3, <3>4, <3>5 DEF TextCut
    <2>8. NameOK(s, e, p, nm) /\ OptionsOK(s, e, p, ops)
      BY <1>9, <1>10, <2>5, <2>7, StoredStays
    <2>9. Stored(s, e, p, nm, ops)
      BY <2>7, <2>8 DEF Stored
    <2>10. ValuePlace(s, e, p, st, Len(ops))
      BY <1>17, <1>18, <2>1, <2>4, <2>7 DEF ValuePlace
    <2>11. /\ string' = s /\ descriptor' = e /\ offset' = p /\ name' = nm /\ options' = ops
           /\ identifier' = st /\ at' = "value"
      BY <1>1, <1>2, <1>6, <1>7, <1>15, <1>20, <2>2, <2>4
    <2> QED
      BY <2>9, <2>10, <2>11 DEF ParserOK
  <1> QED
    BY <1>19, <1>20

(* A value, up to a comma with more behind it or to the end. *)
LEMMA ValueStep ==
  ASSUME ParserOK, O!ReadValue
  PROVE  ParserOK'
  <1>1. at = "value" /\ string' = string
    BY DEF O!ReadValue
  <1>2. PICK s \in Seq(Letter) : s = string
    BY DEF ParserOK
  <1>3. PICK n \in Nat : n = Len(s)
    BY LenProperties
  <1>4. PICK d : d = descriptor
    OBVIOUS
  <1>5. PICK o : o = offset
    OBVIOUS
  <1>6. PICK nm : nm = name
    OBVIOUS
  <1>7. PICK ops : ops = options
    OBVIOUS
  <1>8. PICK id : id = identifier
    OBVIOUS
  <1>9. Stored(s, d, o, nm, ops) /\ ValuePlace(s, d, o, id, Len(ops))
    BY <1>1, <1>2, <1>4, <1>5, <1>6, <1>7, <1>8 DEF ParserOK
  <1>10. Copy(s, d, o) /\ NameOK(s, d, o, nm) /\ OptionsOK(s, d, o, ops)
    BY <1>9 DEF Stored
  <1>11. o \in Nat /\ o <= n /\ o \in o .. Len(s)
    BY <1>3, <1>10 DEF Copy
  <1>12. PICK k \in Nat : k = Len(ops)
    BY <1>10, LenProperties DEF OptionsOK
  <1>13. PICK b \in Nat : /\ Begins(s, k, b) /\ EqualsAt(s, b, o) /\ O!IsName(O!Key(s, k + 1))
                          /\ PointsAt(d, id, o, O!Key(s, k + 1))
    BY <1>9, <1>12 DEF ValuePlace
  <1>14. PICK sp : sp = {"space"}
    OBVIOUS
  <1>15. PICK vc : vc = O!Char \ {"comma", "end"}
    OBVIOUS
  <1>16. PICK st : st = O!Past(d, o, sp)
    OBVIOUS
  <1>17. PICK en : en = O!Past(d, st, vc)
    OBVIOUS
  <1>18. "end" \notin sp /\ "end" \notin vc
    BY <1>14, <1>15
  <1>19. /\ st \in Nat /\ o <= st /\ st <= n /\ CharOf(s, st) \notin sp
         /\ \A j \in o + 1 .. st : s[j] \in sp
    BY <1>3, <1>10, <1>11, <1>16, <1>18, PastInString
  <1>20. st \in o .. Len(s)
    BY <1>3, <1>11, <1>19
  <1>21. /\ en \in Nat /\ st <= en /\ en <= n /\ O!Here(d, en) = CharOf(s, en)
         /\ CharOf(s, en) \notin vc /\ \A j \in st + 1 .. en : s[j] \in vc
    BY <1>3, <1>10, <1>17, <1>18, <1>20, PastInString
  <1>22. CharOf(s, en) \in {"comma", "end"}
    <2>1. CharOf(s, en) \in O!Char
      <3>1. CASE en < n
        <4>1. en + 1 \in 1 .. n
          BY <1>21, <3>1
        <4>2. s[en + 1] \in Letter
          BY <1>3, <4>1, ElementOfSeq
        <4> QED
          BY <1>3, <3>1, <4>2 DEF CharOf, Letter
      <3>2. CASE ~(en < n)
        BY <1>3, <3>2 DEF CharOf, O!Char
      <3> QED
        BY <3>1, <3>2
    <2> QED
      BY <1>15, <1>21, <2>1
  <1>23. en \in st .. Len(s) /\ Blank(s, o + 1, st) /\ CharOf(s, st) # "space" /\ NoComma(s, st, en)
    BY <1>3, <1>14, <1>15, <1>19, <1>21 DEF Blank, NoComma
  <1>24. /\ en < n => s[en + 1] = "comma" /\ Begins(s, k + 1, en + 1)
         /\ en = n => Count(s, n) = k
         /\ (st = en) = (O!Value(s, k + 1) = << >>)
         /\ st # en => O!IsPadded(SubSeq(s, st + 1, en), O!Value(s, k + 1))
    BY <1>3, <1>13, <1>20, <1>22, <1>23, ValueRead
  <1>25. O!Given(s) = 1 .. Count(s, n) + 1 /\ k + 1 \in O!Given(s)
    <2>1. o \in b + 1 .. n /\ s[o] # "space"
      BY <1>3, <1>13 DEF EqualsAt
    <2>2. O!Colon(s) \in Nat /\ O!Colon(s) <= b
      BY <1>13, ColonPlace, LenProperties DEF Begins
    <2>3. o \in O!Colon(s) + 1 .. Len(s)
      BY <1>3, <2>1, <2>2
    <2> QED
      BY <1>3, <1>13, <2>1, <2>3, GivenUpTo
  <1>26. PICK e : e = O!Terminated(d, en)
    OBVIOUS
  <1>27. PICK x : x = O!Past(d, en + 1, sp)
    OBVIOUS
  <1>28. /\ st # en /\ (CharOf(s, en) = "end" \/ O!Here(d, x) # "end") =>
              /\ descriptor' = e /\ name' = name
              /\ options' = Append(options, [key |-> O!StringAt(e, id), value |-> st])
              /\ offset' = IF CharOf(s, en) = "end" THEN en ELSE x
              /\ at' = IF CharOf(s, en) = "end" THEN "done" ELSE "option"
              /\ result' = IF CharOf(s, en) = "end" THEN "options" ELSE NULL
         /\ ~(st # en /\ (CharOf(s, en) = "end" \/ O!Here(d, x) # "end")) =>
              result' = "error" /\ at' = "done"
    BY <1>4, <1>5, <1>8, <1>14, <1>15, <1>16, <1>17, <1>21, <1>26, <1>27
       DEF O!ReadValue, O!Fail, O!PastSpace, O!More
  <1>29. CharOf(s, en) = "end" <=> en = n
    <2>1. en < n => CharOf(s, en) = "comma"
      BY <1>3, <1>24 DEF CharOf
    <2>2. en = n => CharOf(s, en) = "end"
      BY <1>3, <1>21 DEF CharOf
    <2> QED
      BY <1>21, <2>1, <2>2
  (* Behind the comma. *)
  <1>30. en < n => /\ x \in Nat /\ en + 1 <= x /\ x <= n /\ O!Here(d, x) = CharOf(s, x)
                   /\ CharOf(s, x) # "space" /\ Blank(s, (en + 1) + 1, x)
    <2> SUFFICES ASSUME en < n
                 PROVE  /\ x \in Nat /\ en + 1 <= x /\ x <= n /\ O!Here(d, x) = CharOf(s, x)
                        /\ CharOf(s, x) # "space" /\ Blank(s, (en + 1) + 1, x)
      OBVIOUS
    <2>1. PICK i \in o .. Len(s) : i = en + 1
      BY <1>3, <1>11, <1>19, <1>21
    <2>2. /\ x \in Nat /\ i <= x /\ x <= n /\ O!Here(d, x) = CharOf(s, x)
          /\ CharOf(s, x) \notin sp /\ \A j \in i + 1 .. x : s[j] \in sp
      BY <1>3, <1>10, <1>18, <1>27, <2>1, PastInString
    <2> QED
      BY <1>14, <2>1, <2>2 DEF Blank
  <1>31. CASE ~(st # en /\ (CharOf(s, en) = "end" \/ O!Here(d, x) # "end"))
    <2>1. ~O!WellFormed(s)
      <3>1. CASE st = en
        <4>1. O!Value(s, k + 1) = << >>
          BY <1>24, <3>1
        <4> QED
          BY <1>25, <4>1 DEF O!WellFormed, O!OptionsFormed
      <3>2. CASE st # en
        <4>1. en < n /\ O!Here(d, x) = "end"
          BY <1>21, <1>29, <1>31, <3>2
        <4>2. x = n
          <5>1. CASE x < n
            <6>1. x + 1 \in 1 .. n
              BY <1>30, <4>1, <5>1
            <6>2. s[x + 1] # "end"
              BY <1>3, <6>1, ElementOfSeq DEF Letter
            <6> QED
              BY <1>3, <1>30, <4>1, <5>1, <6>2 DEF CharOf
          <5> QED
            BY <1>30, <4>1, <5>1
        <4>3. Begins(s, k + 1, en + 1) /\ Blank(s, (en + 1) + 1, Len(s))
          BY <1>3, <1>24, <1>30, <4>1, <4>2
        <4>4. PICK l \in Nat : l = k + 1
          OBVIOUS
        <4>5. ~O!IsName(O!Key(s, l + 1))
          BY <4>3, <4>4, LastBlank
        <4>6. l + 1 \in O!Given(s)
          <5>1. PICK m \in O!Colon(s) + 1 .. Len(s) : s[m] # "space"
            <6>1. o \in b + 1 .. n /\ s[o] # "space"
              BY <1>3, <1>13 DEF EqualsAt
            <6>2. O!Colon(s) \in Nat /\ O!Colon(s) <= b
              BY <1>13, ColonPlace, LenProperties DEF Begins
            <6>3. o \in O!Colon(s) + 1 .. Len(s)
              BY <1>3, <6>1, <6>2
            <6> QED
              BY <6>1, <6>3
          <5> QED
            BY <4>3, <4>4, <5>1, GivenUpTo
        <4> QED
          BY <4>5, <4>6 DEF O!WellFormed, O!OptionsFormed
      <3> QED
        BY <3>1, <3>2
    <2>2. string' = s /\ at' = "done" /\ result' = "error"
      BY <1>1, <1>2, <1>28, <1>31
    <2>3. Answered(s, descriptor', name', options', result')
      BY <2>1, <2>2 DEF Answered
    <2> QED
      BY <2>2, <2>3 DEF ParserOK
  <1>32. CASE st # en /\ (CharOf(s, en) = "end" \/ O!Here(d, x) # "end")
    <2>0. PICK text : text = SubSeq(s, st + 1, en)
      OBVIOUS
    <2>1. /\ e \in Seq(O!Char) /\ Len(e) = n + 1 /\ SameBefore(d, e, o)
          /\ \A p \in Nat : en < p => PointsAt(e, st, p, text)
          /\ \A p \in 0 .. n : en < p => Copy(s, e, p)
      <3>1. TextCut(s, d, o, st, en, e, text)
        BY <1>3, <1>10, <1>20, <1>23, <1>26, <2>0, TerminatingText
      <3> QED
        BY <1>3, <3>1 DEF TextCut
    <2>2. O!StringAt(e, id) = O!Key(s, k + 1)
      <3>1. n + 1 \in Nat /\ o <= n + 1
        BY <1>11
      <3>2. PointsAt(e, id, n + 1, O!Key(s, k + 1))
        BY <1>11, <1>13, <2>1, <3>1, PointerStays
      <3> QED
        BY <2>1, <3>2, PointerReads
    <2>3. PICK entry : entry = [key |-> O!Key(s, k + 1), value |-> st]
      OBVIOUS
    <2>4. entry \in Entry /\ entry.key = O!Key(s, k + 1) /\ entry.value = st
      <3>1. O!Key(s, k + 1) \in Seq(Letter)
        BY <1>13 DEF PointsAt
      <3> QED
        BY <1>19, <2>3, <3>1 DEF Entry
    <2>5. PICK more : more = Append(ops, entry)
      OBVIOUS
    <2>6. /\ more \in Seq(Entry) /\ Len(more) = k + 1 /\ more[k + 1] = entry
          /\ \A i \in 1 .. k : more[i] = ops[i]
      BY <1>10, <1>12, <2>4, <2>5, AppendProperties DEF OptionsOK
    <2>7. O!Value(s, k + 1) # << >> /\ O!IsPadded(text, O!Value(s, k + 1))
      BY <1>24, <1>32, <2>0
    <2>8. \A p \in Nat : o <= p /\ en < p => NameOK(s, e, p, nm) /\ OptionsOK(s, e, p, more)
      <3> SUFFICES ASSUME NEW p \in Nat, o <= p, en < p
                   PROVE  NameOK(s, e, p, nm) /\ OptionsOK(s, e, p, more)
        OBVIOUS
      <3>1. NameOK(s, e, p, nm) /\ OptionsOK(s, e, p, ops)
        BY <1>10, <1>11, <2>1, StoredStays
      <3>2. \A i \in 1 .. k : OptionOK(s, e, p, i, more[i])
        BY <1>12, <2>6, <3>1 DEF OptionsOK
      <3>3. OptionOK(s, e, p, k + 1, more[k + 1])
        BY <1>13, <2>1, <2>4, <2>6, <2>7 DEF OptionOK
      <3>4. \A i \in 1 .. k + 1 : i \in 1 .. k \/ i = k + 1
        OBVIOUS
      <3>5. OptionsOK(s, e, p, more)
        BY <2>6, <3>2, <3>3, <3>4 DEF OptionsOK
      <3> QED
        BY <3>1, <3>5
    <2>9. string' = s /\ descriptor' = e /\ name' = nm /\ options' = more
      BY <1>1, <1>2, <1>6, <1>7, <1>28, <1>32, <2>2, <2>3, <2>5
    <2>10. CASE en = n
      <3>1. O!Given(s) = 1 .. Len(more)
        BY <1>24, <1>25, <2>6, <2>10
      <3>2. n + 1 \in Nat /\ o <= n + 1 /\ en < n + 1
        BY <1>11, <2>10
      <3>3. NameOK(s, e, Len(e), nm) /\ OptionsOK(s, e, Len(e), more)
        BY <2>1, <2>8, <3>2
      <3>4. Answered(s, e, nm, more, "options")
        BY <2>1, <3>1, <3>3, Accepting
      <3>5. at' = "done" /\ result' = "options"
        BY <1>28, <1>29, <1>32, <2>10
      <3> QED
        BY <2>9, <3>4, <3>5 DEF ParserOK
    <2>11. CASE en < n
      <3>1. CharOf(s, en) # "end" /\ O!Here(d, x) # "end"
        BY <1>21, <1>29, <1>32, <2>11
      <3>2. /\ x \in Nat /\ en + 1 <= x /\ x <= n /\ CharOf(s, x) \notin {"space", "end"}
            /\ Blank(s, (en + 1) + 1, x)
        BY <1>30, <2>11, <3>1
      <3>3. x \in 0 .. n /\ en < x /\ o <= x
        BY <1>11, <1>19, <1>21, <3>2
      <3>4. Stored(s, e, x, nm, more)
        BY <2>1, <2>8, <3>2, <3>3 DEF Stored
      <3>5. PICK c \in Nat : c = en + 1
        BY <1>21
      <3>6. Begins(s, k + 1, c) /\ c <= x /\ Blank(s, c + 1, x)
        BY <1>24, <2>11, <3>2, <3>5
      <3>7. OptionPlace(s, x, Len(more))
        BY <2>6, <3>2, <3>5, <3>6 DEF OptionPlace
      <3>8. at' = "option" /\ offset' = x
        BY <1>28, <1>32, <3>1
      <3> QED
        BY <2>9, <3>4, <3>7, <3>8 DEF ParserOK
    <2> QED
      BY <1>21, <2>10, <2>11
  <1> QED
    BY <1>31, <1>32

(* SVR_parseOptionString accepts every string of the documented form, and no other but one
   whose object is missing; what it stores are the object, the options and the values in
   it, each value with the spaces after it: for strings of any length. *)
THEOREM StringsParsed == Spec => []ParsesGrammar
  <1> DEFINE Inv == part = "options" => ParserOK
  <1>1. Init => Inv
    <2> SUFFICES ASSUME Init, part = "options"
                 PROVE  ParserOK
      OBVIOUS
    <2>1. O!Init
      BY DEF Init
    <2>2. string \in Seq(Letter)
      BY <2>1, StringsAssumption DEF O!Init, Letter
    <2> QED
      BY <2>1, <2>2 DEF O!Init, ParserOK
  <1>2. Inv /\ [Next]_vars => Inv'
    <2> SUFFICES ASSUME Inv, [Next]_vars, part' = "options"
                 PROVE  ParserOK'
      OBVIOUS
    <2>1. part = "options"
      BY DEF Next, vars
    <2>2. ParserOK
      BY <2>1
    <2>3. O!Next \/ UNCHANGED parser
      BY DEF Next, vars
    <2>4. CASE UNCHANGED parser
      BY <2>2, <2>4 DEF parser, ParserOK
    <2>5. CASE O!Next
      <3>1. NULL \notin Nat
        BY LibraryAssumption
      <3> QED
        BY <2>2, <2>5, <3>1, ObjectStep, EndStep, OptionStep, ValueStep DEF O!Next
    <2> QED
      BY <2>3, <2>4, <2>5
  <1>3. Inv => ParsesGrammar
    <2> SUFFICES ASSUME Inv, part = "options", at = "done"
                 PROVE  /\ O!WellFormed(string) => result = "options"
                        /\ result = "options" => Parsed(string, descriptor, name, options)
      BY DEF ParsesGrammar, O!ParsesGrammar, Parsed
    <2>1. Answered(string, descriptor, name, options, result)
      BY DEF ParserOK
    <2> QED
      BY <2>1 DEF Answered
  <1> QED
    BY <1>1, <1>2, <1>3, PTL DEF Spec
=============================================================================
