------------------------------ MODULE Duplicates ------------------------------
(***************************************************************************)
(* Which documents tell the same story: the similarity hash of a text, the *)
(* index that finds a stored hash near a new one, and which of several     *)
(* copies is kept.  A text is a sequence of words and a hash its bits, the *)
(* highest first; HashOf is the hash of one word or run of words.          *)
(***************************************************************************)
EXTENDS Integers, FiniteSets, SequencesExt, FiniteSetsExt

CONSTANTS
  HashOf(_),
  Width,          \* bits of a band
  MinTokens,      \* MIN_TOKENS_FOR_SIMHASH
  Shingle         \* SHINGLE_SIZE

Bands        == 4
NearDistance == 3
Bits         == Bands * Width

Hash   == [0 .. Bits - 1 -> {0, 1}]
NoHash == <<>>

UnigramWeight == 1
ShingleWeight == 2

(* windows *)
Runs(text) ==
  LET width == IF Shingle < Len(text) THEN Shingle ELSE Len(text)
  IN  [i \in 1 .. Len(text) - width + 1 |-> SubSeq(text, i, i + width - 1)]

(* The signed vote of a text's words, and of its runs of words, on a bit. *)
Vote(text, n) ==
  LET Side(h) == IF h[n] = 1 THEN 1 ELSE 0 - 1
      Votes(features, weight) ==
        FoldLeft(LAMBDA v, f : v + weight * Side(HashOf(f)), 0, features)
  IN  Votes([i \in DOMAIN text |-> <<text[i]>>], UnigramWeight) + Votes(Runs(text), ShingleWeight)

(* A text too short to say anything has no hash. *)
SimHash(text) ==
  IF Len(text) < MinTokens THEN NoHash
  ELSE [n \in 0 .. Bits - 1 |-> IF Vote(text, n) > 0 THEN 1 ELSE 0]

Hamming(a, b) == Cardinality({n \in 0 .. Bits - 1 : a[n] # b[n]})
IsNear(a, b) == Hamming(a, b) <= NearDistance

(* Faulty: bands overlap by a bit. *)
BandsOverlapping(h) ==
  [i \in 1 .. Bands |-> [n \in 0 .. Width |-> h[Min({(i - 1) * Width + n, Bits - 1})]]]

BandsOf(h) == [i \in 1 .. Bands |-> [n \in 0 .. Width - 1 |-> h[(i - 1) * Width + n]]]

(* SimHashIndex: a document is in the bucket of each of its bands. *)
Insert(index, hash, id) ==
  index \cup {[band |-> i, value |-> BandsOf(hash)[i], hash |-> hash, id |-> id] : i \in 1 .. Bands}

(* Those of its buckets that are near, of which the first found is taken. *)
FindNear(index, hash) ==
  {e.id : e \in {m \in index : /\ m.value = BandsOf(hash)[m.band]
                               /\ IsNear(m.hash, hash)}}

-----------------------------------------------------------------------------
(* select_winner: a date that was read before one that was guessed, then   *)
(* the earliest, the most trusted, the longest, and the first id.           *)
Better(a, b) ==
  LET Key(c) == <<IF c.dated THEN 0 ELSE 1, c.published, 0 - c.trust, 0 - c.length, c.id>>
      differ == {i \in 1 .. 5 : Key(a)[i] # Key(b)[i]}
  IN  differ # {} /\ Key(a)[Min(differ)] < Key(b)[Min(differ)]

Winner(copies) ==
  [id |-> (CHOOSE c \in copies : \A d \in copies \ {c} : Better(c, d)).id,
   engagement |-> MapThenSumSet(LAMBDA c : c.engagement, copies)]
=============================================================================
