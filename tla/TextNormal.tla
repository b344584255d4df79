------------------------------ MODULE TextNormal ------------------------------
(***************************************************************************)
(* Normalisation, done to queries and to documents alike: if it is not the *)
(* same for both, or if doing it twice is not doing it once, what was      *)
(* written is not found.  A text is a sequence of symbols that stand for   *)
(* the classes of characters the pipeline tells apart.                     *)
(***************************************************************************)
EXTENDS Integers, SequencesExt

CONSTANT MaxChars

Ascii      == {"a", "A", "3", " ", "\t", "control"}
Whitespace == {" ", "\t", "no-break space"}
Invisible  == {"zero-width"}
Controls   == {"control"}
Diacritics == {"fatha"}

(* nfkc: what composition makes of the symbols that are not composed.  A   *)
(* letter and the accent after it are one.                                 *)
Compatible(c) ==
  CASE c = "ligature aa"    -> <<"a", "a">>
    [] c = "full-width A"   -> <<"A">>
    [] c = "no-break space" -> <<" ">>
    [] OTHER -> <<c>>

Composes == [a |-> "a-acute", A |-> "A-acute"]

Nfkc(s) ==
  LET Add(out, c) ==
        IF c = "acute" /\ out # <<>> /\ Last(out) \in DOMAIN Composes
        THEN Append(Front(out), Composes[Last(out)]) ELSE Append(out, c)
  IN  FoldLeft(Add, <<>>, FlattenSeq([i \in DOMAIN s |-> Compatible(s[i])]))

Lower(c) == CASE c = "A" -> "a" [] c = "A-acute" -> "a-acute" [] OTHER -> c
FoldDigit(c) == IF c = "arabic 3" THEN "3" ELSE c
FoldLetter(c) == CASE c \in {"alef hamza", "alef madda"} -> "alef" [] c = "ta marbuta" -> "ha" [] OTHER -> c

Dropped(c) == c \in Invisible \cup Controls \cup {"tatweel"} \cup Diacritics

CollapseWhitespace(s) ==
  LET Add(out, c) ==
        CASE c \notin Whitespace -> Append(out, c)
          [] c \in Whitespace /\ out # <<>> /\ Last(out) # " " -> Append(out, " ")
          [] OTHER -> out
      out == FoldLeft(Add, <<>>, s)
  IN  IF out # <<>> /\ Last(out) = " " THEN Front(out) ELSE out

RECURSIVE TrimEnd(_)
TrimEnd(s) == IF s # <<>> /\ Last(s) = " " THEN TrimEnd(Front(s)) ELSE s

(* A space the cut leaves at the end goes as well. *)
Truncate(s) == IF Len(s) > MaxChars THEN TrimEnd(SubSeq(s, 1, MaxChars)) ELSE s

(* Faulty: not composed again after it was lowered. *)
LoweredOnly(s) == [i \in DOMAIN s |-> Lower(s[i])]

(* Lowered, and composed again, as what was dropped may have stood between *)
(* a letter and its accent.                                                *)
Lowered(s) == Nfkc([i \in DOMAIN s |-> Lower(s[i])])

NormalizeSlow(s, folding) ==
  LET kept  == SelectSeq(Nfkc(s), LAMBDA c : ~Dropped(c))
      Letter(c) == IF folding THEN FoldLetter(FoldDigit(c)) ELSE FoldDigit(c)
  IN  Truncate(CollapseWhitespace(Lowered([i \in DOMAIN kept |-> Letter(kept[i])])))

(* The short way for text that is all ASCII: it stops after the character  *)
(* that fills it up, and looks at the limit only then.                      *)
FastPath(s) ==
  LET Add(st, c) ==
        LET out == (IF st.pending THEN Append(st.out, " ") ELSE st.out) \o <<Lower(c)>>
        IN  CASE st.done \/ c \in Controls -> st
              [] ~st.done /\ c \in Whitespace -> [st EXCEPT !.pending = st.out # <<>>]
              [] OTHER -> [out |-> out, pending |-> FALSE, done |-> Len(out) >= MaxChars]
  IN  FoldLeft(Add, [out |-> <<>>, pending |-> FALSE, done |-> FALSE], s).out

Normalize(s) == IF ToSet(s) \subseteq Ascii THEN FastPath(s) ELSE NormalizeSlow(s, FALSE)

(* fold: letters that are written differently are one. *)
Fold(s) == IF ToSet(s) \subseteq Ascii THEN FastPath(s) ELSE NormalizeSlow(s, TRUE)
=============================================================================
