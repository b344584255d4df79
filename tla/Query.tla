-------------------------------- MODULE Query --------------------------------
(***************************************************************************)
(* What a search asks for: the operators taken off the query as it was     *)
(* typed, and the filters of its parameters.  A query is a sequence of     *)
(* symbols; "site:", "www." and a scheme are symbols of their own.         *)
(***************************************************************************)
EXTENDS Integers, SequencesExt

Blank == "blank"

(* The quotes, each with what closes it. *)
ClosingQuote == [quote |-> "quote", left |-> "right", guillemet |-> "guillemet end"]

Parsed == [terms |-> <<>>, phrases |-> <<>>, site |-> <<>>, excluded |-> <<>>]
NoSite == <<>>

Trimmed(s) ==
  LET kept == {i \in DOMAIN s : s[i] # Blank}
  IN  IF kept = {} THEN <<>> ELSE SubSeq(s, Min(kept), Max(kept))

(* Up to the next blank. *)
Token(raw, i) ==
  LET blanks == {j \in i .. Len(raw) : raw[j] = Blank}
  IN  SubSeq(raw, i, IF blanks = {} THEN Len(raw) ELSE Min(blanks) - 1)

(* Where the quote opened at i is closed, or 0. *)
ClosedAt(raw, i) ==
  LET ends == IF raw[i] \in DOMAIN ClosingQuote
              THEN {j \in i + 1 .. Len(raw) : raw[j] = ClosingQuote[raw[i]]} ELSE {}
  IN  IF ends = {} THEN 0 ELSE Min(ends)

RECURSIVE WithoutPrefix(_, _)
WithoutPrefix(s, symbol) ==
  IF s # <<>> /\ Head(s) = symbol THEN WithoutPrefix(Tail(s), symbol) ELSE s

(* A bare host, whatever was pasted, but for a scheme with nothing after    *)
(* it, which is no scheme without its slashes.  What is left may be nothing, *)
(* which is a site all the same.                                           *)
NormaliseHost(s) ==
  LET bare  == Reverse(WithoutPrefix(Reverse(s), "/"))
      host  == WithoutPrefix(WithoutPrefix(WithoutPrefix(bare, "https://"), "http://"), "www.")
      slash == SelectInSeq(host, LAMBDA c : c = "/")
  IN  CASE bare # <<>> /\ Last(bare) \in {"https://", "http://"} -> Append(Front(bare), "scheme")
        [] slash # 0 -> SubSeq(host, 1, slash - 1)
        [] OTHER -> host

(* Faulty: the symbol after a closing quote is taken for part of it. *)
AfterPhraseTwo(end) == end + 2
AfterPhrase(end) == end + 1

(* parse: from left to right, so that the last site: is the one. *)
Parse(raw) ==
  LET Then(p, i) ==
        LET end   == ClosedAt(raw, i)
            token == Token(raw, i)
        IN  CASE raw[i] = Blank -> [parsed |-> p, at |-> i + 1]
              [] end # 0 ->
                   LET phrase == Trimmed(SubSeq(raw, i + 1, end - 1))
                   IN  [parsed |-> IF phrase = <<>> THEN p ELSE [p EXCEPT !.phrases = Append(@, phrase)],
                        at |-> AfterPhrase(end)]
              [] Head(token) = "site:" /\ Len(token) > 1 ->
                   [parsed |-> [p EXCEPT !.site = <<NormaliseHost(Tail(token))>>], at |-> i + Len(token)]
              [] Head(token) = "-" /\ Len(token) > 1 ->
                   [parsed |-> [p EXCEPT !.excluded = Append(@, Tail(token))], at |-> i + Len(token)]
              [] OTHER -> [parsed |-> [p EXCEPT !.terms = Append(@, token)], at |-> i + Len(token)]
      read == FoldLeft(LAMBDA s, i : IF s.at > i THEN s ELSE Then(s.parsed, i),
                       [parsed |-> Parsed, at |-> 1], [i \in DOMAIN raw |-> i])
  IN  read.parsed

(* What goes to the engine: the terms, and the phrases quoted again. *)
EngineQuery(p) ==
  LET quoted == [i \in DOMAIN p.phrases |-> <<"quote">> \o p.phrases[i] \o <<"quote">>]
      parts  == p.terms \o quoted
  IN  FoldLeftDomain(LAMBDA q, i : q \o (IF i = 1 THEN <<>> ELSE <<Blank>>) \o parts[i], <<>>, parts)

-----------------------------------------------------------------------------
(* Filters. *)

NoTime == 0 - 1

NoFilters == [sources |-> {}, sentiments |-> {}, languages |-> {}, from |-> NoTime, to |-> NoTime,
              domain |-> NoSite, excludeSpam |-> TRUE, excludeUnknownDates |-> FALSE]

Sources == {"news", "forum", "gov"}
Sentiments == {"positive", "neutral", "negative"}
Refused == "invalid parameter"

(* parse_filters: a source or a sentiment nobody knows refuses the request, *)
(* a language is taken as it is, "auto" as well.                            *)
ParseFilters(params) ==
  IF ~(params.sources \subseteq Sources /\ params.sentiments \subseteq Sentiments) THEN Refused
  ELSE [NoFilters EXCEPT !.sources = params.sources, !.sentiments = params.sentiments,
                         !.languages = params.languages, !.from = params.from, !.to = params.to]

(* Filters::normalise: with a date filter no guessed date is shown, and a  *)
(* range the wrong way round is turned.                                    *)
NormaliseFilters(f) ==
  LET dated    == f.from # NoTime \/ f.to # NoTime
      reversed == f.from # NoTime /\ f.to # NoTime /\ f.from > f.to
  IN  [f EXCEPT !.excludeUnknownDates = dated,
                !.from = IF reversed THEN f.to ELSE f.from,
                !.to = IF reversed THEN f.from ELSE f.to]

(* to_expression: clauses that all must hold. *)
Expression(f) ==
  LET Clause(attribute, op, value) == [attribute |-> attribute, op |-> op, value |-> value]
      Given(cond, clause) == IF cond THEN {clause} ELSE {}
  IN  Given(f.sources # {}, Clause("source_type", "in", f.sources))
      \cup Given(f.sentiments # {}, Clause("sentiment.label", "in", f.sentiments))
      \cup Given(f.languages # {}, Clause("language", "in", f.languages))
      \cup Given(f.from # NoTime, Clause("published_at", ">=", {f.from}))
      \cup Given(f.to # NoTime, Clause("published_at", "<=", {f.to}))
      \cup Given(f.domain # NoSite, Clause("domain", "in", {f.domain}))
      \cup Given(f.excludeSpam, Clause("spam_score", "<", {"threshold"}))
      \cup Given(f.excludeUnknownDates, Clause("published_at_precision", "#", {"unknown"}))

(* documents_settings: what a filter may name. *)
Filterable ==
  {"source_type", "source_id", "domain", "language", "script", "sentiment.label", "published_at",
   "crawled_at", "is_nsfw", "quality_score", "spam_score", "geo.wilaya", "topics", "robots_indexable"}

(* What a search answers with, and what a hit thus carries. *)
Displayed ==
  {"id", "title", "url", "canonical_url", "excerpt", "source_type", "source_id", "domain", "author",
   "published_at", "published_at_precision", "sentiment", "engagement", "language", "media", "simhash",
   "quality_score", "comments_count", "body_len"}

(* The engine refuses an expression that names an attribute it cannot       *)
(* filter by, and the search with it.                                      *)
Accepted(f) == \A clause \in Expression(f) : clause.attribute \in Filterable

(* detect_language: the client's hint, or what the detector makes of it. *)
Language(hint, known, detected) == IF hint # "auto" /\ hint \in known THEN hint ELSE detected
=============================================================================
