------------------------------- MODULE Robots -------------------------------
(***************************************************************************)
(* What a site asks of a crawler: its robots.txt, the robots directives of *)
(* one response, and the lists of hosts that are not to be visited.  A     *)
(* path and a pattern are sequences of characters, a host a sequence of    *)
(* labels, a line of robots.txt a field and its value: who a User-agent    *)
(* names, a pattern or the address of a sitemap, or a number of seconds.    *)
(***************************************************************************)
EXTENDS Integers, SequencesExt

(* What a User-agent line names, in lower case: everybody, us, or another.  *)
(* A line without a field, an empty one and a comment are "blank".          *)
Rules == {"allow", "disallow", "crawl-delay"}

Group == [allow |-> <<>>, disallow |-> <<>>, delay |-> 0]
NoGroups == [specific |-> Group, wildcard |-> Group, sitemaps |-> <<>>,
             inSpecific |-> FALSE, inWildcard |-> FALSE, lastWasAgent |-> FALSE]

(* An empty pattern and a delay that is not a positive number say nothing.  *)
Ruled(group, line) ==
  CASE line.field = "crawl-delay" /\ line.seconds > 0 -> [group EXCEPT !.delay = Min({line.seconds, 3600})]
    [] line.field = "allow" /\ line.text # <<>>    -> [group EXCEPT !.allow = Append(@, line.text)]
    [] line.field = "disallow" /\ line.text # <<>> -> [group EXCEPT !.disallow = Append(@, line.text)]
    [] OTHER -> group

(* Faulty: a new run of User-agent lines adds to the one before it. *)
AgentAdded(s, names) ==
  [s EXCEPT !.inSpecific = @ \/ names = "us", !.inWildcard = @ \/ names = "*", !.lastWasAgent = TRUE]

(* The first User-agent line after anything else starts a new run of them. *)
Agent(s, names) ==
  [s EXCEPT !.inSpecific = (s.lastWasAgent /\ @) \/ names = "us",
            !.inWildcard = (s.lastWasAgent /\ @) \/ names = "*",
            !.lastWasAgent = TRUE]

ReadLine(s, line) ==
  CASE line.field = "blank" -> s
    [] line.field = "user-agent" -> Agent(s, line.who)
    [] line.field \in Rules ->
         [s EXCEPT !.specific = IF s.inSpecific THEN Ruled(@, line) ELSE @,
                   !.wildcard = IF s.inWildcard THEN Ruled(@, line) ELSE @,
                   !.lastWasAgent = FALSE]
    [] line.field = "sitemap" /\ line.text # <<>> ->
         [s EXCEPT !.sitemaps = Append(@, line.text), !.lastWasAgent = FALSE]
    [] OTHER -> [s EXCEPT !.lastWasAgent = FALSE]

(* Robots::parse: a group that names us and says anything replaces the      *)
(* wildcard group.                                                          *)
Parse(lines) ==
  LET s == FoldLeft(ReadLine, NoGroups, lines)
  IN  IF s.specific = Group THEN s.wildcard ELSE s.specific

-----------------------------------------------------------------------------
(* matches_pattern: * is any run of characters, a final $ the end. *)

StartsAt(path, part, i) == i + Len(part) <= Len(path) /\ SubSeq(path, i + 1, i + Len(part)) = part

(* The part is looked for from pos on; what is returned is the position     *)
(* after it, or Nowhere.                                                    *)
Nowhere == 0 - 1

FindFrom(path, part, pos) ==
  LET found == {i \in pos .. Len(path) : StartsAt(path, part, i)}
  IN  IF found = {} THEN Nowhere ELSE Min(found) + Len(part)

(* The literals between the stars. *)
Parts(pattern) ==
  LET Cut(parts, ch) == IF ch = "*" THEN Append(parts, <<>>)
                        ELSE [parts EXCEPT ![Len(parts)] = Append(@, ch)]
  IN  FoldLeft(Cut, << <<>> >>, pattern)

(* What comes first has to be at the start. *)
Found(path, part, first, pos) ==
  CASE ~first -> FindFrom(path, part, pos)
    [] first /\ StartsAt(path, part, pos) -> pos + Len(part)
    [] OTHER -> Nowhere

(* Faulty: a part is looked for from where the one before it was found. *)
PlaceInPlace(path, part, first, pos) ==
  IF part = <<>> \/ pos = Nowhere \/ Found(path, part, first, pos) = Nowhere THEN pos
  ELSE Found(path, part, first, pos) - Len(part)

Place(path, part, first, pos) ==
  IF part = <<>> \/ pos = Nowhere THEN pos ELSE Found(path, part, first, pos)

Matches(pattern, path) ==
  LET anchored == pattern # <<>> /\ Last(pattern) = "$"
      parts    == Parts(IF anchored THEN Front(pattern) ELSE pattern)
      end      == FoldLeftDomain(LAMBDA pos, i : Place(path, parts[i], i = 1, pos), 0, parts)
  IN  /\ end # Nowhere
      /\ anchored /\ Last(parts) # <<>> => end = Len(path)

(* Robots::allows: the longest pattern that matches decides, and Allow wins *)
(* a tie.                                                                   *)
Longest(patterns, path) ==
  Max({0 - 1} \cup {Len(p) : p \in {q \in ToSet(patterns) : Matches(q, path)}})

Allows(group, path) == Longest(group.allow, path) >= Longest(group.disallow, path)

-----------------------------------------------------------------------------
(* exclusion: X-Robots-Tag and the robots meta element.  A directive is the *)
(* agent it is addressed to, "" for none, and a rule.                       *)

Addressed(d) == d.agent \in {"", "*", "us"}

FromHeader(directives) ==
  LET rules == {d.rule : d \in {e \in ToSet(directives) : Addressed(e)}}
  IN  [noindex |-> rules \cap {"noindex", "none"} # {}, nofollow |-> rules \cap {"nofollow", "none"} # {}]

(* Blocklist: three tiers of hosts, and the hardest to lift is reported. *)
Tiers == <<"global", "takedown", "host_opt_out">>
NoTier == "none"

(* Lower case, without a leading www, or several, each with its dot. *)
Normalise(host) ==
  LET named == {i \in DOMAIN host : host[i] # "www" \/ i = Len(host)}
  IN  IF host = <<>> THEN host ELSE SubSeq(host, Min(named), Len(host))

Listed(lists, tier, host) ==
  IF Normalise(host) = <<>> THEN lists
  ELSE [lists EXCEPT ![tier] = @ \cup {Normalise(host)}]

(* Only from the one tier. *)
Unlisted(lists, tier, host) == [lists EXCEPT ![tier] = @ \ {Normalise(host)}]

(* Faulty: one label is taken off. *)
ParentOnly(host) == {host} \cup (IF Len(host) > 1 THEN {Tail(host)} ELSE {})
Parents(host) == {SubSeq(host, i, Len(host)) : i \in 1 .. Len(host)}

MatchesHost(set, host) == Parents(host) \cap set # {}

Blocked(lists, host) ==
  LET i == SelectInSeq(Tiers, LAMBDA t : MatchesHost(lists[t], Normalise(host)))
  IN  IF i = 0 THEN NoTier ELSE Tiers[i]
=============================================================================
