-------------------------------- MODULE Dates --------------------------------
(***************************************************************************)
(* When a page was published and when it last changed, read from what the  *)
(* page or its sitemap says.  A text is a sequence of tokens, each with    *)
(* its length in bytes and how many of them its characters take: slices    *)
(* are by bytes.  A "number" has its value, a "month" name the month, a    *)
(* "named" day ("yesterday") how long ago it is, a "unit" its seconds; an  *)
(* "ago" makes a text relative; a "word" says nothing, and any other kind  *)
(* is a character.                                                         *)
(***************************************************************************)
EXTENDS Integers, SequencesExt, FiniteSetsExt

Hour == 3600
Day  == 24 * Hour

(* The days of 400 years, and those from the first era to 1970. *)
EraDays   == 146097
EpochDays == 719468

(* Days of March to January before the month, as the rule of 153 gives them. *)
DayOfYear(month, day) == (153 * (IF month > 2 THEN month - 3 ELSE month + 9) + 2) \div 5 + day - 1

DayOfEra(yoe, doy) == yoe * 365 + yoe \div 4 - yoe \div 100 + doy

(* Years begin in March, and eras have 400 of them. *)
DaysFromCivil(year, month, day) ==
  LET y   == IF month <= 2 THEN year - 1 ELSE year
      era == y \div 400
  IN  era * EraDays + DayOfEra(y - era * 400, DayOfYear(month, day)) - EpochDays

NoDate == [unix |-> 0, precision |-> "none"]
Panics == [unix |-> 0, precision |-> "panic"]
Read(unix, precision) == [unix |-> unix, precision |-> precision]

(* Every month is taken to have 31 days. *)
IsDay(month, day) == month \in 1 .. 12 /\ day \in 1 .. 31

-----------------------------------------------------------------------------
(* Bytes of a text. *)

Offset(text, i) == FoldLeft(LAMBDA n, t : n + t.bytes, 0, SubSeq(text, 1, i - 1))
Bytes(text) == Offset(text, Len(text) + 1)

(* A slice may begin or end here. *)
Boundary(text, n) ==
  \/ n = Bytes(text)
  \/ \E i \in DOMAIN text : LET at == n - Offset(text, i)
                            IN  at \in 0 .. text[i].bytes - 1 /\ at % text[i].wide = 0

CharAt(text, n, kinds) == \E i \in DOMAIN text : Offset(text, i) = n /\ text[i].kind \in kinds

(* What the bytes from a up to b are as a number. *)
NoNumber == 0 - 1
NumberAt(text, a, b) ==
  LET in == {i \in DOMAIN text : /\ text[i].kind = "number"
                                 /\ Offset(text, i) <= a /\ b <= Offset(text, i) + text[i].bytes}
  IN  IF in = {} THEN NoNumber
      ELSE LET i == Min(in) IN (text[i].value \div 10 ^ (Offset(text, i) + text[i].bytes - b)) % 10 ^ (b - a)

NumberOr0(text, a, b) == Max({NumberAt(text, a, b), 0})

-----------------------------------------------------------------------------
(* parse_iso8601. *)

Algiers == Hour

(* Seconds to take off for the zone that follows the time at byte 19: the   *)
(* offset after a sign, none after a Z, or that of Algiers where nothing is *)
(* said.                                                                   *)
Signs(text) == {i \in DOMAIN text : Offset(text, i) >= 19 /\ text[i].kind \in {"+", "-"}}
ZoneAt(text, off, sign) ==
  LET whole  == off + 5 <= Bytes(text) /\ Boundary(text, off + 3) /\ Boundary(text, off + 5)
      minute == IF whole THEN NumberOr0(text, off + 3, off + 5) ELSE NumberOr0(text, off + 2, off + 4)
      ahead  == NumberOr0(text, off, off + 2) * Hour + minute * 60
  IN  IF off + 2 > Bytes(text) THEN 0 ELSE IF sign = "+" THEN ahead ELSE 0 - ahead
Zone(text) ==
  IF Signs(text) # {} THEN ZoneAt(text, Offset(text, Min(Signs(text))) + 1, text[Min(Signs(text))].kind)
  ELSE IF \E i \in DOMAIN text : Offset(text, i) >= 19 /\ text[i].kind = "Z" THEN 0 ELSE Algiers

(* The offset is sliced without a look at where its characters end.        *)
SlicePanics(text, end) == end <= Bytes(text) /\ ~Boundary(text, end)
ZonePanics(text) == Signs(text) # {} /\ SlicePanics(text, Offset(text, Min(Signs(text))) + 3)

Seconds(time) == time[1] * Hour + time[2] * 60 + time[3]

(* So is the time, once there is a blank after the date and enough text.   *)
Timed(text) == Bytes(text) >= 19 /\ CharAt(text, 10, {"T", "blank"})
IsoTime(text, date, time) ==
  CASE Timed(text) /\ \E n \in {11, 13, 14, 16, 17, 19} : ~Boundary(text, n) -> Panics
    [] Timed(text) /\ NoNumber \notin ToSet(time) /\ ZonePanics(text) -> Panics
    [] Timed(text) /\ NoNumber \notin ToSet(time) /\ ~ZonePanics(text) ->
         Read(date + Seconds(time) - Zone(text), "second")
    [] OTHER -> Read(date, "day")

IsoDate(text, year, month, day) ==
  IF /\ Bytes(text) >= 10 /\ year # NoNumber /\ IsDay(month, day)
     /\ CharAt(text, 4, {"-"}) /\ CharAt(text, 7, {"-"})
  THEN IsoTime(text, DaysFromCivil(year, month, day) * Day,
               <<NumberAt(text, 11, 13), NumberAt(text, 14, 16), NumberAt(text, 17, 19)>>)
  ELSE NoDate
Iso(text) == IsoDate(text, NumberAt(text, 0, 4), NumberAt(text, 5, 7), NumberAt(text, 8, 10))

-----------------------------------------------------------------------------
(* The other forms. *)

Values(text, kind) ==
  LET tokens == SelectSeq(text, LAMBDA t : t.kind = kind)
  IN  [i \in DOMAIN tokens |-> tokens[i].value]

(* parse_relative: a day by its name, or so many of the shortest unit named. *)
Relative(text, now) ==
  LET named   == Values(text, "named")
      units   == ToSet(Values(text, "unit"))
      numbers == Values(text, "number")
  IN  CASE named # <<>> -> Read(now - Head(named), "day")
        [] named = <<>> /\ Values(text, "ago") # <<>> /\ numbers # <<>> /\ units # {} ->
             Read(now - Head(numbers) * Min(units), "day")
        [] OTHER -> NoDate

Years == 1995 .. 2100

FirstIn(numbers, range) == SelectInSeq(numbers, LAMBDA n : n \in range)

(* parse_named_month: the first number that may be the year, and the first  *)
(* that may be the day, or the first of the month.                         *)
NamedMonth(text) ==
  LET months  == Values(text, "month")
      numbers == Values(text, "number")
      year    == FirstIn(numbers, Years)
      day     == FirstIn(numbers, 1 .. 31)
  IN  CASE months = <<>> \/ year = 0 -> NoDate
        [] months # <<>> /\ year # 0 /\ day = 0 ->
             Read(DaysFromCivil(numbers[year], Head(months), 1) * Day, "month")
        [] OTHER -> Read(DaysFromCivil(numbers[year], Head(months), numbers[day]) * Day, "day")

(* The month is first only where the second cannot be one. *)
MonthFirst(a, b) == a <= 12 /\ b > 12

(* parse_numeric. *)
DayOf(date) ==
  IF date[1] \in Years /\ IsDay(date[2], date[3]) THEN Read(DaysFromCivil(date[1], date[2], date[3]) * Day, "day") ELSE NoDate
NumericFrom(tokens, n) ==
  CASE Len(tokens) < 3 -> NoDate
    [] Len(tokens) >= 3 /\ tokens[1].bytes = 4 -> DayOf(<<n[1], n[2], n[3]>>)
    [] OTHER -> DayOf(IF MonthFirst(n[1], n[2]) THEN <<n[3], n[1], n[2]>> ELSE <<n[3], n[2], n[1]>>)
Numeric(text) == NumericFrom(SelectSeq(text, LAMBDA t : t.kind = "number"), Values(text, "number"))

Oldest == 788918400

Plausible(unix, now) == unix > Oldest /\ unix < now + Day

(* parse: the first form the text has, and nothing if that is not plausible. *)
FirstForm(forms, now) ==
  LET i == SelectInSeq(forms, LAMBDA d : d # NoDate)
  IN  IF i # 0 /\ (forms[i] = Panics \/ Plausible(forms[i].unix, now)) THEN forms[i] ELSE NoDate
Parse(text, now) == FirstForm(<<Iso(text), Relative(text, now), NamedMonth(text), Numeric(text)>>, now)

(* scan_for_date: four words at a time, the first in which a date is read. *)
Together(words) ==
  FlattenSeq([k \in DOMAIN words |-> IF k = 1 THEN words[k]
                                     ELSE <<[kind |-> "blank", value |-> 0, bytes |-> 1, wide |-> 1]>> \o words[k]])
FirstDate(dates) ==
  LET i == SelectInSeq(dates, LAMBDA d : d # NoDate) IN IF i = 0 THEN NoDate ELSE dates[i]
Scanned(words, now) ==
  FirstDate([i \in 1 .. Len(words) - 3 |-> Parse(Together(SubSeq(words, i, i + 3)), now)])

-----------------------------------------------------------------------------
(* Sitemaps: their events are the start and the end of elements and what is *)
(* written in them.  Names have lost their prefix, so that an image's loc   *)
(* is a loc.                                                               *)

(* parse_w3c_date: the offset is not looked at. *)
W3cTime(text, midnight, time) ==
  IF NoNumber \notin ToSet(time) /\ \A n \in {13, 16} : CharAt(text, n, {":"})
  THEN Read(midnight + Seconds(time), "second") ELSE Read(midnight, "day")
W3cDate(text, date) ==
  IF date[1] # NoNumber /\ IsDay(date[2], date[3]) /\ \A n \in {4, 7} : CharAt(text, n, {"-"})
  THEN W3cTime(text, DaysFromCivil(date[1], date[2], date[3]) * Day,
               <<NumberAt(text, 11, 13), NumberAt(text, 14, 16), NumberAt(text, 17, 19)>>)
  ELSE NoDate
W3c(text) == W3cDate(text, <<NumberAt(text, 0, 4), NumberAt(text, 5, 7), NumberAt(text, 8, 10)>>)

NoEntry == [loc |-> "none", lastmod |-> NoDate]

(* Faulty: a lastmod waits for the next address. *)
EntryKept(entry) == [entry EXCEPT !.loc = "none"]
EntryDone(entry) == NoEntry

(* extract_entries: an entry ends with its url element. *)
Entries(events, max) ==
  LET Do(s, e) ==
        CASE Len(s.out) < max /\ e.event = "start" -> [s EXCEPT !.field = e.name]
          [] Len(s.out) < max /\ e.event = "text" ->
               [s EXCEPT !.entry.loc = IF s.field = "loc" /\ e.http THEN e.url ELSE @,
                         !.entry.lastmod = IF s.field = "lastmod" THEN W3c(e.date) ELSE @]
          [] Len(s.out) < max /\ e.event = "end" ->
               [field |-> "none",
                out   |-> IF e.name = "url" /\ s.entry.loc # "none" THEN Append(s.out, s.entry) ELSE s.out,
                entry |-> IF e.name = "url" THEN EntryDone(s.entry) ELSE s.entry]
          [] OTHER -> s
  IN  FoldLeft(Do, [field |-> "none", out |-> <<>>, entry |-> NoEntry], events).out

(* extract_urls: addresses in loc, link and guid elements and in the href   *)
(* of a link, once each.                                                   *)
Urls(events, max) ==
  LET Push(out, e) == IF Len(out) >= max \/ ~e.http \/ e.url \in ToSet(out) THEN out ELSE Append(out, e.url)
      Do(s, e) ==
        CASE e.event = "start" -> [capture |-> e.name \in {"loc", "link", "guid"},
                                   out |-> IF e.name = "link" THEN Push(s.out, e) ELSE s.out]
          [] e.event \in {"text", "cdata"} -> [s EXCEPT !.out = IF s.capture THEN Push(@, e) ELSE @]
          [] OTHER -> [s EXCEPT !.capture = FALSE]
  IN  FoldLeft(Do, [capture |-> FALSE, out |-> <<>>], events).out
=============================================================================
