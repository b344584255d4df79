-------------------------------- MODULE Utilities --------------------------------
(***************************************************************************)
(* The small utilities: codecs, Roman numerals, sums about money, units and *)
(* dates.  Of a query only what the utility reads is kept: its numbers,    *)
(* their marks and the words it knows.                                     *)
(***************************************************************************)
EXTENDS Calculator

CONSTANTS
  Units,   \* a dimension, how many of its base units there are in one, and its aliases, of each unit
  To       \* the words for "to"

-----------------------------------------------------------------------------
(* Codecs.  Bytes are numbers, and so are the letters of base 64: 0 to 63,  *)
(* Pad for the = and any other number for what is no letter of it.        *)

Pad == 64
Blank64 == 65
NoBytes == <<256>>

Chunks(s, n) == [i \in 1 .. (Len(s) + n - 1) \div n |-> SubSeq(s, n * (i - 1) + 1, Min({n * i, Len(s)}))]

(* b64_encode: three bytes are four letters; of what is missing, padding.   *)
EncodeChunk(c) ==
  LET Byte(i) == IF i <= Len(c) THEN c[i] ELSE 0
      n == Byte(1) * 65536 + Byte(2) * 256 + Byte(3)
  IN  [i \in 1 .. 4 |-> IF i - 1 <= Len(c) THEN (n \div 64 ^ (4 - i)) % 64 ELSE Pad]
Encode64(bytes) == FlattenSeq([i \in DOMAIN Chunks(bytes, 3) |-> EncodeChunk(Chunks(bytes, 3)[i])])

(* b64_decode: a chunk of so many letters carries one byte less.            *)
DecodeChunk(c) == [i \in 1 .. Len(c) - 1 |-> (FoldLeft(LAMBDA n, k : n + (IF k <= Len(c) THEN c[k] * 64 ^ (4 - k) ELSE 0), 0, <<1, 2, 3, 4>>)
                                       \div 256 ^ (3 - i)) % 256]
Decode64(letters) ==
  LET cleaned == SelectSeq(letters, LAMBDA l : l \notin {Pad, Blank64})
  IN  IF \E i \in DOMAIN cleaned : cleaned[i] \notin 0 .. 63 THEN NoBytes
      ELSE FlattenSeq([i \in DOMAIN Chunks(cleaned, 4) |-> DecodeChunk(Chunks(cleaned, 4)[i])])

(* url_codec: bytes that are not plain are written as "%" and two digits.   *)
Plain(byte) == byte \in (48 .. 57) \cup (65 .. 90) \cup (97 .. 122) \cup {45, 46, 95, 126}
Percent == 37
HexDigit(n) == IF n < 10 THEN 48 + n ELSE 55 + n
HexValue(byte) == CASE byte \in 48 .. 57 -> byte - 48
                    [] byte \in 65 .. 70 -> byte - 55
                    [] byte \in 97 .. 102 -> byte - 87
                    [] OTHER -> 16
UrlEncode(bytes) ==
  FlattenSeq([i \in DOMAIN bytes |-> IF Plain(bytes[i]) THEN <<bytes[i]>>
                                     ELSE <<Percent, HexDigit(bytes[i] \div 16), HexDigit(bytes[i] % 16)>>])
UrlDecode(raw) ==
  LET Do(s, i) ==
        CASE s.skip > 0 -> [s EXCEPT !.skip = @ - 1]
          [] s.skip = 0 /\ raw[i] = Percent /\ i + 2 <= Len(raw) ->
               IF 16 \in {HexValue(raw[i + 1]), HexValue(raw[i + 2])} THEN [s EXCEPT !.bad = TRUE]
               ELSE [s EXCEPT !.skip = 2, !.out = Append(@, 16 * HexValue(raw[i + 1]) + HexValue(raw[i + 2]))]
          [] OTHER -> [s EXCEPT !.out = Append(@, IF raw[i] = 43 THEN 32 ELSE raw[i])]
      s == FoldLeft(Do, [skip |-> 0, bad |-> FALSE, out |-> <<>>], [i \in DOMAIN raw |-> i])
  IN  IF s.bad THEN NoBytes ELSE s.out

-----------------------------------------------------------------------------
(* roman. *)

Pairs == <<<<1000, <<"M">>>>, <<900, <<"C", "M">>>>, <<500, <<"D">>>>, <<400, <<"C", "D">>>>, <<100, <<"C">>>>, <<90, <<"X", "C">>>>,
           <<50, <<"L">>>>, <<40, <<"X", "L">>>>, <<10, <<"X">>>>, <<9, <<"I", "X">>>>, <<5, <<"V">>>>, <<4, <<"I", "V">>>>, <<1, <<"I">>>>>>
MostRoman == 3999
ToRoman(number) ==
  LET Do(s, pair) == LET times == s.n \div pair[1]
                     IN  [n |-> s.n - times * pair[1], out |-> s.out \o FlattenSeq([k \in 1 .. times |-> pair[2]])]
  IN  IF number \notin 1 .. MostRoman THEN <<>> ELSE FoldLeft(Do, [n |-> number, out |-> <<>>], Pairs).out

RomanDigit == [I |-> 1, V |-> 5, X |-> 10, L |-> 50, C |-> 100, D |-> 500, M |-> 1000]
(* What is before a larger one is taken off, and 0 stands for no answer:    *)
(* there is nothing to take it off where that comes first.                *)
FromRoman(letters) ==
  LET Do(total, i) == LET v == RomanDigit[letters[i]]
                      IN  CASE total < 0 -> total
                            [] total >= 0 /\ i < Len(letters) /\ RomanDigit[letters[i + 1]] > v -> total - v
                            [] OTHER -> total + v
  IN  Max({0, FoldLeft(Do, 0, [i \in DOMAIN letters |-> i])})

-----------------------------------------------------------------------------
(* Sums about money.  A query's tokens are numbers, with what is attached   *)
(* to each: "%", "people" or nothing.                                     *)

Amounts(tokens) == [i \in DOMAIN tokens |-> tokens[i].value]

(* vat: the largest number is the amount; the rate is the reduced one where *)
(* a 9 is named, or a number that ends in 9 is followed by a %.            *)
Vat(tokens) ==
  LET amount  == Max(ToSet(Amounts(tokens)))
      reduced == \E t \in ToSet(tokens) : t.value = 9 \/ (t.value % 10 = 9 /\ t.mark = "%")
      rate    == Fraction(IF reduced THEN 9 ELSE 19, 100)
  IN  IF tokens = <<>> THEN Refused ELSE Plus(Whole(amount), Times(Whole(amount), rate))

(* percentage_change, from the first number to the second. *)
Change(tokens) ==
  IF Len(tokens) < 2 \/ tokens[1].value = 0 THEN Refused
  ELSE Times(Over(Whole(tokens[2].value - tokens[1].value), Whole(tokens[1].value)), Whole(100))

(* marked_number: the last number before the first mark of the kind.        *)
Marked(tokens, mark, default) ==
  LET i == SelectInSeq(tokens, LAMBDA t : t.mark = mark) IN IF i = 0 THEN default ELSE tokens[i].value

(* tip: the bill is the first number, and shared by two to fifty.           *)
Tip(tokens) ==
  LET bill   == Whole(tokens[1].value)
      people == Marked(tokens, "people", 1)
      total  == Plus(bill, Times(bill, Fraction(Marked(tokens, "%", 10), 100)))
  IN  IF tokens = <<>> \/ bill.n <= 0 THEN Refused
      ELSE Over(total, Whole(IF people \in 2 .. 50 THEN people ELSE 1))

(* loan: what the numbers are taken for; the payment is in floating point,  *)
(* and left out.                                                          *)
Loan(tokens) ==
  LET principal == Max(ToSet(Amounts(tokens)))
      rest      == SelectSeq(Amounts(tokens), LAMBDA n : n # principal)
  IN  IF Len(tokens) < 3 \/ Len(rest) < 2 \/ rest[2] <= 0 THEN [principal |-> 0, rate |-> 0, years |-> 0]
      ELSE [principal |-> principal, rate |-> rest[1], years |-> rest[2]]

-----------------------------------------------------------------------------
(* Units.  A query is its amount, Refused if it does not begin with one,    *)
(* and the words after it.                                                *)

Celsius    == "celsius"
Fahrenheit == "fahrenheit"
Kelvin     == "kelvin"

(* lookup: the unit all the words name, or else their first. *)
NoUnit == "no unit"
Lookup(words) ==
  LET Named(phrase) == {u \in DOMAIN Units : phrase \in Units[u].aliases}
  IN  CASE words = <<>> -> NoUnit
        [] words # <<>> /\ Named(words) # {} -> CHOOSE u \in Named(words) : TRUE
        [] words # <<>> /\ Named(words) = {} /\ Named(<<words[1]>>) # {} -> CHOOSE u \in Named(<<words[1]>>) : TRUE
        [] OTHER -> NoUnit

(* convert_temperature: through degrees Celsius, with offsets. *)
Zero == Fraction(27315, 100)
ToCelsius(v, from) ==
  CASE from = Celsius    -> v
    [] from = Fahrenheit -> Over(Minus(v, Whole(32)), Fraction(9, 5))
    [] from = Kelvin     -> Minus(v, Zero)
FromCelsius(v, to) ==
  CASE to = Celsius    -> v
    [] to = Fahrenheit -> Plus(Times(v, Fraction(9, 5)), Whole(32))
    [] to = Kelvin     -> Plus(v, Zero)

ByRatio(v, from, to) == Over(Times(v, Units[from].ratio), Units[to].ratio)

Convert(v, from, to) ==
  IF Units[from].dimension = "temperature" THEN FromCelsius(ToCelsius(v, from), to) ELSE ByRatio(v, from, to)

(* UnitConverter::answer: a word for "to" stands between two units of a     *)
(* dimension.                                                             *)
Converted(amount, words) ==
  LET at   == SelectInSeq(words, LAMBDA w : w \in To)
      from == Lookup(SubSeq(words, 1, at - 1))
      to   == Lookup(SubSeq(words, at + 1, Len(words)))
      fits == at # 0 /\ NoUnit \notin {from, to} /\ Units[from].dimension = Units[to].dimension
  IN  IF amount = Refused \/ ~fits THEN Refused ELSE Convert(amount, from, to)

-----------------------------------------------------------------------------
(* Dates. *)

(* valid: of any month, to the 31st. *)
Valid(y, m, d) == y \in 1000 .. 3000 /\ m \in 1 .. 12 /\ d \in 1 .. 31

(* days_from_civil. *)
DaysFromCivil(year, month, day) ==
  LET y   == IF month <= 2 THEN year - 1 ELSE year
      era == y \div 400
      yoe == y - era * 400
      doy == (153 * (IF month > 2 THEN month - 3 ELSE month + 9) + 2) \div 5 + day - 1
  IN  era * 146097 + yoe * 365 + yoe \div 4 - yoe \div 100 + doy - 719468

(* hijri_from_days: of the tabular calendar, from the Julian day. *)
Hijri(days) ==
  LET l0 == days + 2440588 - 1948440 + 10632
      n  == (l0 - 1) \div 10631
      l1 == l0 - 10631 * n + 354
      j  == ((10985 - l1) \div 5316) * ((50 * l1) \div 17719) + (l1 \div 5670) * ((43 * l1) \div 15238)
      l2 == l1 - ((30 - j) \div 15) * ((17719 * j) \div 50) - (j \div 16) * ((15238 * j) \div 43) + 29
      m  == (24 * l2) \div 709
  IN  [year |-> 30 * n + j - 30, month |-> m, day |-> l2 - (709 * m) \div 24]

(* parse_one: three numbers, the year first where the first has four        *)
(* digits, the day otherwise.                                             *)
NoDay == [y |-> 0, m |-> 0, d |-> 0]
ParseOne(parts) ==
  LET a == parts[1].value  b == parts[2].value  c == parts[3].value
      date == IF parts[1].digits = 4 THEN [y |-> a, m |-> b, d |-> c] ELSE [y |-> c, m |-> b, d |-> a]
  IN  IF Len(parts) = 3 /\ Valid(date.y, date.m, date.d) THEN date ELSE NoDay

(* between: there are two dates, and the days between them are told without *)
(* saying which comes first.                                              *)
DaysBetween(tokens) ==
  LET dates == SelectSeq([i \in DOMAIN tokens |-> ParseOne(tokens[i])], LAMBDA date : date # NoDay)
      Day(date) == DaysFromCivil(date.y, date.m, date.d)
  IN  IF Len(dates) # 2 THEN Refused ELSE Whole(Abs(Day(dates[2]) - Day(dates[1])))
=================================================================================
