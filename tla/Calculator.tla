------------------------------- MODULE Calculator -------------------------------
(***************************************************************************)
(* Arithmetic in the search box, and which of the tools answers a query.   *)
(* An expression is a sequence of characters, a function's name one of     *)
(* them.  Values are fractions, with anything over Largest refused as the  *)
(* decimals' overflow is.  The program's decimals round a quotient that    *)
(* does not end to 28 digits; a fraction does not: 2 / 3 * 3 is 2 here,    *)
(* and 2 less a little there.                                              *)
(***************************************************************************)
EXTENDS Integers, SequencesExt, FiniteSetsExt

CONSTANTS Largest, MaxDepth, MaxExponent

DigitOf == [d \in {"0", "1", "2", "3", "4", "5", "6", "7", "8", "9"} |->
              CHOOSE n \in 0 .. 9 : <<"0", "1", "2", "3", "4", "5", "6", "7", "8", "9">>[n + 1] = d]
IsDigit(c) == c \in DOMAIN DigitOf

-----------------------------------------------------------------------------
(* Decimals. *)

Refused == [n |-> 0, d |-> 0]

RECURSIVE Gcd(_, _)
Gcd(a, b) == IF b = 0 THEN a ELSE Gcd(b, a % b)

Abs(n) == IF n < 0 THEN 0 - n ELSE n

Fraction(n, d) ==
  LET g == IF n = 0 THEN Abs(d) ELSE Gcd(Abs(n), Abs(d))
      v == IF d < 0 THEN [n |-> (0 - n) \div g, d |-> (0 - d) \div g] ELSE [n |-> n \div g, d |-> d \div g]
  IN  IF d = 0 \/ Abs(v.n) > Largest \/ v.d > Largest THEN Refused ELSE v

Whole(n)  == Fraction(n, 1)
Plus(a, b)   == IF Refused \in {a, b} THEN Refused ELSE Fraction(a.n * b.d + b.n * a.d, a.d * b.d)
Times(a, b)  == IF Refused \in {a, b} THEN Refused ELSE Fraction(a.n * b.n, a.d * b.d)
Minus(a, b)  == Plus(a, Times(Whole(0 - 1), b))
Over(a, b)   == IF Refused \in {a, b} THEN Refused ELSE Fraction(a.n * b.d, a.d * b.n)

(* Whole exponents only, and none beyond MaxExponent. *)
ToThe(a, b) ==
  CASE Refused \in {a, b} \/ b.d # 1 \/ Abs(b.n) > MaxExponent -> Refused
    [] OTHER -> LET up == FoldLeft(LAMBDA v, i : Times(v, a), Whole(1), [i \in 1 .. Abs(b.n) |-> i])
                IN  IF b.n < 0 THEN Over(Whole(1), up) ELSE up

(* round is to the even one of two as near. *)
Rounded(v) ==
  LET low == v.n \div v.d
      twice == 2 * (v.n - low * v.d)
  IN  IF twice > v.d \/ (twice = v.d /\ low % 2 = 1) THEN low + 1 ELSE low

(* The functions whose values are fractions: roots and logarithms are left  *)
(* out.                                                                   *)
Applied(name, v) ==
  CASE v = Refused     -> Refused
    [] name = "abs"   -> [v EXCEPT !.n = Abs(@)]
    [] name = "floor" -> Whole(v.n \div v.d)
    [] name = "ceil"  -> Whole(0 - ((0 - v.n) \div v.d))
    [] name = "round" -> Whole(Rounded(v))
    [] OTHER          -> Refused
Names == {"abs", "floor", "ceil", "round", "word"}

-----------------------------------------------------------------------------
(* The parser.  Each operator reads from a place in the text, inside so     *)
(* many brackets, and says what it read and the place after it; the place  *)
(* is kept where it was when the text is refused.                          *)

Got(v, at) == [v |-> v, at |-> at]
Stopped == Got(Refused, 0)

Peek(text, at) == IF at \in DOMAIN text THEN text[at] ELSE "end"
SkipSpace(text, at) ==
  CHOOSE k \in at .. Len(text) + 1 : Peek(text, k) # " " /\ \A j \in at .. k - 1 : text[j] = " "

(* A number's characters: digits and points, and the commas in it that a    *)
(* digit follows, which are then left out.                                *)
NumberEnd(text, at) ==
  LET In(i) == \/ IsDigit(text[i]) \/ text[i] = "."
               \/ text[i] = "," /\ i > at /\ IsDigit(Peek(text, i + 1))
  IN  CHOOSE e \in at - 1 .. Len(text) : /\ \A i \in at .. e : In(i)
                                         /\ e < Len(text) => ~In(e + 1)

Number(text, start) ==
  LET at     == SkipSpace(text, start)
      end    == NumberEnd(text, at)
      chars  == SelectSeq(SubSeq(text, at, end), LAMBDA c : c # ",")
      digits == SelectSeq(chars, IsDigit)
      points == {i \in DOMAIN chars : chars[i] = "."}
      value  == FoldLeft(LAMBDA v, c : 10 * v + DigitOf[c], 0, digits)
      scale  == IF points = {} THEN 1 ELSE 10 ^ (Len(chars) - Max(points))
  IN  IF digits = <<>> \/ Cardinality(points) > 1 THEN Stopped ELSE Got(Fraction(value, scale), end + 1)

RECURSIVE Expression(_, _, _), Sum(_, _, _), Product(_, _, _), Power(_, _, _), RaisedLeft(_, _, _), Unary(_, _, _), Postfix(_, _)

(* A value, and a hundredth of it for each % after it. *)
Postfix(text, value) ==
  LET at == SkipSpace(text, value.at)
  IN  CASE value.v = Refused -> Stopped
        [] value.v # Refused /\ Peek(text, at) = "%" -> Postfix(text, Got(Over(value.v, Whole(100)), at + 1))
        [] OTHER -> Got(value.v, at)

(* A bracketed expression, a function of one, or a number. *)
Closed(text, name, read, depth) ==
  LET close == SkipSpace(text, read.at)
  IN  IF depth < MaxDepth /\ read.v # Refused /\ Peek(text, close) = ")"
      THEN Got(IF name = "" THEN read.v ELSE Applied(name, read.v), close + 1) ELSE Stopped

Primary(text, at, depth) ==
  LET open == SkipSpace(text, at + 1)
  IN  CASE Peek(text, at) = "(" -> Closed(text, "", Expression(text, at + 1, depth + 1), depth)
        [] Peek(text, at) \in Names /\ Peek(text, open) = "(" ->
             Closed(text, text[at], Expression(text, open + 1, depth + 1), depth)
        [] OTHER -> Number(text, at)

Negated(read) == Got(Times(Whole(0 - 1), read.v), read.at)
Unary(text, start, depth) ==
  LET at == SkipSpace(text, start)
  IN  CASE Peek(text, at) = "-" -> Negated(Unary(text, at + 1, depth))
        [] Peek(text, at) = "+" -> Unary(text, at + 1, depth)
        [] OTHER -> Postfix(text, Primary(text, at, depth))

(* unary ('^' power)?, from the right; a sign binds closer than it.         *)
RaisedTo(base, up) == Got(ToThe(base, up.v), up.at)

RaisedLeft(text, base, depth) ==
  LET op == SkipSpace(text, base.at)
  IN  CASE base.v = Refused -> Stopped
        [] base.v # Refused /\ Peek(text, op) = "^" -> RaisedLeft(text, RaisedTo(base.v, Unary(text, op + 1, depth)), depth)
        [] OTHER -> Got(base.v, op)

Raised(text, base, depth) ==
  LET op == SkipSpace(text, base.at)
  IN  CASE base.v = Refused -> Stopped
        [] base.v # Refused /\ Peek(text, op) = "^" -> RaisedTo(base.v, Power(text, op + 1, depth))
        [] OTHER -> Got(base.v, op)

(* Faulty: powers are read from the left. *)
PowerLeft(text, at, depth) == RaisedLeft(text, Unary(text, at, depth), depth)
Power(text, at, depth) == Raised(text, Unary(text, at, depth), depth)

(* power (('*' | '/') power)* *)
Multiplied(base, op, read) == Got(IF op = "*" THEN Times(base, read.v) ELSE Over(base, read.v), read.at)
Product(text, left, depth) ==
  LET at == SkipSpace(text, left.at)
  IN  CASE left.v = Refused -> Stopped
        [] left.v # Refused /\ Peek(text, at) \in {"*", "/"} ->
             Product(text, Multiplied(left.v, text[at], Power(text, at + 1, depth)), depth)
        [] OTHER -> Got(left.v, at)

Term(text, at, depth) == Product(text, Power(text, at, depth), depth)

(* percent_aware: what ends with a % is that share of what stands before.   *)
PercentAware(text, base, read, at) ==
  LET last == CHOOSE k \in at - 1 .. read.at - 1 : /\ \A j \in k + 1 .. read.at - 1 : text[j] = " "
                                                   /\ k >= at => text[k] # " "
  IN  IF read # Stopped /\ Peek(text, last) = "%" THEN Times(base, read.v) ELSE read.v

(* term (('+' | '-') term)* *)
Added(text, base, op, read, at) ==
  LET right == PercentAware(text, base, read, at)
  IN  IF read.v = Refused THEN Stopped
      ELSE Got(IF op = "+" THEN Plus(base, right) ELSE Minus(base, right), read.at)
Sum(text, left, depth) ==
  LET at == SkipSpace(text, left.at)
  IN  CASE left.v = Refused -> Stopped
        [] left.v # Refused /\ Peek(text, at) \in {"+", "-"} ->
             Sum(text, Added(text, left.v, text[at], Term(text, at + 1, depth), at + 1), depth)
        [] OTHER -> Got(left.v, at)

Expression(text, at, depth) == Sum(text, Term(text, at, depth), depth)

(* evaluate: nothing may be left. *)
ReadWhole(text, read) == IF read.v # Refused /\ SkipSpace(text, read.at) = Len(text) + 1 THEN read.v ELSE Refused
Evaluate(text) == ReadWhole(text, Expression(text, 1, 0))

(* Calculator::answer: there is an operator in it, other than a sign before *)
(* what has none.                                                         *)
Operators == {"+", "-", "*", "/", "^", "("}
Calculate(text) ==
  LET signed == text # <<>> /\ text[1] = "-" /\ ToSet(Tail(text)) \cap (Operators \cup {"%"}) = {}
  IN  IF ToSet(text) \cap Operators = {} \/ signed THEN Refused ELSE Evaluate(text)

-----------------------------------------------------------------------------
(* best_in: each tool's answer is how sure it is of it, in hundredths; none *)
(* if it has nothing to say or panics.  A query may begin with a tool's     *)
(* keyword; the surest answers otherwise, the last of those as sure.        *)
MinConfidence == 50
NoAnswer == 0
Nobody   == "nobody"

Best(tools, keyword, answers) ==
  LET sure  == {i \in DOMAIN tools : answers[tools[i]] >= MinConfidence}
      best  == {i \in sure : \A j \in sure : answers[tools[j]] <= answers[tools[i]]}
      asked == keyword \in ToSet(tools) /\ answers[keyword] # NoAnswer
  IN  CASE keyword # "" -> IF asked THEN keyword ELSE Nobody
        [] keyword = "" /\ best = {} -> Nobody
        [] OTHER -> tools[Max(best)]
=============================================================================
