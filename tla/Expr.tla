-------------------------------- MODULE Expr --------------------------------
(***************************************************************************)
(* Expressions of CSQL: the values, operators and conversions of select.c  *)
(* and the LIKE patterns of regex.c.                                       *)
(*                                                                         *)
(* A value is a record with the field the code reads for its type: intval, *)
(* floatval or strval.  A text is the sequence of its character codes, a   *)
(* date and time the sequence of the fields written, month first; both are *)
(* ordered by strcmp the way the sequences are.  A float is kept when it   *)
(* is a whole number, and rounding a whole number to the nearest float is  *)
(* modelled by what it does.                                               *)
(***************************************************************************)
EXTENDS Integers, Sequences

CONSTANTS
  Mantissa,     \* 2^24 in the code: whole numbers below it are floats
  MonthDays     \* days of a month: one length is enough to tell dates apart

\* a power of two in the code; that it is even is what rounding relies on
ASSUME MantissaAssumption == Mantissa \in Nat \ {0} /\ Mantissa % 2 = 0
ASSUME CalendarAssumption == MonthDays \in Nat \ {0}

IntNum(n)   == [type |-> "INTNUM", intval |-> n]
Approx(n)   == [type |-> "APPROXNUM", floatval |-> n]
String(s)   == [type |-> "STRING", strval |-> s]
DateTime(s) == [type |-> "DATETIME", strval |-> s]
error_expr  == [type |-> "ERROR"]
lazy_expr   == [type |-> "LAZY"]

\* the node calloc gave, when an operator leaves it as it was (it is compared
\* with nothing here: the order of its type is an enum of the parser)
Blank == [type |-> "NONE", intval |-> 0]

\* division by zero raises SIGFPE: no value, the process is gone
Trap == [type |-> "TRAP"]

Truth(b) == IntNum(IF b THEN 1 ELSE 0)
is_true(e)  == e.type = "INTNUM" /\ e.intval = 1
is_error(e) == e.type = "ERROR"
IsNumber(e) == e.type \in {"INTNUM", "APPROXNUM"}
IsText(e)   == e.type \in {"STRING", "DATETIME"}

-----------------------------------------------------------------------------
\* Numbers.
Abs(n) == IF n < 0 THEN -n ELSE n

\* the distances of floats that are whole numbers, up to 2^24
Spacings == {2, 4, 8, 16, 32, 64, 128, 256, 512, 1024, 2048, 4096, 8192, 16384,
             32768, 65536, 131072, 262144, 524288, 1048576, 2097152, 4194304,
             8388608, 16777216}

\* the distance of the floats around a whole number
Quantum(n) ==
  IF Abs(n) < Mantissa THEN 1
  ELSE CHOOSE q \in Spacings :
         Abs(n) < q * Mantissa /\ (q \div 2) * Mantissa <= Abs(n)

\* to the nearest float, to the even one of two
Nearest(m, q) ==
  LET low == (m \div q) * q
      up  == 2 * (m - low) > q \/ (2 * (m - low) = q /\ (m \div q) % 2 = 1)
  IN  IF up THEN low + q ELSE low

Rounded(n) == IF n < 0 THEN -Nearest(-n, Quantum(n)) ELSE Nearest(n, Quantum(n))

\* get_number has the type float whichever branch it takes
get_number(e) == IF e.type = "INTNUM" THEN Rounded(e.intval) ELSE e.floatval

\* C divides towards zero
Quotient(a, b) == IF (a < 0) = (b < 0) THEN Abs(a) \div Abs(b)
                  ELSE -(Abs(a) \div Abs(b))

arith(op, a, b) ==
  CASE op = "ADD" -> a + b [] op = "SUB" -> a - b [] op = "MUL" -> a * b

eval_arith(op, l, r) ==
  IF lazy_expr \in {l, r} THEN lazy_expr
  ELSE IF ~ (IsNumber(l) /\ IsNumber(r)) THEN Blank
  ELSE IF "APPROXNUM" \in {l.type, r.type}
       THEN Approx(Rounded(arith(op, get_number(l), get_number(r))))
  ELSE IntNum(arith(op, l.intval, r.intval))

\* for whole numbers; what dividing floats gives is no whole number
eval_div_expr(l, r) ==
  IF lazy_expr \in {l, r} THEN lazy_expr
  ELSE IF ~ (IsNumber(l) /\ IsNumber(r)) THEN Blank
  ELSE IF r.intval = 0 THEN Trap
  ELSE IntNum(Quotient(l.intval, r.intval))

eval_mod_expr(l, r) ==
  IF l.type # "INTNUM" \/ r.type # "INTNUM" THEN error_expr
  ELSE IF r.intval = 0 THEN Trap
  ELSE IntNum(l.intval - r.intval * Quotient(l.intval, r.intval))

eval_neg_expr(r) == IF r.type = "INTNUM" THEN IntNum(-r.intval) ELSE error_expr
eval_not_expr(r) == IF r.type = "INTNUM" THEN Truth(r.intval = 0) ELSE error_expr

calc_logic(op, l, r) ==
  IF l.type # "INTNUM" \/ r.type # "INTNUM" THEN error_expr
  ELSE LET x == l.intval # 0  y == r.intval # 0
       IN Truth(CASE op = "AND" -> x /\ y [] op = "OR" -> x \/ y
                  [] op = "XOR" -> x # y)

-----------------------------------------------------------------------------
\* Texts.
strcmp_lt(s, t) ==
  \E i \in 1 .. Len(t) :
    /\ i <= Len(s) + 1
    /\ \A j \in 1 .. i - 1 : s[j] = t[j]
    /\ i = Len(s) + 1 \/ s[i] < t[i]

\* A .. Z are 65 .. 90, a .. z are 97 .. 122
Folded(s) == [i \in 1 .. Len(s) |-> IF s[i] \in 65 .. 90 THEN s[i] + 32 ELSE s[i]]

\* strptime stops at the first field that is missing and leaves the rest of
\* the zeroed struct tm: day 0 of a month is the last day of the one before,
\* and mktime accepts it
make_datetime(s) ==
  LET month  == IF Len(s) >= 1 THEN s[1] - 1 ELSE 0
      day    == IF Len(s) >= 2 THEN s[2] ELSE 0
      hour   == IF Len(s) >= 3 THEN s[3] ELSE 0
  IN  (month * MonthDays + day) * 24 + hour

Comparisons == {"EQ", "NE", "LT", "GT", "LE", "GE"}

\* the macro instantiated with <= in the place of <
compareLoosely(op, below, same) ==
  CASE op = "EQ" -> same         [] op = "NE" -> ~ same
    [] op \in {"LT", "LE"} -> below \/ same
    [] op = "GT" -> ~ below /\ ~ same [] op = "GE" -> ~ below

\* what the six comparisons compare: two numbers, or a text's place
compare(op, below, same) ==
  CASE op = "EQ" -> same         [] op = "NE" -> ~ same
    [] op = "LT" -> below        [] op = "GT" -> ~ below /\ ~ same
    [] op = "LE" -> below \/ same [] op = "GE" -> ~ below

below(l, r) ==
  IF IsNumber(l) THEN get_number(l) < get_number(r)
  ELSE IF l.type = "STRING" /\ r.type = "STRING" THEN strcmp_lt(l.strval, r.strval)
  ELSE make_datetime(l.strval) < make_datetime(r.strval)

same(l, r) ==
  IF IsNumber(l) THEN get_number(l) = get_number(r)
  ELSE IF l.type = "STRING" /\ r.type = "STRING" THEN l.strval = r.strval
  ELSE make_datetime(l.strval) = make_datetime(r.strval)

eval_compare(op, l, r) ==
  IF lazy_expr \in {l, r} THEN lazy_expr
  ELSE IF (IsNumber(l) /\ IsNumber(r)) \/ (IsText(l) /\ IsText(r))
       THEN Truth(compare(op, below(l, r), same(l, r)))
  ELSE Blank

\* IN (v1, v2, ...): types must be equal and numbers are compared as they are
Listed(l, v) ==
  /\ l.type = v.type
  /\ CASE l.type = "INTNUM"    -> l.intval = v.intval
       [] l.type = "APPROXNUM" -> l.floatval = v.floatval
       [] l.type = "STRING"    -> Folded(l.strval) = Folded(v.strval)
       [] l.type = "DATETIME"  -> make_datetime(l.strval) = make_datetime(v.strval)
       [] OTHER -> FALSE

\* the list is evaluated from left to right, and only up to the value found
is_in_val_list(l, list) ==
  IF is_error(l) THEN error_expr
  ELSE LET stops == {i \in 1 .. Len(list) :
                       list[i].type \in {"ERROR", "TRAP"} \/ Listed(l, list[i])}
       IN IF stops = {} THEN Truth(FALSE)
          ELSE LET first == CHOOSE i \in stops : \A j \in stops : i <= j
               IN IF Listed(l, list[first]) THEN Truth(TRUE) ELSE list[first]

\* TIMESTAMPDIFF: the difference is a float before it is divided
Unit == [SECOND |-> 3600, HOUR |-> 1]
eval_timestampdiff(unit, l, r) ==
  IF ~ IsText(l) \/ ~ IsText(r) THEN error_expr
  ELSE Approx(Rounded((make_datetime(r.strval) - make_datetime(l.strval)) * Unit[unit]))

-----------------------------------------------------------------------------
\* LIKE: match of regex.c.
Dot == 46  Star == 42  Caret == 94  Dollar == 36

Matches(c, x) == c = Dot \/ c = x

\* C* followed by the rest: as many as the text offers, none included
StarLengthsSome(c, text, j) == {k \in j + 1 .. Len(text) + 1 :
                                  \A x \in j .. k - 1 : Matches(c, text[x])}
StarLengths(c, text, j)     == {k \in j .. Len(text) + 1 :
                                  \A x \in j .. k - 1 : Matches(c, text[x])}

\* match_here[i]: where in the text the pattern from i on matches
match_here(re, text) ==
  LET here[i \in 1 .. Len(re) + 1] ==
        IF i = Len(re) + 1 THEN 1 .. Len(text) + 1
        ELSE IF i < Len(re) /\ re[i + 1] = Star
             THEN {j \in 1 .. Len(text) + 1 :
                     \E k \in StarLengths(re[i], text, j) : k \in here[i + 2]}
        ELSE IF i = Len(re) /\ re[i] = Dollar THEN {Len(text) + 1}
        ELSE {j \in 1 .. Len(text) : Matches(re[i], text[j]) /\ j + 1 \in here[i + 1]}
  IN here

match(re, text) ==
  IF re # <<>> /\ re[1] = Caret THEN 1 \in match_here(Tail(re), text)[1]
  ELSE \E j \in 1 .. Len(text) + 1 : j \in match_here(re, text)[1]

eval_like_expr(l, r) ==
  IF l.type = "STRING" /\ r.type = "STRING" THEN Truth(match(r.strval, l.strval))
  ELSE error_expr

=============================================================================
