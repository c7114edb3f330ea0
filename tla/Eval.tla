-------------------------------- MODULE Eval --------------------------------
(***************************************************************************)
(* The evaluator of Expr asked one question at a time, every answer beside *)
(* what it should be.                                                      *)
(*                                                                         *)
(* A pattern is asked for as what it means: where it has to start and end, *)
(* and its atoms, each a character with or without a star.  Written out it *)
(* becomes the text regex.c reads.                                         *)
(***************************************************************************)
EXTENDS Expr, FiniteSets

CONSTANTS
  Patterns,     \* [from, to: whether ^ and $ are there, atoms: <<[c, star]>>]
  Texts,        \* texts the patterns are tried on
  Families      \* sets of values that are compared with each other

\* the whole numbers Rounded is said for; an int is far inside them
Largest == 16777216 * Mantissa - 1
Wholes  == -Largest .. Largest

\* The values that meet in one comparison are those of one column: numbers,
\* texts, or dates no further apart than Rounded can tell.
OfNumbers(F) == F \subseteq [type : {"INTNUM"}, intval : Wholes]
                            \cup [type : {"APPROXNUM"}, floatval : Int]
OfTexts(F)   == F \subseteq [type : {"STRING"}, strval : Seq(Int)]
OfDates(F)   ==
  /\ F \subseteq [type : {"DATETIME"}, strval : Seq(Int)]
  /\ \A x, y \in F :
       (make_datetime(y.strval) - make_datetime(x.strval)) * Unit.SECOND \in Wholes

\* what an atom stands for is a character that means itself, or the dot
ASSUME PatternsAssumption ==
  /\ Patterns \subseteq [from : BOOLEAN, to : BOOLEAN,
                         atoms : Seq([c : Int \ {Star, Caret, Dollar}, star : BOOLEAN])]
  /\ Texts \subseteq Seq(Int)

ASSUME FamiliesAssumption ==
  \A F \in Families : OfNumbers(F) \/ OfTexts(F) \/ OfDates(F)

VARIABLES asked, answer

evalVars == <<asked, answer>>

Nobody == [kind |-> "none"]

EvalInit == asked = Nobody /\ answer = [kind |-> "none"]

\* where in the text of the atoms the i-th begins
Place(p, i) == i + Cardinality({j \in 1 .. i - 1 : p.atoms[j].star})

\* the pattern as the statement has it
Atoms(p) ==
  [k \in 1 .. Place(p, Len(p.atoms) + 1) - 1 |->
     LET begun == {i \in 1 .. Len(p.atoms) : Place(p, i) = k}
     IN IF begun = {} THEN Star ELSE p.atoms[CHOOSE i \in begun : TRUE].c]

Written(p) == (IF p.from THEN <<Caret>> ELSE <<>>) \o Atoms(p)
                \o (IF p.to THEN <<Dollar>> ELSE <<>>)

AskLike == \E p \in Patterns, t \in Texts :
  /\ asked = Nobody
  /\ asked' = [kind |-> "like", pattern |-> p, text |-> t]
  /\ answer' = [kind |-> "like",
                found |-> eval_like_expr(String(t), String(Written(p)))]

AskCompare == \E F \in Families : \E x, y, z \in F :
  /\ asked = Nobody
  /\ asked' = [kind |-> "compare", values |-> <<x, y, z>>]
  /\ answer' = [kind |-> "compare",
                is   |-> [op \in Comparisons |->
                            [ij \in (1 .. 3) \X (1 .. 3) |->
                               is_true(eval_compare(op, <<x, y, z>>[ij[1]],
                                                        <<x, y, z>>[ij[2]]))]],
                in   |-> is_true(is_in_val_list(x, <<y, z>>)),
                diff |-> eval_timestampdiff("SECOND", x, y)]

Done == asked # Nobody /\ asked' = Nobody /\ answer' = [kind |-> "none"]

EvalNext == AskLike \/ AskCompare \/ Done

EvalSpec == EvalInit /\ [][EvalNext]_evalVars

-----------------------------------------------------------------------------
\* LIKE finds a pattern exactly when the text can be cut into one piece for
\* each atom: one character it matches, or with a star any number of them,
\* the first piece at the start of the text when ^ asks for it and the last
\* at its end when $ does.  These are the patterns regex.c reads; the wildcards
\* % and _ of doc/csql.md:149-156 are ordinary characters to it.
Denotes(p, t) ==
  LET n == Len(p.atoms)
  IN \E cut \in [0 .. n -> 0 .. Len(t)] :
       /\ p.from => cut[0] = 0
       /\ p.to => cut[n] = Len(t)
       /\ \A i \in 1 .. n :
            /\ cut[i - 1] <= cut[i]
            /\ ~ p.atoms[i].star => cut[i] = cut[i - 1] + 1
            /\ \A x \in cut[i - 1] + 1 .. cut[i] : Matches(p.atoms[i].c, t[x])

LikeExact ==
  asked.kind = "like" =>
    is_true(answer.found) = Denotes(asked.pattern, asked.text)

\* The comparisons of the values of one column are those of a total preorder,
\* which the qsort of the results relies on, although two whole numbers may
\* round to one float: exactly one of <, = and > holds, the others follow, <=
\* is transitive and never contradicts the numbers themselves.  A value that
\* IN finds in a list of numbers or dates equals one of them, and the sign of
\* TIMESTAMPDIFF is the order of its two dates.
CompareSound ==
  asked.kind = "compare" =>
    LET v == asked.values
        is(op, i, j) == answer.is[op][<<i, j>>]
    IN /\ \A i, j \in 1 .. 3 :
            /\ is("EQ", i, j) \/ is("LT", i, j) \/ is("GT", i, j)
            /\ ~ (is("LT", i, j) /\ (is("EQ", i, j) \/ is("GT", i, j)))
            /\ is("NE", i, j) = ~ is("EQ", i, j)
            /\ is("LE", i, j) = ~ is("GT", i, j)
            /\ is("GE", i, j) = ~ is("LT", i, j)
            /\ is("GT", i, j) = is("LT", j, i)
       /\ is("LE", 1, 2) /\ is("LE", 2, 3) => is("LE", 1, 3)
       /\ v[1].type = "INTNUM" /\ v[2].type = "INTNUM" =>
            /\ v[1].intval <= v[2].intval => is("LE", 1, 2)
            /\ (\A i \in 1 .. 2 : Abs(v[i].intval) <= Mantissa) =>
                 is("EQ", 1, 2) = (v[1].intval = v[2].intval)
       /\ answer.in /\ v[1].type # "STRING" => is("EQ", 1, 2) \/ is("EQ", 1, 3)
       /\ v[1].type = "DATETIME" =>
            /\ answer.diff.floatval > 0 <=> is("LT", 1, 2)
            /\ answer.diff.floatval = 0 <=> is("EQ", 1, 2)

=============================================================================
