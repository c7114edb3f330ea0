------------------------------- MODULE MCEval -------------------------------
(* Patterns of up to three atoms, a letter or the dot; texts of up to four *)
(* letters, one of them in no pattern; four is small enough for numbers to *)
(* round to the float of another.                                          *)
EXTENDS Eval

LetterAtoms == [c : {97, Dot}, star : BOOLEAN]
SomePatterns == [from : BOOLEAN, to : BOOLEAN,
                 atoms : UNION {[1 .. n -> LetterAtoms] : n \in 0 .. 3}]
SomeTexts == UNION {[1 .. n -> {97, 98}] : n \in 0 .. 4}

Numbers   == {IntNum(n) : n \in {-9, -7, -4, 0} \cup 3 .. 9}
               \cup {Approx(n) : n \in {-8, 0, 3, 8}}
Words     == {String(s) : s \in UNION {[1 .. n -> {65, 97, 98}] : n \in 0 .. 2}}
Dates     == {DateTime(s) : s \in {<<>>, <<1>>} \cup ({1, 2} \X {1, 2})
                                    \cup ({1, 2} \X {1, 2} \X {0, 23})}
SomeFamilies == {Numbers, Words, Dates}
=============================================================================
