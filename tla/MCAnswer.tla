------------------------------ MODULE MCAnswer ------------------------------
(* Three contents of the database: one with rows in every table, one whose *)
(* lists of cars are empty, one whose counters lag behind its lists; and a *)
(* handful of statements that between them use every clause.               *)
EXTENDS Answer

C1 == String(<<49>>)  C2 == String(<<50>>)
Order(c, f)     == <<IntNum(c), IntNum(f)>>
Car(c, k, o)    == [row |-> <<IntNum(c), k>>, orders |-> o]
Type(k, n, cs)  == [row |-> <<k, IntNum(n)>>, cars |-> cs]
Rows(a, b, c)   == [CAR_TYPE |-> a, CAR_INFO |-> b, RENT_ORDER |-> c]
Full3 == <<Type(C2, 5, <<Car(1, C2, <<Order(1, 2), Order(1, 3)>>), Car(2, C2, <<>>)>>),
           Type(C1, 5, <<Car(3, C1, <<Order(3, 2)>>)>>)>>
Contents == {[types |-> Full3, icnt |-> Rows(2, 4, 3)],
             [types |-> <<Type(C1, 0, <<>>)>>, icnt |-> Rows(1, 1, 0)],
             [types |-> Full3, icnt |-> Rows(2, 2, 3)]}

Name(n)      == [type |-> "NAME", name |-> n]
Of(t, n)     == [type |-> "TABLE_COLUMN", table |-> t, name |-> n]
Bin(op, a, b) == [type |-> op, l |-> a, r |-> b]
Agg(f, e)    == [type |-> f, r |-> e]
InSub(e, no) == [type |-> "IN_SELECT", l |-> e, not |-> no]
InList(e, s) == [type |-> "IN_VAL_LIST", l |-> e, list |-> s, not |-> TRUE]
Like(a, b)   == [type |-> "LIKE", l |-> a, r |-> b, not |-> FALSE]

code == Name("code")  cid == Name("cid")  fee == Name("fee")
none == Name("none")  quantity == Name("quantity")
ciCid == Of("CAR_INFO", "cid")  roCid == Of("RENT_ORDER", "cid")
sameCar == Bin("EQ", ciCid, roCid)
sumFee == Agg("SUM", fee)  countFee == Agg("COUNT", ciCid)
ratio  == Bin("DIV", sumFee, countFee)
sumCid == Agg("SUM", roCid)  countFees == Agg("COUNT", fee)
byNought == Bin("DIV", IntNum(6), Agg("SUM", Bin("SUB", roCid, IntNum(3))))
typeCode == Of("CAR_TYPE", "code")
five   == Bin("OR", Bin("GT", cid, IntNum(1)), Bin("EQ", typeCode, C2))
likeTwo == Like(code, C2)
aQuantity == Of("A", "quantity")
some   == Bin("OR", Bin("GE", cid, Bin("MUL", IntNum(2), IntNum(1))),
                    Bin("NE", Bin("MOD", cid, IntNum(2)), IntNum(1)))
notOne == [type |-> "NOT", r |-> Bin("EQ", cid, IntNum(1))]
zero   == Bin("DIV", IntNum(1), Bin("SUB", cid, IntNum(3)))
minus  == [type |-> "NEG", r |-> cid]
listed == InList(cid, <<IntNum(2), IntNum(3)>>)
both   == Bin("AND", InSub(cid, FALSE), likeTwo)
bad    == InList(none, <<IntNum(2)>>)
Always == Truth(TRUE)  Never == Truth(FALSE)

WithParts(S) == S \cup UNION {{e[f] : f \in DOMAIN e \cap {"l", "r"}} : e \in S}
AllExprs == WithParts(WithParts(WithParts({code, none, quantity, sameCar, sumFee, countFee, ratio,
              sumCid, countFees, byNought, five, ciCid,
              aQuantity, some, notOne, zero, minus, listed, both, bad, Always, Never,
              InSub(cid, TRUE), InSub(roCid, FALSE), IntNum(3)})))

ExprParts ==
  LET of[e \in AllExprs] == {e} \cup UNION {of[c] : c \in Children(e)} IN of

Col(e, t) == [expr |-> e, text |-> t]
From1(t)  == <<[table |-> t, alias |-> "-"]>>
By(n, sc) == [name |-> n, sc |-> sc]
Key(e, sc) == [expr |-> e, sc |-> sc]
Lim(s, n) == [start |-> s, count |-> n]
Joined    == From1("CAR_INFO") \o From1("RENT_ORDER")

Sub(c, w, l) == [columns |-> <<Col(c, "-")>>, all |-> FALSE, from |-> From1("CAR_INFO"),
                 where |-> w, limit |-> l]

S(cs, f, w) == [NoQuery EXCEPT !.columns = cs, !.all = (cs = <<>>), !.from = f, !.where = w]

cidCode == <<Col(cid, "cid"), Col(code, "code")>>
Statements ==
  { [S(<<>>, From1("CAR_TYPE"), Always) EXCEPT !.order = <<By("code", FALSE)>>],
    [S(cidCode, From1("CAR_INFO"), some) EXCEPT
        !.order = <<By("code", FALSE), By("cid", TRUE)>>, !.limit = Lim(1, 1)],
    [S(<<Col(ciCid, "car"), Col(sumFee, "sum"), Col(countFee, "n")>>, Joined, sameCar)
        EXCEPT !.group = <<Key(ciCid, TRUE)>>, !.order = <<By("sum", TRUE)>>],
    [S(<<Col(code, "code"), Col(ratio, "mean")>>, Joined, sameCar)
        EXCEPT !.group = <<Key(code, FALSE)>>],
    [S(<<Col(fee, "fee"), Col(sumCid, "sum"), Col(countFees, "n")>>, From1("RENT_ORDER"), Always)
        EXCEPT !.group = <<Key(fee, FALSE)>>, !.order = <<By("sum", FALSE)>>, !.limit = Lim(0, 1)],
    [S(<<Col(byNought, "x")>>, From1("RENT_ORDER"), Always)
        EXCEPT !.group = <<Key(roCid, FALSE)>>],
    [S(<<Col(cid, "cid")>>, From1("CAR_TYPE") \o From1("CAR_INFO"), five)
        EXCEPT !.order = <<By("cid", TRUE)>>],
    [S(cidCode, From1("CAR_INFO"), both) EXCEPT !.sub = <<Sub(cid, Always, Lim(1, 1))>>],
    [S(<<Col(cid, "cid")>>, From1("CAR_INFO"), InSub(cid, TRUE))
        EXCEPT !.sub = <<Sub(cid, bad, NoLimit)>>, !.order = <<By("cid", TRUE)>>],
    [S(<<Col(cid, "cid"), Col(sumFee, "sum")>>, From1("RENT_ORDER"), InSub(cid, FALSE))
        EXCEPT !.sub = <<Sub(cid, notOne, NoLimit)>>, !.group = <<Key(cid, FALSE)>>],
    S(<<Col(minus, "m"), Col(none, "none")>>, From1("CAR_INFO"), listed),
    S(<<Col(quantity, "q")>>, From1("CAR_TYPE") \o From1("NOWHERE"), bad),
    S(<<Col(aQuantity, "q")>>, <<[table |-> "CAR_TYPE", alias |-> "A"],
                               [table |-> "CAR_TYPE", alias |-> "B"]>>, Always),
    S(<<Col(code, "code"), Col(zero, "z")>>, From1("CAR_INFO"), Always),
    [S(<<Col(byNought, "x")>>, From1("RENT_ORDER"), Never)
        EXCEPT !.group = <<Key(roCid, FALSE)>>],
    S(<<Col(cid, "cid")>>, From1("CAR_INFO"), minus),
    [S(<<Col(cid, "cid")>>, From1("CAR_INFO"), notOne) EXCEPT !.order = <<By("plate", FALSE)>>],
    S(<<Col(IntNum(3), "three")>>, From1("CAR_TYPE") \o From1("CAR_INFO")
        \o From1("RENT_ORDER"), sameCar),
    [S(<<>>, From1("CAR_TYPE"), Always) EXCEPT !.group = <<Key(code, FALSE)>>],
    S(<<Col(ciCid, "cid")>>, Joined, Always),
    S(<<Col(countFees, "n")>>, From1("RENT_ORDER"), Always),
    S(cidCode \o <<Col(IntNum(3), "three")>>, From1("CAR_INFO"), Always) }
=============================================================================
