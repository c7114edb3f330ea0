------------------------------- MODULE Select -------------------------------
(***************************************************************************)
(* do_select of select.c as far as it visits rows: the tables of FROM are  *)
(* copied into arrays, a pointer per array steps through every combination *)
(* of their rows, WHERE judges it and the columns asked for are kept in    *)
(* recs.  What becomes of the rows is in Answer.                           *)
(*                                                                         *)
(* A statement is what the parser hands on: its columns (or all of them),  *)
(* the tables of FROM with their aliases, the condition, at most one       *)
(* subquery, which an IN of the condition reads, GROUP BY, ORDER BY and    *)
(* LIMIT.  Two columns of each table are kept; RECORD_COLUMNS is scaled    *)
(* with them.  An action that no longer has a defined effect, or none but  *)
(* the end of the process, leads to "crashed".                             *)
(***************************************************************************)
EXTENDS Expr, SequencesExt, FiniteSetsExt

CONSTANTS
  Databases,           \* contents the lists and row counters may have
  Queries,             \* statements the clients may send
  Exprs,               \* the expressions of these, with all their parts
  Parts,               \* of each of these: itself, and what its value is made of
  RECORD_COLUMNS,      \* 30 in the code: cells of a Record
  RECS_INITIAL_LENGTH, \* 128 in the code: records before the array is grown
  INT_MAX

ASSUME LengthAssumption == RECORD_COLUMNS \in Nat /\ RECS_INITIAL_LENGTH \in Nat \ {0}

VARIABLES
  db,        \* the rows linked under head, nested, and icnt
  q,         \* the statement under way, or the last one
  pc,        \* where exec_single is
  arr,       \* rec.arr: the rows of each table of FROM
  pos,       \* rec.ptr, as the number of the row it points to in its array
  sub,       \* select->recs of the subquery, once it has run
  recs,      \* the records kept so far
  limit,     \* the window of the answer
  ocol_cnt,  \* ORDER BY columns, those of earlier statements included
  reply      \* what json_buffer holds

selectVars == <<db, q, pc, arr, pos, sub, recs, limit, ocol_cnt, reply>>

Tables == {"CAR_TYPE", "CAR_INFO", "RENT_ORDER"}

catalog ==
  [CAR_TYPE   |-> <<[name |-> "code", blank |-> String(<<>>)],
                    [name |-> "quantity", blank |-> IntNum(0)]>>,
   CAR_INFO   |-> <<[name |-> "cid", blank |-> IntNum(0)],
                    [name |-> "code", blank |-> String(<<>>)]>>,
   RENT_ORDER |-> <<[name |-> "cid", blank |-> IntNum(0)],
                    [name |-> "fee", blank |-> IntNum(0)]>>]

NoLimit == [start |-> 0, count |-> INT_MAX]
NoReply == [status |-> "none", rows |-> <<>>]
NoQuery == [columns |-> <<>>, all |-> FALSE, from |-> <<>>, where |-> Truth(TRUE),
            sub |-> <<>>, group |-> <<>>, order |-> <<>>, limit |-> NoLimit]

-----------------------------------------------------------------------------
\* The arrays.

\* load_data: the rows of one table, in the order of the nested lists
Linked(d, t) ==
  LET cars == FlattenSeq([i \in 1 .. Len(d.types) |-> d.types[i].cars])
  IN  CASE t = "CAR_TYPE"   -> [i \in 1 .. Len(d.types) |-> d.types[i].row]
        [] t = "CAR_INFO"   -> [i \in 1 .. Len(cars) |-> cars[i].row]
        [] t = "RENT_ORDER" -> FlattenSeq([i \in 1 .. Len(cars) |-> cars[i].orders])

\* lists end
ASSUME DatabaseAssumption ==
  \A d \in Databases : \A t \in Tables : Len(Linked(d, t)) \in Nat

\* the status of append_record_table becomes a byte, which is never ERROR: a
\* table that does not exist is left out
From(s) == SelectSeq(s.from, LAMBDA t : t.table \in Tables)

ASSUME QueriesAssumption ==
  \A s \in Queries :
    /\ Len(From(s)) \in Nat
    /\ \A i \in 1 .. Len(From(s)) : From(s)[i].table \in Tables
    /\ \A n \in {Len(s.columns), Len(s.group), Len(s.order)} : n \in Nat
    /\ \A i \in 1 .. Len(s.columns) : s.columns[i].expr \in Exprs
    /\ \A i \in 1 .. Len(s.group) : s.group[i].sc \in BOOLEAN
    /\ \A i \in 1 .. Len(s.order) : s.order[i].sc \in BOOLEAN
    /\ s.order # <<>> => Len(s.order) > 0
    /\ s.limit.start \in Nat /\ s.limit.count \in Nat
    /\ s.sub # <<>> => s.sub[1].limit.start \in Nat /\ s.sub[1].limit.count \in Nat

\* rtb has room for one position per table: rows go to the last of them, and
\* an earlier one keeps an array without rows
load_record(d, f) ==
  [i \in 1 .. Len(f) |->
     IF \E j \in i + 1 .. Len(f) : f[j].table = f[i].table THEN <<>>
     ELSE Linked(d, f[i].table)]

\* the cells of a record, from what the pointers point to; behind an array
\* without rows is zeroed memory or what the heap has there
load_item(f, a, p) ==
  FlattenSeq([i \in 1 .. Len(f) |->
    LET c == catalog[f[i].table]
    IN [k \in 1 .. Len(c) |->
          [table |-> f[i].table, alias |-> f[i].alias, name |-> c[k].name,
           item |-> IF Len(a[i]) = 0 THEN c[k].blank ELSE a[i][p[i]][k]]]])

Width(f) == MapThenSumSet(LAMBDA i : Len(catalog[f[i].table]), 1 .. Len(f))

\* the arrays of Record are as long as there are tables, and each table gets
\* icnt rows of memory
Overflows(d, f, a) ==
  \/ Len(f) > Cardinality(Tables)
  \/ Width(f) > RECORD_COLUMNS
  \/ \E i \in 1 .. Len(f) : d.icnt[f[i].table] < Len(a[i])

-----------------------------------------------------------------------------
\* The columns of the answer; `*` is expanded up to a table nobody knows.
FromKnown(s) ==
  LET unknown == {i \in 1 .. Len(s.from) : s.from[i].table \notin Tables}
  IN IF unknown = {} THEN s.from ELSE SubSeq(s.from, 1, Min(unknown) - 1)

col_name(s) ==
  IF ~ s.all THEN [i \in 1 .. Len(s.columns) |-> s.columns[i].text]
  ELSE FlattenSeq([i \in 1 .. Len(FromKnown(s)) |->
         LET c == catalog[FromKnown(s)[i].table]
         IN [k \in 1 .. Len(c) |-> c[k].name]])

col_cnt(s) == Len(col_name(s))

ASSUME ColumnsAssumption == \A s \in Queries : col_cnt(s) \in Nat

-----------------------------------------------------------------------------
\* Expressions over a record.

\* names are looked up in all tables; no place or two places are an error
\* (names are compared without case: here they are written alike)
Cell(rec, places) ==
  IF Cardinality(places) = 1 THEN rec[CHOOSE k \in places : TRUE].item
  ELSE error_expr

Logic == {"AND", "OR", "XOR"}
is_agr_func(e) == e.type \in {"COUNT", "SUM"}

\* a signal in one operand leaves nothing to compute
After(l, r, value) == IF Trap \in {l, r} THEN Trap ELSE value

\* NOT IN, NOT LIKE
Flipped(not, e) == IF not /\ e.type = "INTNUM" THEN IntNum(1 - e.intval) ELSE e

\* the rows of the subquery have been collected, or as many as an error in
\* its condition left; each is compared with =
is_in_select(l, subrecs) ==
  IF subrecs.status = "trap" THEN Trap
  ELSE IF subrecs.rows = <<>> THEN Truth(FALSE)
  ELSE IF Len(subrecs.rows[1]) # 1 THEN error_expr
  ELSE After(l, l, Truth(\E i \in 1 .. Len(subrecs.rows) :
                           is_true(eval_compare("EQ", subrecs.rows[i][1], l))))

\* agg gives an aggregate its value: none yet, while rows are visited
eval_expr(rec, subrecs, agg) ==
  LET val[e \in Exprs] ==
    LET l == IF "l" \in DOMAIN e THEN val[e.l] ELSE Blank
        r == IF "r" \in DOMAIN e THEN val[e.r] ELSE Blank
    IN CASE e.type = "NAME" ->
              Cell(rec, {k \in 1 .. Len(rec) : rec[k].name = e.name})
         [] e.type = "TABLE_COLUMN" ->
              Cell(rec, {k \in 1 .. Len(rec) : /\ rec[k].name = e.name
                                               /\ e.table \in {rec[k].table, rec[k].alias}})
         [] e.type \in {"ADD", "SUB", "MUL"} -> After(l, r, eval_arith(e.type, l, r))
         [] e.type = "DIV"        -> After(l, r, eval_div_expr(l, r))
         [] e.type = "MOD"        -> After(l, r, eval_mod_expr(l, r))
         [] e.type = "NEG"        -> After(r, r, eval_neg_expr(r))
         [] e.type = "NOT"        -> After(r, r, eval_not_expr(r))
         [] e.type \in Logic      -> After(l, r, calc_logic(e.type, l, r))
         [] e.type \in Comparisons -> After(l, r, eval_compare(e.type, l, r))
         [] e.type = "LIKE"       -> After(l, r, Flipped(e.not, eval_like_expr(l, r)))
         [] e.type = "IN_VAL_LIST" ->
              After(l, l, Flipped(e.not,
                is_in_val_list(l, [i \in 1 .. Len(e.list) |-> val[e.list[i]]])))
         [] e.type = "IN_SELECT"  -> Flipped(e.not, is_in_select(l, subrecs))
         [] is_agr_func(e)        -> agg[e]
         [] OTHER -> e
  IN val

\* what is evaluated on the way to the value of an expression
Children(e) ==
  IF is_agr_func(e) THEN {}
  ELSE (IF "l" \in DOMAIN e THEN {e.l} ELSE {})
         \cup (IF "r" \in DOMAIN e THEN {e.r} ELSE {})
         \cup (IF e.type = "IN_VAL_LIST" THEN {e.list[i] : i \in 1 .. Len(e.list)} ELSE {})

\* expressions are finite trees
ASSUME ExprsAssumption ==
  /\ IsFiniteSet(Exprs)
  /\ \A e \in Exprs :
       /\ e.type # "TRAP"
       /\ e \in Parts[e] /\ Parts[e] \subseteq Exprs
       /\ \A c \in Children(e) : c \in Exprs /\ Parts[c] \subseteq Parts[e] \ {e}

Lazily == [e \in Exprs |-> lazy_expr]

\* the columns merge_agr will need: the argument of the first aggregate of
\* each column that has one
extract_agr ==
  [e \in Exprs |->
     LET first[x \in Exprs] ==
           IF is_agr_func(x) THEN <<x>>
           ELSE IF {"l", "r"} \subseteq DOMAIN x
           THEN (IF first[x.l] # <<>> THEN first[x.l] ELSE first[x.r])
           ELSE <<>>
     IN first[e]]

\* build_agr_col: which columns have one, and which place it gets
Aggregated(s) == {i \in 1 .. Len(s.columns) : extract_agr[s.columns[i].expr] # <<>>}

place(s, i) == Cardinality({k \in Aggregated(s) : k <= i})

vcol(s) ==
  [p \in 1 .. Cardinality(Aggregated(s)) |->
     extract_agr[s.columns[CHOOSE i \in Aggregated(s) : place(s, i) = p].expr][1]]

\* What extract_record evaluates for a statement s, in its order: the columns
\* and, for a subquery too, what GROUP BY and ORDER BY of the whole statement
\* need.  The last are copies of cells nobody looks at (the one before the
\* record, for a column the answer has not; it is taken to hold no error).
Asked(s, whole) ==
  [i \in 1 .. Len(s.columns) |-> s.columns[i].expr]
    \o (IF whole.group # <<>>
        THEN [i \in 1 .. Len(vcol(whole)) |-> vcol(whole)[i].r]
               \o [i \in 1 .. Len(whole.group) |-> whole.group[i].expr]
        ELSE <<>>)

Extras(whole, ocols) ==
  IF whole.order # <<>> THEN [i \in 1 .. ocols |-> Blank] ELSE <<>>

\* judge_cond returns the number the condition amounts to, or this one
ERROR == -1

\* extract_record: an error in a column loses the row without a word.
Extracted(s, whole, ocols, ask, rec) ==
  LET bad == {i \in 1 .. Len(ask) : ask[i].type \in {"ERROR", "TRAP"}}
      row == IF s.all THEN [k \in 1 .. Len(rec) |-> rec[k].item]
             ELSE ask \o Extras(whole, ocols)
  IN IF ~ s.all /\ bad # {}
     THEN [verdict |-> IF ask[Min(bad)] = Trap THEN "trap" ELSE "out", row |-> <<>>]
     ELSE [verdict |-> IF Len(row) > RECORD_COLUMNS THEN "trap" ELSE "row", row |-> row]

\* judge_cond, and what becomes of a record that meets the condition
Judged(cond, kept) ==
  CASE cond = Trap    -> [verdict |-> "trap", row |-> <<>>]
    [] is_error(cond) \/ cond = IntNum(ERROR) -> [verdict |-> "error", row |-> <<>>]
    [] ~ is_true(cond) -> [verdict |-> "out", row |-> <<>>]
    [] OTHER -> kept

\* One pass of the loop of do_select.
Visit(s, whole, subrecs, ocols, rec) ==
  LET Values(val, exprs) == [i \in 1 .. Len(exprs) |-> val[exprs[i]]]
      With(val) == Judged(val[s.where],
                          Extracted(s, whole, ocols, Values(val, Asked(s, whole)), rec))
  IN With(eval_expr(rec, subrecs, Lazily))

-----------------------------------------------------------------------------
\* The combinations of rows the loop comes to.  A pointer behind an array without
\* rows never arrives at the end, so those before it never move.
Digits(a) == {i \in DOMAIN a : \A j \in DOMAIN a : j >= i => Len(a[j]) # 0}

Combos(a) ==
  LET reached == [i \in DOMAIN a |-> IF i \in Digits(a) THEN 1 .. Len(a[i]) ELSE {1}]
  IN {t \in [DOMAIN a -> UNION {reached[i] : i \in DOMAIN a}] :
        \A i \in DOMAIN a : t[i] \in reached[i]}

\* the last table turns fastest
Precedes(s, t) ==
  \E i \in DOMAIN s : s[i] < t[i] /\ \A j \in 1 .. i - 1 : s[j] = t[j]

Before(S, t) == {s \in S : Precedes(s, t)}

InOrder(S) ==
  [n \in 1 .. Cardinality(S) |->
     CHOOSE t \in {s \in S : Cardinality(Before(S, s)) = n - 1} : TRUE]

\* What a whole loop of do_select collects from the passes over all
\* combinations: the rows up to the first error, and how it ends.
Ended(d, f, a, visit) ==
  LET stops == {t \in DOMAIN visit : visit[t].verdict \in {"error", "trap"}}
      first == {t \in stops : Before(stops, t) = {}}
      kept  == {t \in DOMAIN visit : /\ visit[t].verdict = "row"
                                  /\ Before(stops, t) = {}}
      order == InOrder(kept)
  IN [status |->
        IF Overflows(d, f, a) \/ Cardinality(kept) >= RECS_INITIAL_LENGTH THEN "trap"
        ELSE IF stops # {} THEN visit[CHOOSE t \in first : TRUE].verdict
        ELSE IF Digits(a) # DOMAIN a THEN "trap"
        ELSE "done",
      rows |-> [n \in DOMAIN order |-> visit[order[n]].row]]

Run(d, s, whole, subrecs, ocols) ==
  LET Loop(f, a) ==
        Ended(d, f, a, [t \in Combos(a) |->
                          Visit(s, whole, subrecs, ocols, load_item(f, a, t))])
  IN Loop(From(s), load_record(d, From(s)))

\* is_in_select runs the subquery the first time it is asked and drops its
\* status
NoRows == [status |-> "none", rows |-> <<>>]

SubRun(d, s, ocols) ==
  IF s.sub = <<>> THEN NoRows ELSE Run(d, s.sub[1], s, NoRows, ocols)

-----------------------------------------------------------------------------
SelectInit ==
  /\ db \in Databases
  /\ q = NoQuery /\ pc = "idle" /\ arr = <<>> /\ pos = <<>> /\ sub = NoRows
  /\ recs = <<>> /\ limit = NoLimit /\ ocol_cnt = 0 /\ reply = NoReply

\* Statements that change the data are executed between two queries.
Write ==
  /\ pc = "idle"
  /\ db' \in Databases
  /\ q' = NoQuery /\ arr' = <<>> /\ pos' = <<>> /\ sub' = NoRows /\ recs' = <<>>
  /\ limit' = NoLimit /\ reply' = NoReply
  /\ UNCHANGED <<pc, ocol_cnt>>

\* query_initialize, the arrays and columns of do_select.  Building the list
\* of aggregates walks as many nodes as there are columns, and `*` is one.
Begin(s) ==
  /\ pc = "idle"
  /\ q' = s
  /\ sub' = NoRows /\ recs' = <<>> /\ limit' = s.limit /\ reply' = NoReply
  /\ arr' = load_record(db, From(s))
  /\ pos' = [i \in 1 .. Len(From(s)) |-> 1]
  /\ ocol_cnt' = ocol_cnt + Len(s.order)
  /\ pc' = IF \/ Overflows(db, From(s), load_record(db, From(s)))
              \/ s.group # <<>> /\ s.all /\ col_cnt(s) > 1
              \/ ocol_cnt + Len(s.order) > RECORD_COLUMNS
           THEN "crashed" ELSE "scan"
  /\ UNCHANGED db

\* get_next_record: the last pointer that is not at the end of its array moves
\* on and those behind it start again
HasMoreShort(a, p)   == {i \in DOMAIN a : p[i] < Len(a[i]) - 1 \/ Len(a[i]) = 0}
HasMoreLoosely(a, p) == {i \in DOMAIN a : p[i] <= Len(a[i]) \/ Len(a[i]) = 0}
HasMore(a, p)        == {i \in DOMAIN a : p[i] < Len(a[i]) \/ Len(a[i]) = 0}

MovedAlone(p, i) == [p EXCEPT ![i] = @ + 1]
Moved(p, i)      == [k \in DOMAIN p |-> IF k < i THEN p[k]
                                       ELSE IF k = i THEN p[k] + 1 ELSE 1]

\* one that resets all pointers before it finds that none of them can move on
get_next_record_reset ==
  LET more == HasMore(arr, pos)
  IN \/ more = {} /\ pos' = [i \in DOMAIN pos |-> 1] /\ UNCHANGED pc
     \/ \E i \in more : /\ \A j \in more : j <= i
                       /\ pos' = Moved(pos, i)
                       /\ UNCHANGED pc

get_next_record ==
  LET more == HasMore(arr, pos)
  IN \/ more = {} /\ pc' = "scanned" /\ UNCHANGED pos
     \/ \E i \in more :
          /\ \A j \in more : j <= i
          /\ IF Len(arr[i]) = 0 THEN pc' = "crashed" /\ UNCHANGED pos
             ELSE pos' = Moved(pos, i) /\ UNCHANGED pc

\* size <<= 1 comes with a realloc of the wrong pointer
FullEarly(n) == n + 2 >= RECS_INITIAL_LENGTH
Full(n)      == n + 1 >= RECS_INITIAL_LENGTH

\* what one pass leaves: the row, the next record, or the end of the loop
Pass(visit) ==
  LET keeps == visit.verdict = "row"
  IN \/ /\ visit.verdict = "trap" \/ (keeps /\ Full(Len(recs)))
        /\ pc' = "crashed"
        /\ UNCHANGED <<pos, recs, reply>>
     \/ /\ visit.verdict = "error"
        /\ pc' = "idle"
        /\ reply' = [status |-> "error", rows |-> <<>>]
        /\ UNCHANGED <<pos, recs>>
     \/ /\ visit.verdict = "out" \/ (keeps /\ ~ Full(Len(recs)))
        /\ recs' = IF keeps THEN Append(recs, [item |-> visit.row, next |-> 0]) ELSE recs
        /\ get_next_record
        /\ UNCHANGED reply

\* one pass of the loop of do_select; the subquery runs in the first one
Scan ==
  /\ pc = "scan"
  /\ limit' = IF q.sub # <<>> /\ q.sub[1].limit # NoLimit THEN q.sub[1].limit ELSE limit
  /\ sub' = IF sub = NoRows THEN SubRun(db, q, ocol_cnt) ELSE sub
  /\ Pass(Visit(q, q, sub', ocol_cnt, load_item(From(q), arr, pos)))
  /\ UNCHANGED <<db, q, arr, ocol_cnt>>

\* The operator starts the server again.
Restart ==
  /\ pc = "crashed"
  /\ pc' = "idle" /\ q' = NoQuery /\ arr' = <<>> /\ pos' = <<>> /\ sub' = NoRows /\ recs' = <<>>
  /\ limit' = NoLimit /\ ocol_cnt' = 0 /\ reply' = NoReply
  /\ UNCHANGED db

=============================================================================
