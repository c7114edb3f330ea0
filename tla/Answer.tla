------------------------------- MODULE Answer -------------------------------
(***************************************************************************)
(* The second half of a SELECT: do_select sorts and merges the groups of   *)
(* GROUP BY, jsonify_result of json.c walks from one group to the next,    *)
(* sorts by ORDER BY and writes the rows LIMIT leaves into json_buffer.    *)
(* Here is also the whole life of a query: the statements one server       *)
(* executes, one after the other, with what each leaves behind for the     *)
(* next.                                                                   *)
(***************************************************************************)
EXTENDS Select

CONSTANT REPLY_CELLS \* values json_buffer has room for: 65536 bytes in the code

ASSUME ReplyAssumption == REPLY_CELLS \in Nat

VARIABLES beg, end      \* the group merge_agr is at, and the record behind it

answerVars == <<beg, end>>
vars == <<db, q, pc, arr, pos, sub, recs, limit, ocol_cnt, reply, beg, end>>

-----------------------------------------------------------------------------
\* get_column_index returns ERROR, which build_odr_col keeps in a u16
Unknown == 65536

get_column_index(s, name) ==
  LET places == {i \in 1 .. col_cnt(s) : col_name(s)[i] = name}
  IN IF places = {} THEN Unknown ELSE Min(places)

-----------------------------------------------------------------------------
\* cmp_g and cmp_o: the first key that differs decides, sc turns it round.
cmp(keys, a, b) ==
  LET differ == {i \in 1 .. Len(keys) :
                   is_true(eval_compare("NE", a.item[keys[i].at], b.item[keys[i].at]))}
  IN IF differ = {} THEN 0
     ELSE LET k == keys[Min(differ)]
          IN IF is_true(eval_compare("LT", a.item[k.at], b.item[k.at])) # k.sc
             THEN -1 ELSE 1

gkeys(s) ==
  [i \in 1 .. Len(s.group) |->
     [at |-> Len(s.columns) + Len(vcol(s)) + i, sc |-> s.group[i].sc]]

\* The columns of earlier statements are still counted, while their indices
\* and directions were zeroed: the first column, ascending.
okeys(s) ==
  [i \in 1 .. ocol_cnt |->
     LET own == i - (ocol_cnt - Len(s.order))
     IN IF own <= 0 THEN [at |-> 1, sc |-> FALSE]
        ELSE [at |-> get_column_index(s, s.order[own].name), sc |-> s.order[own].sc]]

\* qsort may leave equal records in any order
Sorted(keys, rs) ==
  {t \in {[i \in 1 .. Len(rs) |-> rs[f[i]]] : f \in SetToSeqs(1 .. Len(rs))} :
     \A i \in 1 .. Len(rs) - 1 : cmp(keys, t[i], t[i + 1]) <= 0}

\* do_select after its loop
Sort ==
  /\ pc = "scanned"
  /\ IF q.group = <<>> THEN pc' = "collect" /\ UNCHANGED recs
     ELSE pc' = "merge" /\ recs' \in Sorted(gkeys(q), recs)
  /\ beg' = 1 /\ end' = 2
  /\ UNCHANGED <<db, q, arr, pos, sub, limit, ocol_cnt, reply>>

-----------------------------------------------------------------------------
\* record j of a group that starts at b is added to what the group has
merge_item_left_short(lhs, rhs, kind, b, j) ==
  IF kind = "COUNT" THEN IntNum(j - b) ELSE eval_arith("ADD", lhs, rhs)

merge_item_left(lhs, rhs, kind, b, j) ==
  IF kind = "COUNT" THEN IntNum(j - b + 1) ELSE eval_arith("ADD", lhs, rhs)

\* What item k of the records b .. e adds up to.
Total(b, e, k, kind) ==
  LET sum[j \in b .. e] ==
        IF j = b THEN recs[b].item[k]
        ELSE merge_item_left(sum[j - 1], recs[j].item[k], kind, b, j)
  IN sum[e]

\* The first record of the group b .. e, with what it adds up to.  The record
\* has no names any more; an aggregate that is not the first one of its column
\* reads the value of the first of all.
Merged(b, e) ==
  LET n == Len(q.columns)
      v == vcol(q)
      sums == [i \in 1 .. Len(v) |-> Total(b, e, n + i, v[i].type)]
      own(x, i) == x = extract_agr[q.columns[i].expr][1]
      value(i) == eval_expr(<<>>, NoRows,
                            [x \in Exprs |-> sums[IF own(x, i) THEN place(q, i) ELSE 1]])
                           [q.columns[i].expr]
  IN [i \in 1 .. Len(recs[b].item) |->
        IF i <= n THEN (IF i \in Aggregated(q) THEN value(i) ELSE recs[b].item[i])
        ELSE IF i <= n + Len(v) THEN sums[i - n]
        ELSE recs[b].item[i]]

\* the group b .. e is complete; dividing by a sum of zero ends the process
CloseGroup(b, e, then) ==
  LET item == Merged(b, e)
  IN IF \E i \in 1 .. Len(q.columns) : item[i] = Trap
     THEN pc' = "crashed" /\ UNCHANGED recs
     ELSE /\ recs' = [recs EXCEPT ![b] = [item |-> item, next |-> e + 1]]
          /\ pc' = then

\* One pass of the loop of merge_agr.
Merge ==
  /\ pc = "merge" /\ end <= Len(recs)
  /\ IF cmp(gkeys(q), recs[beg], recs[end]) = 0 THEN UNCHANGED <<recs, pc, beg>>
     ELSE CloseGroup(beg, end - 1, "merge") /\ beg' = end
  /\ end' = end + 1
  /\ UNCHANGED <<db, q, arr, pos, sub, limit, ocol_cnt, reply>>

Divides(e) == \E x \in Parts[e] : x.type \in {"DIV", "MOD"}

\* What merge_agr does behind its loop.  When there is no record it merges the
\* one an earlier answer or malloc left in the array: nobody sees the result,
\* but dividing by what happens to be there may end the process.
MergeLast ==
  /\ pc = "merge" /\ end > Len(recs)
  /\ \/ recs # <<>> /\ CloseGroup(beg, Len(recs), "collect")
     \/ recs = <<>> /\ pc' = "collect" /\ UNCHANGED recs
     \/ recs = <<>> /\ pc' = "crashed" /\ UNCHANGED recs
        /\ \E i \in Aggregated(q) : Divides(q.columns[i].expr)
  /\ UNCHANGED <<db, q, arr, pos, sub, limit, ocol_cnt, reply, beg, end>>

-----------------------------------------------------------------------------
\* the records next leads to, from the first
next(i) == IF q.group # <<>> THEN recs[i].next ELSE i + 1

Walk ==
  LET at[n \in 1 .. Len(recs)] ==
        IF n = 1 THEN 1
        ELSE IF at[n - 1] > Len(recs) THEN at[n - 1] ELSE next(at[n - 1])
  IN [n \in 1 .. Cardinality({m \in 1 .. Len(recs) : at[m] <= Len(recs)}) |-> at[n]]

Result == [n \in 1 .. Len(Walk) |-> recs[Walk[n]]]

WindowFromOne(rows, lim) ==
  SubSeq(rows, Max({lim.start, 1}), Min({lim.start + lim.count - 1, Len(rows)}))
Window(rows, lim) ==
  SubSeq(rows, lim.start + 1, Min({lim.start + lim.count, Len(rows)}))

Shown(rows) ==
  LET w == Window(rows, limit)
  IN [n \in 1 .. Len(w) |-> SubSeq(w[n].item, 1, col_cnt(q))]

\* jsonify_value has no case for the other values and returns nothing for
\* them: p goes on from wherever that leads
Printable(v) == IsNumber(v) \/ IsText(v)

\* sprintf asks for no length
Overwrites(rows) ==
  \/ Len(rows) * col_cnt(q) > REPLY_CELLS
  \/ \E n \in 1 .. Len(rows), i \in 1 .. col_cnt(q) : ~ Printable(rows[n][i])

Unsortable ==
  /\ q.order # <<>> /\ Len(Result) > 1
  /\ \E i \in 1 .. ocol_cnt : okeys(q)[i].at = Unknown

\* jsonify_result: result has the capacity of recs and never more records
Collect ==
  /\ pc = "collect"
  /\ IF Unsortable THEN pc' = "crashed" /\ UNCHANGED reply
     ELSE \E rows \in IF q.order # <<>> THEN Sorted(okeys(q), Result) ELSE {Result} :
            IF Overwrites(Shown(rows)) THEN pc' = "crashed" /\ UNCHANGED reply
            ELSE pc' = "idle" /\ reply' = [status |-> "success", rows |-> Shown(rows)]
  /\ UNCHANGED <<db, q, arr, pos, sub, recs, limit, ocol_cnt, beg, end>>

-----------------------------------------------------------------------------
Init == SelectInit /\ beg = 1 /\ end = 2

Thread == (Scan /\ UNCHANGED answerVars) \/ Sort \/ Merge \/ MergeLast \/ Collect

Next ==
  \/ Write /\ UNCHANGED answerVars
  \/ \E s \in Queries : Begin(s) /\ UNCHANGED answerVars
  \/ Thread
  \/ Restart /\ UNCHANGED answerVars

Busy == pc \notin {"idle", "crashed"}

\* The one thread goes on while it has something to do: weak fairness of
\* Thread, which is enabled exactly while Busy.
Spec == Init /\ [][Next]_vars /\ ([]<>(~ Busy) \/ []<><<Thread>>_vars)

-----------------------------------------------------------------------------
\* While rows are visited, every pointer is inside its array: the memory read
\* is what load_data wrote, for all tables with rows.
PointersInside ==
  pc = "scan" =>
    /\ DOMAIN pos = DOMAIN arr
    /\ \A i \in DOMAIN arr :
         pos[i] \in 1 .. Len(arr[i]) \/ (Len(arr[i]) = 0 /\ pos[i] = 1)

\* get_next_record neither skips nor repeats a combination of rows: it goes to
\* the next one in the order in which the last table turns fastest.
StepsOn ==
  pc = "scan" /\ pc' = "scan" =>
    /\ Precedes(pos, pos')
    /\ \A t \in Combos(arr) : ~ (Precedes(pos, t) /\ Precedes(t, pos'))

VisitsNext == [][StepsOn]_vars

\* what the whole statement amounts to
Whole == Run(db, q, q, SubRun(db, q, ocol_cnt), ocol_cnt)

\* When the loop ends, recs holds a row for each combination that meets the
\* condition, once, in the order of the lists, whatever the subquery left in
\* the globals; a statement answered with an error has one in its condition.
RowsExact ==
  /\ pc = "scanned" =>
       \A w \in {Whole} : /\ w.status = "done"
                          /\ [k \in 1 .. Len(recs) |-> recs[k].item] = w.rows
  /\ pc = "idle" /\ reply.status = "error" => Whole.status = "error"

\* qsort needs an order: a column it compares has numbers, or texts, or dates,
\* or values that cannot be compared and are all alike to cmp.
Alike(V) ==
  \/ \A v \in V : IsNumber(v) /\ get_number(v) \in Int
  \/ \A v \in V : v.type = "STRING" /\ v.strval \in Seq(Int)
  \/ \A v \in V : v.type = "DATETIME" /\ make_datetime(v.strval) \in Int
  \/ \A v \in V : ~ IsNumber(v) /\ ~ IsText(v)

Comparable(keys, rows) ==
  \A i \in 1 .. Len(keys) : Alike({rows[k][keys[i].at] : k \in 1 .. Len(rows)})

\* whole numbers can be added without rounding
Addable(V) == \A v \in V : /\ v.type = "INTNUM" /\ v.intval \in Int
                           /\ v = IntNum(v.intval)

\* the sum of item i of those of the rows that are in K
SumOf(rows, i, K) ==
  LET sum[k \in 0 .. Len(rows)] ==
        IF k = 0 THEN 0 ELSE sum[k - 1] + (IF k \in K THEN rows[k][i].intval ELSE 0)
  IN sum[Len(rows)]

\* those of the rows that belong to a group
Alikes(rows, r) ==
  {k \in 1 .. Len(rows) : cmp(gkeys(q), [item |-> rows[k]], r) = 0}

\* its SUM and COUNT are those of its rows
AddsUp(rows, K, item) ==
  \A c \in 1 .. Len(q.columns) :
    LET e == q.columns[c].expr
        i == Len(q.columns) + place(q, c)
    IN /\ e.type = "SUM" /\ Addable({rows[k][i] : k \in K}) =>
            item[c] = IntNum(SumOf(rows, i, K))
       /\ e.type = "COUNT" /\ Cardinality(K) > 1 => item[c] = IntNum(Cardinality(K))

\* What the records should be when rows are what the loop collected.
GroupsOf(rows) ==
  /\ \A k \in 1 .. Len(rows) :
       \E n \in 1 .. Len(Result) : k \in Alikes(rows, Result[n])
  /\ \A m, n \in 1 .. Len(Result) :
       m # n => Alikes(rows, Result[m]) \cap Alikes(rows, Result[n]) = {}
  /\ \A n \in 1 .. Len(Result) :
       AddsUp(rows, Alikes(rows, Result[n]), Result[n].item)

\* After merge_agr the list next leads along has one record for each value of
\* GROUP BY, and its SUM and COUNT are those of the rows with this value: of
\* all their rows, wherever qsort put them.  COUNT is counted while records
\* are merged, so that a group of one row keeps what was counted in its place.
\* (`*` leaves no columns to group by: what is compared is not of the row.)
GroupsExact ==
  pc = "collect" /\ q.group # <<>> /\ ~ q.all =>
    \A rows \in {Whole.rows} : Comparable(gkeys(q), rows) => GroupsOf(rows)

\* The rows a client gets, whatever qsort did with equal ones: as many as
\* LIMIT asks for and there are, the k-th of them with as many rows before it
\* as the window starts with and k asks for.
Ranked(keys, lim) ==
  LET n == Len(Result)
      start == Min({lim.start, n})
      before(r)  == Cardinality({k \in 1 .. n : cmp(keys, Result[k], r) = -1})
      through(r) == Cardinality({k \in 1 .. n : cmp(keys, Result[k], r) <= 0})
  IN /\ Len(reply.rows) = Min({lim.count, n - start})
     /\ \A k \in 1 .. Len(reply.rows) :
          LET r == [item |-> reply.rows[k]]
          IN before(r) < start + k /\ start + k <= through(r)

OwnKeys(s) ==
  [i \in 1 .. Len(s.order) |->
     [at |-> get_column_index(s, s.order[i].name), sc |-> s.order[i].sc]]

\* after a statement that had an ORDER BY the first column comes before them
LastingKeys(s) == IF ocol_cnt = Len(s.order) THEN OwnKeys(s)
                  ELSE <<[at |-> 1, sc |-> FALSE]>> \o OwnKeys(s)

OwnLimit(s) ==
  IF s.sub # <<>> /\ s.sub[1].limit # NoLimit THEN s.sub[1].limit ELSE s.limit

AnsweredSorted ==
  /\ pc = "idle" /\ reply.status = "success" /\ q.order # <<>>
  /\ \A i \in 1 .. Len(q.order) : OwnKeys(q)[i].at # Unknown

\* ORDER BY and LIMIT give the rows asked for, by the columns and directions
\* asked for, when no earlier statement of this server had an ORDER BY; after
\* one that had, the first column comes before them, ascending.  The LIMIT of
\* a subquery takes the place of the statement's.
OrderedAs ==
  AnsweredSorted /\ Comparable(LastingKeys(q), [n \in 1 .. Len(Result) |-> Result[n].item])
    => \A keys \in {LastingKeys(q)} : Ranked(keys, OwnLimit(q))

\* ORDER BY sorts by the columns it names (csql.md).
OrderedAsWritten ==
  AnsweredSorted => Ranked(OwnKeys(q), OwnLimit(q))

\* There is a number, a text or a date for every value of the answer: those of
\* the rows, or, where a group adds up, what adding numbers gives; and they fit.
Additive(e) ==
  is_agr_func(e) \/ IsNumber(e) \/ (e.type \in {"ADD", "SUB", "MUL"} /\ {"l", "r"} \subseteq DOMAIN e)

Writable ==
  LET added == IF q.group = <<>> THEN {} ELSE Aggregated(q)
      n == Len(q.columns)
  IN /\ Len(Whole.rows) * col_cnt(q) <= REPLY_CELLS
     /\ \A k \in 1 .. Len(Whole.rows) :
          /\ \A i \in 1 .. col_cnt(q) : i \in added \/ Printable(Whole.rows[k][i])
          /\ added # {} => \A p \in 1 .. Len(vcol(q)) : IsNumber(Whole.rows[k][n + p])
     /\ \A i \in added : \A e \in Parts[q.columns[i].expr] : Additive(e)

\* The server lives through every query on tables with rows, each named once,
\* whose counters cover them, with room for the rows, the columns and the text
\* of the answer, values in it that can be written, no division by zero and
\* known columns to sort by; and as long as the ORDER BY columns of all its
\* statements together fit into a record.
Harmless ==
  /\ q.group # <<>> => /\ ~ q.all
                       /\ \A i \in Aggregated(q) : ~ Divides(q.columns[i].expr)
  /\ \A i \in 1 .. Len(q.order) : OwnKeys(q)[i].at # Unknown
  /\ ocol_cnt <= RECORD_COLUMNS
  /\ Whole.status # "trap"
  /\ Whole.status = "done" => Writable

Survives == pc = "crashed" => ~ Harmless

\* Every query is answered, or ends the process: no pointer goes round in a
\* circle.
QueryEnds == Busy ~> ~ Busy

=============================================================================
