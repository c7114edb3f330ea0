# Crims: a TLA+ model of the car-rental information system

Crims is a small database server in C (`server/`), a relay in Node (`router/`)
and a React client (`client/`).  The server keeps three tables in memory,
executes a subset of SQL (`doc/csql.md`, `doc/executor.md`), saves the tables
to a file on request and answers clients over TCP.  This directory holds TLA+
modules of its core, TLC configurations that check them on small instances,
and theorems checked by TLAPS.

## 1. Inventory

### Components, their state and operations

| component | source | state | operations |
|---|---|---|---|
| store | `database.c`, `insert.c`, `delete.c`, `update.c` | `head`, a list of car types, each with a list of cars, each with a list of orders; the tail pointer `ct_ptr`; the row counters `icnt[3]` (unsigned) | `do_insert`, `do_delete`, `do_update` |
| data file | `database.c`, `exec.c` | the file `database_path` names | `read_db` at start, `write_db` for SAVE and EXIT |
| executor | `exec.c` | the static arrays `single_command` and (in `json.c`) `json_buffer` | `exec`: split a request at `;`; `exec_single`: dispatch |
| socket server | `server.c` | `client_fds[10]`, `ser_fdset`, the buffers | `run_server`: select, accept, read, execute, answer |
| queries | `select.c`, `json.c` | `rec` (an array of rows and a pointer per table), `recs`, the window `limit`, a dozen counters of which `query_initialize` resets all but one | `do_select`: join, WHERE, GROUP BY; `jsonify_result`: ORDER BY, LIMIT, the reply |
| expressions | `select.c`, `regex.c` | none, but the subquery's result in `select->recs` | `eval_expr` with 6 comparisons, arithmetic, logic, IN, LIKE |
| shell, start-up, log | `shell.c`, `start.c`, `main.c`, `log.c` | the line buffer `sql`; `log_stream` | assemble lines; load the data in a thread; log |
| relay | `router/router.js` | one socket to the server and the browser connected last, per port, five times | forward both ways |
| administration page | `client/src/pages/admin/admin.jsx` | the page's copy of a table, the rows selected, the row to edit, its timers, the handlers of two sockets | add, delete and edit rows, correct `CAR_TYPE.quantity` |
| query, statistics pages | `client/src/pages/query`, `stat` | a form | compose SELECT statements |
| parser | git submodule, not in the repository | | `parse_sql` |

### How they interact

A page sends a statement through the relay to the server's socket; `run_server`
reads it into `recv_buffer` and calls `exec`, which calls `exec_single` for
each statement; the statement changes the lists, or the file, and leaves its
answer in the one `json_buffer`; `run_server` sends what `json_buffer` holds to
the client it has just read from.  The server is one thread once the data are
loaded: everything it shares is shared between requests, not between threads.

A SELECT reads the same lists and counters the other statements change: the
arrays of a query have `icnt[ti]` rows and are filled with one row per linked
node, which is why the counters matter (`CountsCover` on one side, `Overflows`
on the other).  The page is the one client that keeps derived data: it changes
`CAR_INFO` on one socket and corrects `CAR_TYPE.quantity` with a handler of
another, so what it keeps depends on the order in which relay and server
interleave the two.

### What is hard, and what would be correct

* **Pointers that outlive a node.** DELETE unlinks through a pointer to the
  node visited before, walks on through nodes it has unlinked, and never frees.
  `ct_ptr` lives from statement to statement. Correct: the list under `head`
  stays a list, rows go with their parents, the next INSERT appends to it.
* **Counters next to the structure they count.** `icnt` sizes the arrays a
  SELECT fills. Correct: it is never below the number of linked rows.
* **Partial statements.** An INSERT of several rows, or an UPDATE of several
  columns, may fail after part of it was done.
* **The only copy of the file is emptied before it is written**, and the
  process may be killed at any moment. Correct: what is left can be read, and
  is a prefix of what was to be written.
* **Static buffers.** A statement is executed from an array that still holds
  an earlier one; a reply is whatever the last statement left.
* **TCP segments, departures and a full table** against one loop that must
  not block and must reach every client. It does block in `send`, for a client
  that does not read.
* **An odometer of pointers over arrays that may be empty**, a pointer step
  computed from a length minus one. Correct: every combination of rows once,
  no pointer outside its array.
* **What one query leaves for the next**: the counter of ORDER BY columns,
  the records in `recs`, the LIMIT of a subquery. Correct: an answer depends on
  the statement and the data only. It does not, and the model says on what else.
* **GROUP BY merged in place** after a sort that may put equal rows in any
  order. Correct: one record per value, its sums those of all its rows.
* **A derived quantity kept by the page**: it reads the number, adds one and
  writes it back, over two sockets, from handlers that timers replace, through a
  relay that answers whoever connected last. The cid of a car is what the user
  types. Correct, and only for a patient user who types new cids: the quantity is
  the number of cars. Correct for all: no cid goes that nobody meant to go.

`PROJECT.json` lists each hazard with its line and the properties that would
catch it.

## 2. Modules

| module | what it models |
|---|---|
| `CarStore` | the store: INSERT row by row, DELETE, UPDATE, with counters and answers; `Spec` (any statement) and `KeyedSpec` (the statements of the administration page, primary keys being keys) |
| `TypeList` | the list of car types pointer by pointer, the loops of `traverse_delete` and `traverse_update` one node per step; implements `CarStore` |
| `Persist` | `CarStore` with the data file, restarts, kills and a disk that may be full |
| `Exec` | `exec`: a request of any length cut into statements in `single_command` |
| `ServerLoop` | `run_server` with its clients, those that wait for replies among others |
| `Expr` | values, operators and comparisons of expressions, LIKE patterns; operators only |
| `Eval` | asks `Expr` one question at a time beside what the answer should be |
| `Select` | `do_select` as far as it visits rows: arrays, odometer, WHERE, subquery, rows kept |
| `Answer` | the rest of a query: GROUP BY, ORDER BY, LIMIT, the reply; and one query after the other |
| `AdminPage` | pages, relay and server around the sheet of cars |
| `CarStoreProofs`, `TypeListProofs`, `PersistProofs`, `ExecProofs`, `ServerLoopProofs`, `AnswerProofs`, `EvalProofs`, `AdminPageProofs` | theorems |
| `MC*` | constants for TLC |

`Persist` and `TypeList` extend and refine `CarStore`; `Answer` extends
`Select`, which with `Eval` extends `Expr`. Each of the others stands alone.

### Correspondence with the code

**CarStore.** A node is a row with the address `at` calloc gave it and the
address `up` of the node whose chain it is on. Nodes are only ever appended and
never freed, so a chain is the set of rows with one `up`, ordered by address;
`brk` counts allocations. An INSERT is `InsertBegin`, one action per value list
(`InsertCarType`, `InsertCarInfo`, `InsertRentOrder`: `do_insert`'s loop body
with the counters and the insertion) and `InsertEnd` or `InsertMismatch` (the
`return ERROR` in the loop). DELETE and UPDATE are one action each per table:
`Unlinks` says which of the matching nodes one pass over a chain unlinks, given
that a write through a node that is itself unlinked changes nothing that is
linked; `update_ct_ptr` is the walk of that name. `UpdateX` rewrites the first
match of the traversal; its answer is either status because
`genericg_update` falls off its end without a value. Columns are reduced to
keys and one plain column (`quantity`). A condition `column = literal` is the set
of column values `is_equal` finds equal to the literal: of a text that is one value;
of a number it is any set, because `is_equal` goes by the type of the literal (a float
literal compares the bytes of an `int` column as a float's, and a type without a case
returns `ERROR`, which is true of every row). The statements of `KeyedSpec` are
those of the sheets of the page: INSERT with a key no row has, DELETE by key, UPDATE by key of
all columns, `code` and `cid` included, so that in `KeyedSpec` as in `Spec` a row
need not hang under the parent whose key it carries.

**TypeList** keeps `next` as an array of pointers and the cursors `ct`, `pct`
of the loops. `ImplementsCarStore` maps it to `CarStore`: the rows are the
nodes reached from `head`; during a traversal the abstract state is that of
its beginning (`was`, a history variable), so the traversal's steps are
stutters and its end is the abstract DELETE or UPDATE. The nodes reached from
`head` are those in every set closed under `next` (`Linked`), the definition the
proofs can use without recursion.

**Persist.** `disk` is the sequence of records of the file; `Dump` is what
`write_recursively` writes. `WriteBegin` is `fopen "wb"`, which empties the
file; `Flush` is stdio writing part of it; `WriteEnd` is `fclose` and the answer
(or, for EXIT, the end of the process): all of the rest is written, or on a full disk
any part of it or nothing, and the answer is the same; `Kill` leaves the file as it is, with
whole records and perhaps one whose last columns `fread` does not find. `Start`
is `read_db`. An array cell of a column that was cut reads as zero because the
node comes from `calloc`.

**Exec.** A cell of `single_command` is a terminator, a character of the
current statement or one left by an earlier one. `Receive(n)` is a request whose
`strlen` is `n`: `run_server` reads up to `BUFFER_LENGTH` bytes into an array of as
many, so a full read has no terminator, and its text goes on with whatever
is behind `recv_buffer`, up to the bound `Behind` (`filled` remembers that it
happened). `ExecStatement(l)` is `strncpy` of `l` characters and the terminator at index
`start` of the request after the statement, which is `l` for the first one only;
`overrun` remembers a write behind the array, after which the process may go on or
end (`Restart`). `longest` is a history variable.

**ServerLoop.** `Select`, `Accept` (which may fail, for want of a descriptor or for
an `address_len` nobody initialises), then per slot `Skip`, `Read` followed by
`Send`, `ReadFails` (`byte_num < 0`) or `Exit` (`byte_num = 0`). `json_buffer`
is abstracted to whose request it answers. Clients connect, send requests whole
or in two segments, send text the parser rejects, send EXIT, read replies or do
not, leave. `mail` are the replies in the buffers of a connection; when they are
`Full`, `SendUp` is not enabled and the thread waits, for the sockets block. The
`Sleep (100)` before a send is `sleep`, 100 seconds, on Linux (`define.h:126-128`): time is
not modelled, so the step is only late. What the kernel does with a send to a peer
that left (`SendGone`: a reset, then SIGPIPE) is external. `Clients` are
connections: as no descriptor is closed none is used twice. Those in `Polite` wait for
each reply; what is said of them holds beside any others.

**Expr.** A value is a record of its type and the field the code reads for it.
Floats are kept when they are whole numbers; `Rounded` is what turning an
`int` into a `float` does, with `Mantissa` for 2^24, because the comparison
macro takes both sides through `get_number`, which is a float. Texts are
sequences of character codes, dates sequences of the fields written, so that
`make_datetime` can do what `strptime` does with an incomplete one. `Trap` is
SIGFPE; `lazy_expr` and `error_expr` are the nodes of those names; `Blank` is
the calloced node an operator leaves alone. `match_here` follows `regex.c` case
by case, as a recursive function of the place in the pattern that gives the
places of the text from which the rest of the pattern matches.

**Eval** has no counterpart but the callers of `eval_expr`: `AskLike` and
`AskCompare` pose a question, `Done` forgets it.

**Select.** `load_record` makes the arrays (of two uses of a table in FROM the
last gets the rows); `pos` are the pointers `rec.ptr`, as row numbers. `Begin`
is `query_initialize` and what `do_select` does before its loop. `Scan` is one
pass of that loop: `judge_cond`, `extract_record`, `add_record` and
`get_next_record`, whose guard `HasMore` is its comparison with the end of the
array: a pointer of an empty table is never at its end, so it walks off
(`crashed`). `Run` is a whole loop at once; it is what a subquery does inside
`is_in_select`, and what the loop of the statement itself is checked against.
`Whole`, its result, is said of all combinations of rows at once (`Combos`,
`InOrder`): which are kept, in which order, and which one ends the loop.
`Overflows` and `Full` say where the code writes behind an array or grows the
wrong one. `Restart` is external. `Write` stands for the statements of
`CarStore` between two queries: it chooses another content.

**Answer.** `Sort` is `qsort` with `cmp_g`: any order that is sorted, equal
rows in any order. `Merge` is one pass of the loop of `merge_agr`, `MergeLast`
what follows it, with the group closed even when there is none. `Total` is what
`merge_item_left` adds up along a group, `Merged` its first record with the columns
evaluated anew (`Aggregated`, `place`: the columns and numbers `build_agr_col` gives). `Collect` is
`jsonify_result`: it follows `next`, sorts with `cmp_o` and cuts the window. It ends
the process (`crashed`, the worst of what undefined behaviour may do) when the text
is longer than `json_buffer` (`REPLY_CELLS` values stand for its bytes) or has a value
that is neither a number nor a text: `jsonify_value` then falls off its end, and the next
character goes to an address made of what happened to be in a register.
`ocol_cnt` is the one counter that survives from query to query; `okeys` gives
the columns of earlier queries the index and direction zero, as `osc` and
`ocol_prop` were zeroed.

**AdminPage.** `up` and `down` are the streams between relay and server, one
pair per socket of the page (`ws`, `ws1`); `last` is `globalWs`. `Serve` is one
`read` of the server, of one message or of two that arrived together. Then
there is one reply; the second statement may have been lost in
`single_command`, and the reply is then its error, or that of the first statement when
`parse_sql` returns no tree, for `exec.c:75-79` writes no answer in that case. Of several cars
with one cid an UPDATE writes the first in the lists of the types and a DELETE takes at
least half (`DeleteHalves`): the sheet does not have those lists, so which ones it is
is left open (`Deleted`, `Updated`). `Deliver` is the relay's handler and the
page's, of one reply or two joined ones that are no JSON. `selectItem`,
`onClickConfirmAdd`, `onClickConfirmDel` and `onClickConfirmEdit` are the functions
of those names. The form of an addition or an edit is what the user has typed, cid and code,
or what was in it: `modal.jsx:48-51` and `modal.jsx:232-236` take any cid, so the
actions take any of `Numbers`, whether a car has it (fault `duplicate`) or not. A
text that is no number (`NaN` in the statement) is left out. `Fire` is the callback of one
`setTimeout`, in the order of its delay, with the table of the click it was made in.
Nothing keeps a user or the network from being quick; `faults` names what happened,
so that a property can say which mishaps it survives. `meant` are the cids a user has
confirmed to delete or to write another over.

## 3. Runs

| run | configuration | what it shows |
|---|---|---|
| `store` | `CarStore.cfg`: 2 codes, 1 value of the other columns, 5 allocations, 2 rows per INSERT, counters modulo 2 | the tail pointer right (`TailInv`), rows of an INSERT linked as they are taken (`RowsLinked`), what a DELETE removes (`DeleteHalves`) |
| `store_keyed` | `CarStoreKeyed.cfg`: 2 codes, 2 keys per table, 4 allocations, counters modulo 8 (no wrap) | counters cover the lists (`CountsCover`, `TypeCountExact`), behind failed INSERTs and edits of keys too |
| `list` | `TypeList.cfg`: 2 codes, 4 allocations | no rings (`NextGrows`), traversals end (`WalkEnds`), `ImplementsCarStore` |
| `persist` | `Persist.cfg`: 3 allocations, 2 codes | any prefix can be read (`ParentsFirst`), no mixture of two writes (`OneWrite`), reading undoes writing (`RoundTrip`), a restart repairs counters and tail (`RestartRepairs`), with a disk that may fill up at any write |
| `exec` | `Exec.cfg`: an array of 6, requests of up to 8 | nothing is written behind the array before a request has filled the buffer (`WritesInside`), what a statement is followed by (`TextInv`), the first one exact (`FirstExact`) |
| `loop` | `ServerLoop.cfg`: 3 connections, 2 slots, buffers of 1 reply, a client that waits for its reply and one with 2 requests of any kind | the thread never waits in read or accept (`NeverBlocks`), one slot per client (`SlotInv`), the waiting client its own answer (`OwnAnswer`) and all of them (`Answered`), every client in the table read (`Served`), while nobody keeps the thread in send |
| `eval` | `Eval.cfg` | LIKE finds what a pattern denotes (`LikeExact`); comparisons are those of a total preorder (`CompareSound`) |
| `query` | `Query.cfg`: 20 statements, 3 contents | pointers inside their arrays (`PointersInside`), every combination of rows once (`VisitsNext`, `RowsExact`), groups (`GroupsExact`), order and window with what earlier queries left (`OrderedAs`), what ends the process (`Survives`), every query ends (`QueryEnds`) |
| `admin` | `Admin.cfg`: 2 windows, 3 clicks, 3 cids to type, 2 cars | the quantity of a type after everything has settled (`QuantityExact`), the rows on display (`ShownFresh`), no cid gone that nobody confirmed to delete or change (`DeletesMeant`) |
| `doc_insert` | `DocInsertedRows.cfg`: as `store` | violated: the first INSERT into CAR_TYPE after a DELETE of all its rows inserts nothing and answers success |
| `doc_order` | `DocOrderedAsWritten.cfg` | violated: the second ORDER BY of a server's life sorts by the first column first |
| `doc_refresh` | `DocShownAfterDelete.cfg` | violated: after a deletion the page still shows the rows deleted |

**Bounds and why they are enough.** `MaxNodes` caps allocations in one life of
the server. Five allow three car types in a row, of which a DELETE with two
neighbours keeps one (the pattern of `Unlinks` repeats after two), a chain of
type, car and order with a sibling, and an INSERT after a DELETE; four a chain
with a sibling, or two types and a car that an edit takes from one to the other. `UMOD`
stands for 2^32; 2 makes the counters wrap, 8 keeps them from it. In `Persist` three
records make every parent-child order and every cut. An array of 6 holds two
statements of different lengths and a remnant, and a request of 6 to 8 fills the
buffer and goes on behind it. Three connections and two slots fill the table: one
waits for its replies, one sends two requests of any kind and reads when it likes,
the third takes a slot or waits for one, and leaves. A queue of one
(`Backlog`) and a buffer of one reply (`Window`) are full after one; `MaxSent` caps
requests.

`Eval` takes every pattern of up to three atoms (a letter or the dot, with or
without a star), with and without `^` and `$`, on every text of up to four
letters: two starred atoms next to each other and a rest behind them. `Mantissa`
is 4, so that the whole numbers from -9 to 9 cross two powers of two above it and
several round to one float; numbers, texts and dates are compared with their own kind, as
the columns of a table are (`Families`). In `Query` a record has 8 cells for the 6 columns of
three tables (30 in the code), an answer of six values fits (65536 bytes in the code) and
the result is grown at the sixth record (128 in the code, the same test), so that joins of two and three tables, a result
that is too long and an ORDER BY column too many all happen. The three contents
are one with rows in every table, one with empty lists of cars, and one whose
counters lag behind, which is what counters that do not cover do.
The twenty statements use between them every clause with another:
joins, an alias, `*`, an unknown table, IN with values and with a subquery that
has a LIMIT of its own or fails, LIKE, aggregates alone and in a quotient,
GROUP BY and ORDER BY in both directions, an unknown column, division by zero.
`OrderedAs` and `GroupsExact` speak of columns whose values are of one kind
(`Comparable`), because qsort promises nothing for a comparison that is not an order,
and of sums of whole numbers (`Addable`), because others are rounded as they are
added; the columns of a table are of one kind, and in the run every column that is
compared and every sum is. `GroupsExact` leaves `*` out: the
keys are then not in the row.
In `Admin` three clicks that send something make an edit between two others or
two windows against each other; the user acts only while at most `MaxUnderWay`
messages and timers are under way (one: a new change can come before the last is
through), and after the first mishap of a story (`Calm`; cids typed
twice are none) nothing else goes wrong, with all that follows from it. Three `Numbers` with two cars
are a cid that is free and two that are not. `ShownFresh` leaves out the stories in which a
page sends something that is not the one connected last (`foreign`): its SELECT
and its change interleave with those of the other, and the answers of both are
shown on one of them; four clicks are enough for rows to be missing then.
Selecting rows is free. Opening a window connects both sockets in one step. A second code no
type has is what a user may mistype.

**Fairness.** `TypeList` assumes weak fairness of the server's own steps only: it is
one thread, and nothing a traversal does waits for another. `ServerLoop` assumes it of
the server, whose `Send` is not enabled while the buffers of the connection are full, and
of a client in `Polite` reading the reply it waits for; the others owe nothing. As one of
them may never read, `Served` and `Answered` are said of the behaviours in which
the thread is out of such a send again and again (`[]<>~Stuck`); in the others
everybody waits, for ever if the client stays. `Answer`
assumes the same of the one thread while a query is under way: it takes a step
infinitely often unless it is infinitely often done. What the clients send, and
whether they stay, is left open; `AdminPage` assumes no fairness and has no
liveness. The standard input `run_server` also selects on is not modelled: a
line without an end would keep it in `fgets`.

**Deadlock** is checked in every run but those of `ServerLoop`, where the
server may wait for clients that have no request left or has ended, and of
`AdminPage`, where the user has no click left.

## 4. Theorems

TLAPS proves, for every value of the constants that meets the named
assumptions (bounds are natural numbers, counters have a positive modulus, the
array has at least two cells, `RECS_INITIAL_LENGTH` is not zero, lists end, statements name known tables once
`From` has dropped the others, expressions are finite trees in which no value is a signal, the first rows have different CIDs, `Mantissa` is
even, the values compared are those of one column):

* `CarStoreProofs`: `TypeCorrect`, `TailCorrect` (`TailInv`), `RowsAreLinked`
  (`RowsLinked`: the last row an INSERT of car types has taken is the one ct_ptr is on), `DeletesHalve`
  (`DeleteHalves`: a match that stays has just lost the match before it, which maps
  what stays one to one into what goes). The inductive invariant is the
  conjunction of `TypeOK`, `TailInv`, the finiteness of the three tables and `LinkInv`:
  no two rows share an address, and every row has its parent. The last says little of
  the code, for rows are by definition those that are reached, but the rest needs it.
  For clients that keep the keys also `CountersCover` (`CountsCover`) and `TypesCounted`
  (`TypeCountExact`). Their invariant `KInv` adds that no two rows of a table share a key
  and that the counters cover. Key uniqueness is what the rest stands on: a
  DELETE then matches one row at most and a pass with one match unlinks it, so what
  is subtracted is what goes, wherever the row hangs by then.
* `TypeListProofs`: `TypeCorrect`, `ListsAcyclic` (`NextGrows`), `CursorsMoveOn`
  (`CursorInv`). A next pointer always leads to a younger node because an INSERT
  points an old node at the youngest and an unlink skips forward; that pct is behind
  ct is what makes the unlink skip forward.
  `ListImplementsStore` (`ImplementsCarStore`) maps initial states to initial
  states and every step to a step or a stutter. Its invariant
  `RInv` says that the linked nodes form a *chain* (the `next` field of head and of
  each of them names the next one by address), that ct_ptr is the last of them,
  and, during a traversal, what has been done so far in terms of the list it began
  with: the nodes from ct on are still linked as they were; a node behind ct is
  unlinked exactly when it matches and the node before it was not unlinked
  (`Missed`); `icnt` is what it was less the matches passed, modulo 2^32. The lemmas
  on chains (`ChainLinked`, `AppendChain`, `UnlinkChain`, `TailOfChain`) say what a
  write to a `next` field makes of the list, to a node that is linked and to one
  that is not; the second is how an append after the last DELETE, and an unlink
  through an unlinked pct, are lost.
* `PersistProofs`: `FileLoads` (`ParentsFirst`), `FileIsOneWrite` (`OneWrite`),
  `FileTypes` (`PTypeOK`), `RestartKeepsTheFile` (`RoundTrip`),
  `RestartRepairsTheStore` (`RestartRepairs`) and `ListsSurviveRestarts` (`LinkInv` and
  `TailInv` through kills and restarts), with disks that may fill up. The invariant `FileInv` is that of the
  store, that the file is a cut of the target of the last write, and that this
  target is *readable*: every car after a car type, every order after a car with
  no car type between. It is preserved because the ranks `write_recursively` gives
  the nodes number them, parents before children and subtrees unbroken
  (`RankNumbers`, `DumpReadable`), because a cut of something readable is readable
  (`CutReadable`), and because a readable file makes a store that satisfies the
  invariant of `CarStore` (`StartIInv`). `RoundTrip` is the other direction: the
  path of the node made of record `i` is before that of record `j` exactly when
  `i < j` (`PathsOneWay`), so its rank is `i - 1` again.
* `ExecProofs`: `TypeCorrect`, `ArrayBounds` (`WritesInside`), `TextCorrect` (`TextInv`),
  `FirstStatementExact` (`FirstExact`). The strengthening is that what is left of a
  request that did not fill the buffer still fits in the array behind `start` (`Room`),
  and that no cell behind the longest statement was ever written but with a
  terminator (`Untouched`).
* `ServerLoopProofs`: `TypeCorrect`, `OneSlot` (`SlotInv`), `NeverWaits`
  (`NeverBlocks`) and `OwnAnswers` (`OwnAnswer`: of the clients that wait, among any
  others). `NeverBlocks` speaks of the slot being visited; the invariant says of
  every slot not yet visited that what select saw is still there, which holds
  because a client has one slot and an accepted one was not reported. For
  `OwnAnswer` the one request of such a client that is not answered is in the stream, in
  `json_buffer` about to be sent, or in the mail, and nothing a visit to another client
  does touches the first and the last.
* `AnswerProofs`: `PointersStayInside` (`PointersInside`), `EveryCombination`
  (`VisitsNext`), `RowsCollected` (`RowsExact`), `ServerSurvives` (`Survives`),
  `GroupsMerged` (`GroupsExact`) and `AnswersOrdered` (`OrderedAs`), for
  any database, any statement with any condition and subquery, any number of
  tables and any statements before. `QueriesAssumption` and `ColumnsAssumption` say what
  the parser hands on: sequences of columns, keys with a direction, expressions of
  `Exprs` and windows of natural numbers. The argument of the first three does
  not look at a value: what one pass makes of a combination of rows is a
  function of the combination (`Seen`), because the subquery gives the same rows
  whenever it is asked. It is about the order of the combinations, which is total
  (`PrecedesTotal`) on a finite set (`CombosFinite`). Moving the last pointer that can
  move, and resetting those behind it, leads to the next one (`NothingBetween`), so
  that the combinations before the pointers are those visited (`MovedAdds`); when no
  pointer moves they are all there are (`LastCombo`), an array without rows in
  between included. The invariant `Scanning` says that no combination before the
  pointers ended the loop and that recs holds the rows of those that were kept, in
  their order (`Collected`); `RowsMore` is one pass, `WholeDone` and `WholeStops` compare
  the end with what `Whole` says of all combinations at once.

  `Survives` needs to know what ends the process in the loop, which is what `Whole`
  says (`WholeStops`, `WholeFull`, `WholeStuck`, `WholeOverflows`), and that nothing
  does behind it. Its invariant `SInv` follows the rows kept: each has values in
  its columns, or it would not have been kept (`SeenSafe`), qsort only moves them
  (`SortMerges`), and merge_agr writes into the record of its group alone, so that the
  records still to come keep theirs (`MergeKeeps`). Merging makes values of values:
  adding never traps (`TotalSafe`), and evaluating a column does only where an
  operand on the way divides (`eval_exprSafe`). Both are recursive functions, which
  have values because a group and an expression are finite: an expression by
  `ExprsAssumption`, on the number of its parts (`PartialAll`), a group by the
  number of its records (`SummedAll`). That jsonify_result can write the answer is a premise
  about the rows `Whole` has: they fit, their values are numbers or texts, and an
  aggregated column adds and multiplies numbers only (`Additive`), which gives one.

  `OrderedAs` and `GroupsExact` are about qsort, which leaves equal records in any
  order. Where the values of a column are of one kind (`Alike`), what differs is
  ordered one way or the other and nothing comes between two equal values
  (`AlikeOrder`); then `cmp` with any number of keys is a weak order
  (`cmpTwo`, `cmpBetween`, `cmpEqual`), and a sequence in which no record is behind its
  neighbour is sorted throughout (`SortedIs`). For `OrderedAs` the record at place
  `p` has fewer than `p` records before it and at least `p` that are not behind it
  (`SortedRank`), which is all that can be said when there are equal ones; columns left
  over from earlier statements are all the first column, ascending, and compare
  like one of them (`KeysAgree`); the window is cut out of the rest (`WindowIs`). The
  invariant `OInv` carries from `Begin` to `Collect` that the columns counted include
  those of the statement, and whose LIMIT it is.

  For `GroupsExact` the invariant `GInv` says where merge_agr is: it knows a
  permutation `f` of the rows the loop collected (`Merges`), `beg` is the first record
  of its group (`Opens`), the records from `beg` on are still those rows, and behind
  `beg` the first record of every group stands for it (`Stands`): `next` leads
  behind the group, its keys are those of its rows, SUM and COUNT are theirs. A
  group is a stretch of a sorted sequence, and what follows it opens another
  (`GroupStretch`), so closing one keeps this (`CloseStands`). What a group adds up to is
  the sum over the set of its rows, in whatever order it was added (`TotalSum`,
  `SumOfMore`), which the column of the aggregate gets and the keys survive
  (`MergedColumn`, `MergedKey`). In the end the first records are linked by `next`
  from one to the following (`GroupsHop`) and the walk visits each once
  (`WalkCovers`).
* `EvalProofs`: `ComparisonsSound` (`CompareSound`). Rounding to floats is monotone:
  within one spacing of the floats because the number nearer to the upper float
  is the larger one (`NearestGrows`), and from one spacing to the next because
  the whole number at which the spacing doubles is a float of both
  (`NearestAcross`), which is what `Mantissa` is even for. So two numbers may
  compare equal that are not, but never in the wrong order, and the sign of a
  difference of dates survives (`RoundedSign`). Texts are ordered by their first
  difference (`TextsDiffer`, `TextsAfter`). `FamiliesAssumption` says that the values
  compared are numbers, or texts, or dates, and whole numbers below 2^48: an `int`
  is, and so is the number of seconds between two dates for 8 million years.
  `PatternsExact` (`LikeExact`): what `match_here` finds from a place in the written
  pattern is what the atoms from there on denote (`Claim`). The function is the
  one its equation describes because it can be built from the end of the pattern
  (`HereExists`); were the claim wrong somewhere there would be a last atom where
  it is, and `CutsStep` shows that one right. `PatternsAssumption` says that an atom
  is a character other than `*`, `^` and `$`: `regex.c` reads such a character
  as an ordinary one in some places, and what it means there is its own.
* `AdminPageProofs`: `TypeCorrect` (`TInv`: types, and no row selected twice),
  `DeletionsWereMeant` (`DeletesMeant`), `ChangesAreShown` (`ShownFresh`) and
  `QuantitiesFollow` (`QuantityExact`), for any number of windows, types, cars and
  clicks. None of the properties is inductive, for each speaks of what is
  left when nothing is under way or of a step whose cause is long past, so each
  invariant says what the messages and timers under way will still do.
  - `MeantInv`: every DELETE on its way and every timer that will send one is for
    a cid whose deletion was confirmed, and every UPDATE on its way leaves the
    cid of its row alone or was confirmed to change it. It does not matter how many cars
    have the cid.
  - `FreshInv`: a SELECT is on its way behind the last change (`WillBeRead`), or no
    change is on its way and the last answer that will be shown, or the table
    itself, has the rows of the server (`WillBeShown`).
  - `BooksInv`: for each type there are a change `d` of its cars under way, a
    correction `c` of its quantity that is owed, as a question, as the reply to it
    or as the statement that writes the number (`Owed`), and a correction `e` that
    a timer has not asked for yet (`Timed`), with
    cars + d = quantity + c + e. While nothing goes wrong there is at most one
    change and one correction under way, and all timers are those of one click
    (`OneChange`, `OneCorrection`, `OneClick`). That no correction is
    read twice, or computed from a number another one is about to change, is
    what makes the books balance; that cids are keys (`Keyed`) is what makes one DELETE one
    car, and they stay keys because the cid of an INSERT on its way (`Effect`), or that an
    UPDATE on its way writes (`InPlace`), is one that no car has when none was typed twice.

**Only model-checked:** liveness (`WalkEnds`, `Served`, `Answered`,
`QueryEnds`), because liveness under fairness is beyond these provers. Every
other property that a passing run checks is a theorem. The provers cannot
instantiate a theorem of induction over data either: where a recursive function is
unfolded (the values of expressions, `LIKE`, sums, the walk along `next`) a least
counterexample takes its place, written for each definition anew.

## 5. What the code does that its documents do not say

Three disagreements have a run of their own (`doc_insert`, `doc_order`, `doc_refresh`). The others are part of the models,
which hold for the code as it is:

* DELETE leaves the second of two neighbours that match (`delete.c:58`); the
  property is what it does remove (`DeleteHalves`).
* After a DELETE of the last car type no car type can be inserted until a
  restart (`database.c:390`), although INSERT answers success: `doc_insert`.
* LIKE reads its pattern as `regex.c` does: `.`, `*`, `^` and `$`. `%` and `_`, and the
  character lists in brackets, which `doc/csql.md:149-156` gives as the wildcards and
  `doc/csql.md:296` and `doc/executor.md:50-60` use as `LIKE "%...%"`, are ordinary
  characters to it: such a statement finds the texts that contain the per cent signs.
  `LikeExact` is therefore about the patterns of `regex.c`.
* UPDATE rewrites the first match only (`update.c:30`); its status is whatever was in
  a register, and an unknown column ends it with an error after the columns before it
  were written (`update.c:19`).
* An INSERT that fails at one of its value lists leaves the rows of those before it
  (`insert.c:37`; `RowsLinked`).
* UPDATE of `code` or `cid` leaves the row where it is (`update.c:48`), and the administration
  page sends it (`admin.jsx:251`, `259`): a car whose code was edited is still under the old type,
  a DELETE of its new type leaves it and one of its old type takes it along, and SAVE and
  a restart keep it there, for a car is read under the type written before it. Nothing is said here about rows
  being nested by key; the counters hold (`CountsCover`).
* SAVE answers success whatever became of the bytes (`database.c:232`): on a full disk
  the file ends somewhere. What is said of the file (`OneWrite`, `ParentsFirst`) is
  that it can be read up to there.
* A request of 65536 bytes or more fills `recv_buffer` without a terminator
  (`server.c:272`): a statement that ends at its end is copied with the terminator
  behind `single_command` (`exec.c:229`), and `strlen` (`exec.c:221`) reads on behind
  `recv_buffer`. `WritesInside` says that this is the only way.
* In a batch, a statement shorter than one before is followed by the rest
  of that one (`exec.c:229`); `TextInv` says how far, and that the first is exempt.
* A client that does not read its replies keeps the only thread in `send`
  (`server.c:281`), and `Sleep (100)` before every reply is 100 seconds on Linux (`define.h:126-128`).
* An answer longer than `json_buffer`, or with a value `jsonify_value` has no case for
  (an aggregate without GROUP BY is one), is written to other memory
  (`json.c:43-62`, `106`; `Survives` has both among what ends the process).
* A query behind one with ORDER BY (`OrderedAs` says what the order then is), the
  LIMIT of a subquery that replaces the statement's (`OwnLimit`), a COUNT that a
  group of one row keeps from its row (`GroupsExact` leaves these groups out), a failing subquery that
  counts as the rows it had found, `%` and `/` by zero, an empty table in a join,
  the same table twice (`Survives` lists what ends the process).
* Select two rows and take the second out again: the form holds the second and
  Save writes it over the first (`admin.jsx:131`, against `doc/gui.md:27`). As a form may hold
  anything in the model this is an edit like another; that the cid is then one another car
  has is the fault `duplicate`.
* Nothing checks the cid a user types (`admin.jsx:185`, `259`). Two cars with one cid are
  one to the page: confirm the deletion of one row and the DELETE may take both, with
  the quantity of one type corrected by one; an edit may rewrite the other. `QuantityExact`
  leaves these stories out, and `DeletesMeant` is about cids, not cars.
* Two changes confirmed at once (fault `hasty`), a question answered later than 200 ms
  (`slow`), a page that is not the one connected last (`foreign`), a window loaded again (`reloaded`)
  or a garbled read each leave a quantity that is not the number of cars, and `QuantityExact` leaves them out.
* Clients that do not wait for their replies get, for requests that arrive
  together, one reply; for half a request, the reply of an earlier one, whoever
  sent it. `OwnAnswer` and `Answered` are therefore stated for the clients in `Polite`.
* Primary keys are not checked (`doc/csql.md:37`, `insert.c:40`): `Spec` of `CarStore` inserts
  any, `CountsCover` is stated for clients that keep them.
* EXIT does not ask (`doc/csql.md:192`, `exec.c:61`), and the number of a new order may be
  one that was given out before a deletion (`admin.jsx:202`). These two have no model.

## 6. Not modelled

* The parser (a submodule that is not in the repository), `analyze.c` (not
  called), debug output, help text, the vendored `getopt.c` and `strptime.c`,
  the styles, build files and assets of the client.
* Shell, start-up and log: a terminal of one user, argument parsing, and one log
  call that may come before the log is open.
* The query and statistics pages: forms that compose SELECT statements; of the
  administration page the sheets of car types and orders, import and export.
* In the store: the width of strings and what `memcpy` takes from behind a
  short one, a column name that does not exist in a condition and more values
  than columns (both index past an array).
* In queries: CASE, COUNT(*), the quotient of floats, more than one subquery in
  a statement, aggregates next to plain columns in one expression, the
  comparison of a `Blank` (its place depends on an enum of the parser),
  `print_result`, which is the shell's output, and the format of what
  is written into `json_buffer`.
* In the loop: the number of descriptors of the process, and standard input.

## 7. What is left

The sheet of orders of the administration page; start-up with its two threads.
