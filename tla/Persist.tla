------------------------------ MODULE Persist ------------------------------
(***************************************************************************)
(* The store of CarStore with its data file: read_db at start-up,          *)
(* write_db on SAVE and EXIT, and a process that may be killed at any      *)
(* moment, in the middle of a write too.                                   *)
(*                                                                         *)
(* The file is the sequence of its records: a tag (TYPE_CAR, TYPE_INFO,    *)
(* TYPE_ORDER) and the columns, in the order write_recursively visits the  *)
(* nodes.  stdio writes when it likes, so what a kill leaves behind is any  *)
(* prefix of the bytes: some whole records, and one that was cut.           *)
(***************************************************************************)
EXTENDS CarStore, Sequences

ASSUME ZeroAssumption == 0 \in Codes /\ 0 \in Quantities /\ 0 \in Cids /\ 0 \in Oids

VARIABLES
  disk,     \* the records of the file database_path names
  phase,    \* "run", "write" (between fopen and fclose) or "down"
  exiting,  \* the write belongs to an EXIT
  target    \* history: the records of the last write that was begun

allvars == <<vars, disk, phase, exiting, target>>

-----------------------------------------------------------------------------
\* Writing: every node after its parent, a subtree before the next sibling.

Path(r) ==
  IF r \in types THEN <<r.at, 0, 0>>
  ELSE IF r \in cars THEN <<r.up, r.at, 0>> ELSE <<CarAt(r.up).up, r.up, r.at>>
PathAfterChildren(p, q) ==
  LET End(n) == IF n = 0 THEN MaxNodes + 1 ELSE n
  IN  p[1] < q[1] \/ (p[1] = q[1] /\ Lex(End(p[2]), End(p[3]), End(q[2]), End(q[3])))
PathBefore(p, q) ==
  p[1] < q[1] \/ (p[1] = q[1] /\ Lex(p[2], p[3], q[2], q[3]))

Nodes   == types \cup cars \cup orders
Rank(r) == Cardinality({s \in Nodes : PathBefore(Path(s), Path(r))})

Record(r) ==
  IF r \in types THEN [tag |-> "CAR_TYPE", cols |-> <<r.code, r.quantity>>]
  ELSE IF r \in cars THEN [tag |-> "CAR_INFO", cols |-> <<r.cid, r.code>>]
  ELSE [tag |-> "RENT_ORDER", cols |-> <<r.oid, r.cid>>]

Dump == [k \in 1 .. Cardinality(Nodes) |->
           Record(CHOOSE r \in Nodes : Rank(r) = k - 1)]

\* The file a write of rs leaves when k whole records got out and, when there
\* was a next one, its first n columns: fread leaves the others zero.
Cut(rs, k, n) ==
  SubSeq(rs, 1, k) \o
    IF k = Len(rs) \/ n = 0 THEN <<>>
    ELSE <<[rs[k + 1] EXCEPT !.cols = [i \in 1 .. 2 |-> IF i < n THEN @[i] ELSE 0]]>>

Cuts(rs) == {Cut(rs, k, n) : k \in 0 .. Len(rs), n \in 0 .. 2}

-----------------------------------------------------------------------------
\* Reading: record i becomes the node at address i; a car hangs under ct_ptr,
\* an order under ci_ptr, the last node of the level above.

LastOf(tag, i) ==
  CHOOSE j \in 0 .. i - 1 :
    /\ j = 0 \/ disk[j].tag = tag
    /\ \A k \in j + 1 .. i - 1 : disk[k].tag # tag

Tagged(tag) == {i \in DOMAIN disk : disk[i].tag = tag}

\* a reader that leaves its pointer on the first node of a level, and one that
\* counts every record for every table
LoadedIcntAll     == [ti \in Tables |-> Len(disk) % UMOD]
LoadedIcnt        == [ti \in Tables |-> Cardinality(Tagged(ti)) % UMOD]
HomeFirst(tag, i) == CHOOSE j \in Tagged(tag) : \A k \in Tagged(tag) : j <= k
Home(tag, i)      == LastOf(tag, i)

\* main, start: the globals are zero, then read_db runs
Start ==
  /\ phase = "down"
  /\ phase' = "run" /\ exiting' = FALSE
  /\ types' = {[at |-> i, up |-> Sentinel,
                code |-> disk[i].cols[1], quantity |-> disk[i].cols[2]] :
                 i \in Tagged("CAR_TYPE")}
  /\ cars' = {[at |-> i, up |-> Home("CAR_TYPE", i),
               cid |-> disk[i].cols[1], code |-> disk[i].cols[2]] :
                i \in Tagged("CAR_INFO")}
  /\ orders' = {[at |-> i, up |-> Home("CAR_INFO", i),
                 oid |-> disk[i].cols[1], cid |-> disk[i].cols[2]] :
                 i \in Tagged("RENT_ORDER")}
  /\ ct_ptr' = LastOf("CAR_TYPE", Len(disk) + 1)
  /\ brk' = Len(disk)
  /\ icnt' = LoadedIcnt
  /\ inserting' = NoTable /\ ccnt' = 0 /\ reply' = "none"
  /\ UNCHANGED <<disk, target>>

-----------------------------------------------------------------------------
Statement ==
  /\ phase = "run"
  /\ Next
  /\ UNCHANGED <<disk, phase, exiting, target>>

\* The memory of the process is gone.
Gone ==
  /\ phase' = "down" /\ exiting' = FALSE
  /\ types' = {} /\ cars' = {} /\ orders' = {}
  /\ ct_ptr' = Sentinel /\ brk' = 0 /\ icnt' = [ti \in Tables |-> 0]
  /\ inserting' = NoTable /\ ccnt' = 0 /\ reply' = "none"
  /\ UNCHANGED target

\* SAVE; and EXIT; when the file cannot be opened: EXIT ends the process all
\* the same, before the reply is sent
OpenFails(exit) ==
  /\ phase = "run" /\ inserting = NoTable
  /\ UNCHANGED disk
  /\ IF exit THEN Gone
     ELSE reply' = "error" /\ UNCHANGED <<store, inserting, ccnt, phase, exiting, target>>

\* a write that opens the file without emptying it
Overwritten == disk
\* fopen (db, "wb") empties the file
Truncated   == <<>>

WriteBegin(exit) ==
  /\ phase = "run" /\ inserting = NoTable
  /\ phase' = "write" /\ exiting' = exit
  /\ disk' = Truncated
  /\ target' = Dump
  /\ UNCHANGED vars

\* some more of it
Onward == {Cut(target, k, n) : k \in Len(disk) .. Len(target), n \in 0 .. 2}

\* what stdio has handed to the file so far
Flush ==
  /\ phase = "write"
  /\ disk' \in Onward
  /\ UNCHANGED <<vars, phase, exiting, target>>

\* fclose, and "success" whatever fwrite and fclose returned: on a disk that is
\* full any part of the rest, or nothing of it, gets into the file
WriteEnd ==
  /\ phase = "write"
  /\ disk' \in {disk} \cup Onward
  /\ IF exiting THEN Gone
     ELSE /\ phase' = "run" /\ reply' = "success"
          /\ UNCHANGED <<store, inserting, ccnt, exiting, target>>

\* the process is killed: only the file is left
Kill ==
  /\ phase # "down"
  /\ Gone
  /\ UNCHANGED disk

PInit ==
  /\ Init
  /\ disk = <<>> /\ phase = "down" /\ exiting = FALSE /\ target = <<>>

PNext ==
  \/ Start
  \/ Statement
  \/ \E exit \in BOOLEAN : OpenFails(exit) \/ WriteBegin(exit)
  \/ Flush
  \/ WriteEnd
  \/ Kill

PSpec == PInit /\ [][PNext]_allvars

-----------------------------------------------------------------------------
\* The store's variables and the file hold what their C types allow; the
\* counters as unsigned ints after a load too.
PTypeOK ==
  /\ TypeOK
  /\ disk \in Seq([tag: Tables, cols: Seq(Codes \cup Quantities \cup Cids \cup Oids)])
  /\ phase \in {"run", "write", "down"}
  /\ exiting \in BOOLEAN

\* A file, cut or not, never makes read_db follow a null ci_ptr or ro_ptr: a
\* car comes after a car type, and an order after a car of the last car type.
ParentsFirst ==
  \A i \in DOMAIN disk :
    /\ disk[i].tag = "CAR_INFO" => LastOf("CAR_TYPE", i) # 0
    /\ disk[i].tag = "RENT_ORDER" => LastOf("CAR_INFO", i) > LastOf("CAR_TYPE", i)

\* read_db undoes write_recursively: the store read from a file would be
\* written back as the same records, in the same order.
RoundTrip == [][Start => Dump' = disk]_allvars

\* The file never mixes two writes: it is one of them, up to a point.
OneWrite == disk \in Cuts(target)

\* A restart forgets what the counters and the tail went through: the counts
\* are exact again and car types can be inserted again.
RestartRepairs ==
  [][Start => /\ icnt'["CAR_TYPE"]   = Cardinality(types') % UMOD
              /\ icnt'["CAR_INFO"]   = Cardinality(cars') % UMOD
              /\ icnt'["RENT_ORDER"] = Cardinality(orders') % UMOD
              /\ types' = {} => ct_ptr' = Sentinel]_allvars

=============================================================================
