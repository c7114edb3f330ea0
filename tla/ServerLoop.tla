----------------------------- MODULE ServerLoop -----------------------------
(***************************************************************************)
(* run_server of server.c: one thread that waits in select, accepts one    *)
(* connection, then reads, executes and answers the clients of client_fds  *)
(* one after the other.  The reply is whatever json_buffer holds.           *)
(*                                                                         *)
(* A connection is named by its client; a client that connects again is    *)
(* another one, for no descriptor is ever closed.  A request goes into the *)
(* socket whole or in two segments; a read takes all that has arrived, be  *)
(* it less or more than one request.  A reply is in the buffers of the     *)
(* connection until the client reads it; the sockets are blocking, so with *)
(* full buffers send waits, and everybody with it.                         *)
(*                                                                         *)
(* The clients in Polite send one valid statement in one segment and read  *)
(* its reply before they send the next, as test-socket.js does; the others *)
(* do as they like, at the same time.                                      *)
(***************************************************************************)
EXTENDS Integers, Sequences, FiniteSets

CONSTANTS
  Clients,    \* the connections made in one life of the server
  Polite,     \* those that wait for their replies
  MaxClient,  \* MAX_CLIENT, 10 in the code
  Backlog,    \* connections the kernel keeps for accept
  Window,     \* replies the buffers of one connection hold
  MaxSent     \* bound: the requests of each client

ASSUME PoliteAssumption == Polite \subseteq Clients
ASSUME TableAssumption == MaxClient \in Nat \ {0}
ASSUME LoadAssumption  == Backlog \in Nat \ {0} /\ MaxSent \in [Clients -> Nat]
ASSUME WindowAssumption == Window \in Nat \ {0}

Free     == "free"     \* client_fds[i] = 0
Listener == "listen"   \* ser_souck_fd
Nobody   == <<"none", 0>>

ASSUME NamesAssumption == Free \notin Clients /\ Listener \notin Clients

VARIABLES
  peer,         \* the other end of a connection: "new", "up" or "gone"
  queue,        \* connections to be accepted
  stream,       \* what has arrived from a client and was not read
  halves,       \* clients with the second segment of a request to send
  mail,         \* replies sent to a client that it did not read yet
  sent,         \* requests begun, per client
  got, inbox,   \* replies a client in Polite has read, and the last of them
  client_fds, ready,  \* ready: ser_fdset as select left it
  at, i,        \* where run_server is, and its loop index
  json_buffer,  \* the client and the number of the request answered last
  reset         \* connections that answered a send with a reset

clientVars == <<peer, queue, stream, halves, sent>>
replyVars  == <<mail, got, inbox>>
serverVars == <<client_fds, ready, at, i, json_buffer, reset>>
vars == <<clientVars, replyVars, serverVars>>

Slots   == 0 .. MaxClient - 1
Answers == (Clients \cup {"none"}) \X Nat
Parts == {"whole", "front", "end", "mute", "exit"}

Init ==
  /\ peer = [c \in Clients |-> "new"]
  /\ queue = <<>>
  /\ stream = [c \in Clients |-> <<>>]
  /\ halves = {}
  /\ mail = [c \in Clients |-> <<>>]
  /\ sent = [c \in Clients |-> 0]
  /\ got = [c \in Polite |-> 0] /\ inbox = [c \in Polite |-> Nobody]
  /\ client_fds = [s \in Slots |-> Free]
  /\ ready = {} /\ at = "scan" /\ i = MaxClient
  /\ json_buffer = Nobody
  /\ reset = {}

-----------------------------------------------------------------------------
\* The clients.

Connect(c) ==
  /\ peer[c] = "new" /\ Len(queue) < Backlog
  /\ peer' = [peer EXCEPT ![c] = "up"]
  /\ queue' = Append(queue, c)
  /\ UNCHANGED <<stream, halves, sent, replyVars, serverVars>>

Arrive(c, n, part) == stream' = [stream EXCEPT ![c] = Append(@, [n |-> n, part |-> part])]

\* A statement in one segment ("whole"), the first of two ("front"), text that
\* parse_sql rejects ("mute"), or EXIT; ("exit").
Request(c, part) ==
  /\ peer[c] = "up" /\ c \notin halves /\ sent[c] < MaxSent[c]
  /\ part \in Parts \ {"end"}
  /\ c \in Polite => got[c] = sent[c] /\ part = "whole"
  /\ sent' = [sent EXCEPT ![c] = @ + 1]
  /\ Arrive(c, sent[c] + 1, part)
  /\ halves' = IF part = "front" THEN halves \cup {c} ELSE halves
  /\ UNCHANGED <<peer, queue, replyVars, serverVars>>

Complete(c) ==
  /\ peer[c] = "up" /\ c \in halves
  /\ Arrive(c, sent[c], "end")
  /\ halves' = halves \ {c}
  /\ UNCHANGED <<peer, queue, sent, replyVars, serverVars>>

\* the client reads a reply
Take(c) ==
  /\ peer[c] = "up" /\ mail[c] # <<>>
  /\ mail' = [mail EXCEPT ![c] = Tail(@)]
  /\ inbox' = [d \in Polite |-> IF d = c THEN Head(mail[c]) ELSE inbox[d]]
  /\ got' = [d \in Polite |-> IF d = c THEN got[d] + 1 ELSE got[d]]
  /\ UNCHANGED <<clientVars, serverVars>>

Leave(c) ==
  /\ peer[c] = "up"
  /\ peer' = [peer EXCEPT ![c] = "gone"]
  /\ halves' = halves \ {c}
  /\ UNCHANGED <<queue, stream, sent, replyVars, serverVars>>

-----------------------------------------------------------------------------
\* The server.

Readable(c) == stream[c] # <<>> \/ peer[c] = "gone"

\* the clients added to ser_fdset
WatchedButLast == {client_fds[s] : s \in Slots \ {MaxClient - 1}} \ {Free}
Watched        == {client_fds[s] : s \in Slots} \ {Free}

\* after the last slot: FD_ZERO, FD_SET and select
Select ==
  LET found == {c \in Watched : Readable(c)}
                 \cup (IF queue = <<>> THEN {} ELSE {Listener})
  IN
  /\ at = "scan" /\ i = MaxClient /\ found # {}
  /\ ready' = found
  /\ at' = "accept"
  /\ UNCHANGED <<clientVars, replyVars, client_fds, i, json_buffer, reset>>

\* the table with c in its first free slot, as it was when it is full; with
\* the wrong descriptor; with c in every free slot
PlacedListener(c) ==
  [s \in Slots |->
     IF client_fds[s] = Free /\ \A t \in 0 .. s - 1 : client_fds[t] # Free
     THEN Listener ELSE client_fds[s]]
PlacedInAll(c) == [s \in Slots |-> IF client_fds[s] = Free THEN c ELSE client_fds[s]]
Placed(c) ==
  [s \in Slots |->
     IF client_fds[s] = Free /\ \A t \in 0 .. s - 1 : client_fds[t] # Free
     THEN c ELSE client_fds[s]]

\* accept may fail, and the loop goes on: for want of a descriptor, and the
\* connection waits on, or because address_len, which nobody initialises, is
\* no length, and the connection is lost.
Accept ==
  /\ at = "accept"
  /\ at' = "scan" /\ i' = 0
  /\ IF Listener \in ready
     THEN \/ client_fds' = Placed(Head(queue)) /\ queue' = Tail(queue)
          \/ UNCHANGED client_fds /\ queue' \in {queue, Tail(queue)}
     ELSE UNCHANGED <<client_fds, queue>>
  /\ UNCHANGED <<peer, stream, halves, sent, replyVars, ready, json_buffer, reset>>

\* FD_ISSET of a client in the table: only what select reported
InTable(c)     == c # Free
IsReady(c)     == c \in ready

Skip ==
  /\ at = "scan" /\ i < MaxClient
  /\ ~IsReady(client_fds[i])
  /\ i' = i + 1
  /\ UNCHANGED <<clientVars, replyVars, client_fds, ready, at, json_buffer, reset>>

\* exec: every statement of the text that is executed as it was meant leaves
\* its answer in json_buffer.  The first one is, when the text starts with it;
\* one cut in two, or after another one, may be taken for something else and
\* leave json_buffer alone.
FirstIsWhole(text) ==
  text[1].part = "whole" \/ (Len(text) > 1 /\ text[2].part = "end")
\* an answer put behind the one that is there
WrittenBehind(c, text) ==
  IF json_buffer = Nobody THEN {<<c, text[k].n>> : k \in DOMAIN text} ELSE {json_buffer}
Written(c, text) ==
  {<<c, text[k].n>> : k \in {k \in DOMAIN text : text[k].part \in {"whole", "end"}}}
    \cup (IF FirstIsWhole(text) THEN {} ELSE {json_buffer})

\* byte_num > 0
Read(c) ==
  /\ at = "scan" /\ i < MaxClient
  /\ client_fds[i] = c /\ IsReady(c) /\ stream[c] # <<>>
  /\ stream' = [stream EXCEPT ![c] = <<>>]
  /\ \/ /\ \E k \in DOMAIN stream[c] : stream[c][k].part = "exit"
        /\ at' = "ended"
        /\ UNCHANGED json_buffer
     \/ /\ stream[c][1].part # "exit"
        /\ at' = "send"
        /\ json_buffer' \in Written(c, stream[c])
  /\ UNCHANGED <<peer, queue, halves, sent, replyVars, client_fds, ready, i, reset>>

\* The reply, after Sleep (100), which is sleep: 100 seconds.  An empty
\* json_buffer sends nothing; a full connection keeps the thread waiting.
Full(c) == json_buffer # Nobody /\ Len(mail[c]) >= Window

SendUp(c) ==
  /\ peer[c] = "up" /\ ~Full(c)
  /\ mail' = IF json_buffer = Nobody THEN mail
             ELSE [mail EXCEPT ![c] = Append(@, json_buffer)]
  /\ at' = "scan"
  /\ UNCHANGED reset

\* A peer that left answers with a reset, and the send after that one ends the
\* process (SIGPIPE).  One that left replies unread has sent its reset before.
SendGone(c) ==
  /\ peer[c] # "up"
  /\ at' \in (IF c \in reset THEN {} ELSE {"scan"})
               \cup (IF c \in reset \/ mail[c] # <<>> THEN {"ended"} ELSE {})
  /\ reset' = reset \cup {c}
  /\ UNCHANGED mail

Send(c) ==
  /\ at = "send" /\ client_fds[i] = c
  /\ SendUp(c) \/ SendGone(c)
  /\ i' = i + 1
  /\ UNCHANGED <<clientVars, got, inbox, client_fds, ready, json_buffer>>

\* byte_num < 0: read reports the reset, once
ReadFails(c) ==
  /\ at = "scan" /\ i < MaxClient
  /\ client_fds[i] = c /\ IsReady(c) /\ stream[c] = <<>> /\ c \in reset
  /\ reset' = reset \ {c}
  /\ i' = i + 1
  /\ UNCHANGED <<clientVars, replyVars, client_fds, ready, at, json_buffer>>

\* byte_num = 0: the slot is free again
Freed == [client_fds EXCEPT ![i] = Free]

Exit(c) ==
  /\ at = "scan" /\ i < MaxClient
  /\ client_fds[i] = c /\ IsReady(c) /\ stream[c] = <<>> /\ c \notin reset
  /\ client_fds' = Freed
  /\ ready' = ready \ {c}
  /\ i' = i + 1
  /\ UNCHANGED <<clientVars, replyVars, at, json_buffer, reset>>

Server ==
  \/ Select \/ Accept \/ Skip
  \/ \E c \in Clients : Read(c) \/ Send(c) \/ ReadFails(c) \/ Exit(c)

-----------------------------------------------------------------------------
Next ==
  \/ Server
  \/ /\ at # "ended"
     /\ \E c \in Clients :
          \/ Connect(c) \/ Complete(c) \/ Take(c) \/ Leave(c)
          \/ \E part \in Parts : Request(c, part)

\* The loop never stops by itself: run_server has its turn again whenever it
\* is not waiting in select or send.  A client that waits for its reply reads
\* it; the others owe nothing.
Spec == Init /\ [][Next]_vars /\ WF_vars(Server) /\ \A c \in Polite : WF_vars(Take(c))

-----------------------------------------------------------------------------
\* The table and the loop index stay in range, each variable of its type.
TypeOK ==
  /\ peer \in [Clients -> {"new", "up", "gone"}]
  /\ queue \in Seq(Clients) /\ Len(queue) <= Backlog
  /\ stream \in [Clients -> Seq([n : Nat, part : Parts])]
  /\ halves \subseteq Clients /\ reset \subseteq Clients
  /\ sent \in [Clients -> Nat]
  /\ mail \in [Clients -> Seq(Answers)]
  /\ \A c \in Clients : Len(mail[c]) <= Window
  /\ got \in [Polite -> Nat] /\ inbox \in [Polite -> Answers]
  /\ json_buffer \in Answers
  /\ client_fds \in [Slots -> Clients \cup {Free}]
  /\ ready \subseteq Clients \cup {Listener}
  /\ at \in {"accept", "scan", "send", "ended"}
  /\ i \in 0 .. MaxClient
  /\ at = "send" => i < MaxClient /\ client_fds[i] # Free

\* A client has one slot at most, and none while it waits to be accepted or
\* when it has not connected: no two visits of a scan are to one client.
SlotInv ==
  /\ \A s, t \in Slots : client_fds[s] = client_fds[t] /\ client_fds[s] # Free => s = t
  /\ \A s \in Slots, c \in Clients :
       client_fds[s] = c =>
         peer[c] # "new" /\ \A k \in DOMAIN queue : queue[k] # c

\* The one thread never waits in read or accept: when it gets to a client that
\* select reported, what select saw is still there, although other clients
\* were read, answered and accepted in between.
NeverBlocks ==
  /\ at = "accept" /\ Listener \in ready => queue # <<>>
  /\ at = "scan" /\ i < MaxClient /\ client_fds[i] # Free /\ IsReady(client_fds[i])
       => Readable(client_fds[i])

\* The thread waits in send for a client that does not read.
Stuck == at = "send" /\ \E c \in Clients : client_fds[i] = c /\ peer[c] = "up" /\ Full(c)

\* Whatever the others do, a client in the table that has something for the
\* server is served, as long as nobody keeps the thread waiting in send for
\* ever: what it sent is read and, when it left, its slot is given back.
InSlot(c) == \E s \in Slots : client_fds[s] = c
Owed(c)   == InSlot(c) /\ Readable(c)
Served ==
  []<>~Stuck => \A c \in Clients : Owed(c) ~> ~Owed(c) \/ at = "ended"

-----------------------------------------------------------------------------
(* What a client that waits for its replies can rely on, whatever the      *)
(* others send at the same time.                                           *)

\* json_buffer is never another client's when it is sent to this one: the k-th
\* reply it gets answers its k-th request.
OwnAnswer ==
  \A c \in Polite :
    /\ got[c] <= sent[c]
    /\ got[c] > 0 => inbox[c] = <<c, got[c]>>

\* And every request of one that is in the table and stays is answered, unless
\* an EXIT or a broken connection ends the process or some client that does
\* not read keeps the thread waiting.
Answered ==
  []<>~Stuck =>
    \A c \in Polite :
      InSlot(c) /\ got[c] < sent[c]
        ~> got[c] = sent[c] \/ peer[c] = "gone" \/ at = "ended"

=============================================================================
