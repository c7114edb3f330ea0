-------------------------- MODULE ServerLoopProofs --------------------------
(***************************************************************************)
(* Theorems about ServerLoop for any number of clients and slots.  The     *)
(* inductive invariant adds to TypeOK and SlotInv what is known of the     *)
(* queue and of the clients select reported.                               *)
(***************************************************************************)
EXTENDS ServerLoop, TLAPS

\* A connection waits once, and only after connect.
QueueInv ==
  \A k, l \in DOMAIN queue :
    /\ peer[queue[k]] # "new"
    /\ queue[k] = queue[l] => k = l

\* What select saw is still there for every slot that was not visited yet, and
\* a client that is accepted is not among the reported ones.
ReadyInv ==
  /\ at = "accept" =>
       /\ ready \subseteq Watched \cup {Listener}
       /\ \A c \in ready \ {Listener} : Readable(c)
       /\ Listener \in ready => queue # <<>>
  /\ at = "scan" =>
       \A s \in Slots : s >= i /\ client_fds[s] \in ready => Readable(client_fds[s])
  /\ at = "send" =>
       \A s \in Slots : s > i /\ client_fds[s] \in ready => Readable(client_fds[s])

IInv == TypeOK /\ SlotInv /\ QueueInv /\ ReadyInv

-----------------------------------------------------------------------------
LEMMA InitIInv == Init => IInv
<1> SUFFICES ASSUME Init PROVE IInv
  OBVIOUS
<1>1. TypeOK
  BY TableAssumption, LoadAssumption, WindowAssumption DEF Init, TypeOK, Nobody, Answers
<1>2. SlotInv /\ QueueInv
  BY NamesAssumption DEF Init, SlotInv, QueueInv
<1>3. ReadyInv
  BY TableAssumption DEF Init, ReadyInv, Slots
<1> QED BY <1>1, <1>2, <1>3 DEF IInv

\* A slot that select reported holds a client.
LEMMA ReportedIsClient ==
  ASSUME TypeOK
  PROVE  \A s \in Slots : client_fds[s] \in ready => client_fds[s] \in Clients
BY NamesAssumption DEF TypeOK, Free, Listener

\* The clients never take back what they sent or their departure.
LEMMA ConnectIInv ==
  ASSUME IInv, NEW c \in Clients, Connect(c)
  PROVE  IInv'
<1>1. /\ queue \in Seq(Clients) /\ queue' = Append(queue, c)
      /\ DOMAIN queue = 1 .. Len(queue) /\ DOMAIN queue' = 1 .. Len(queue) + 1
      /\ Len(queue) \in Nat /\ Len(queue') = Len(queue) + 1 /\ queue' # <<>>
      /\ queue'[Len(queue) + 1] = c
      /\ \A k \in DOMAIN queue : queue'[k] = queue[k]
  <2>1. queue \in Seq(Clients) /\ queue' = Append(queue, c)
    BY DEF IInv, TypeOK, Connect
  <2> QED BY <2>1
<1>2. /\ peer[c] = "new" /\ peer'[c] = "up"
      /\ \A d \in Clients : d # c => peer'[d] = peer[d]
  <2>1. peer \in [Clients -> {"new", "up", "gone"}]
    BY DEF IInv, TypeOK
  <2> QED BY <2>1 DEF Connect
<1>3. TypeOK'
  <2>1. queue' \in Seq(Clients) /\ Len(queue') <= Backlog
    BY <1>1, LoadAssumption DEF Connect
  <2>2. peer' \in [Clients -> {"new", "up", "gone"}]
    BY DEF IInv, TypeOK, Connect
  <2> QED BY <2>1, <2>2 DEF IInv, TypeOK, Connect, replyVars, serverVars
<1>4. \A k \in DOMAIN queue : queue[k] # c /\ queue[k] \in Clients
  BY <1>1, <1>2 DEF IInv, QueueInv
<1>5. \A s \in Slots : client_fds[s] # c
  BY <1>2 DEF IInv, SlotInv
<1>6. QueueInv'
  BY <1>1, <1>2, <1>4 DEF IInv, QueueInv
<1>7. SlotInv'
  <2>1. client_fds' = client_fds
    BY DEF Connect, serverVars
  <2> QED BY <2>1, <1>1, <1>2, <1>5 DEF IInv, SlotInv
<1>8. ReadyInv'
  <2>1. UNCHANGED <<at, i, ready, client_fds, stream>>
    BY DEF Connect, serverVars
  <2>2. \A d \in Clients : Readable(d) => Readable(d)'
    BY <2>1, <1>2 DEF Readable
  <2>3. \A s \in Slots : client_fds[s] \in ready => client_fds[s] \in Clients
    BY ReportedIsClient DEF IInv
  <2>4. ready \ {Listener} \subseteq Clients
    BY DEF IInv, TypeOK
  <2> QED BY <2>1, <2>2, <2>3, <2>4, <1>1 DEF IInv, ReadyInv, Watched
<1> QED BY <1>3, <1>6, <1>7, <1>8 DEF IInv

\* What a client does after connect leaves table, queue and loop alone, and
\* whoever was readable stays so.
LEMMA ClientKeeps ==
  ASSUME IInv, TypeOK',
         UNCHANGED <<queue, client_fds, ready, at, i>>,
         \A d \in Clients : peer[d] # "new" => peer'[d] # "new",
         \A d \in Clients : Readable(d) => Readable(d)'
  PROVE  IInv'
<1>1. SlotInv'
  BY DEF IInv, SlotInv
<1>2. QueueInv'
  <2>1. \A k \in DOMAIN queue : queue[k] \in Clients
    BY DEF IInv, TypeOK
  <2> QED BY <2>1 DEF IInv, QueueInv
<1>3. ReadyInv'
  <2>1. \A s \in Slots : client_fds[s] \in ready => client_fds[s] \in Clients
    BY ReportedIsClient DEF IInv
  <2>2. ready \ {Listener} \subseteq Clients
    BY DEF IInv, TypeOK
  <2> QED BY <2>1, <2>2 DEF IInv, ReadyInv, Watched
<1> QED BY <1>1, <1>2, <1>3 DEF IInv

LEMMA ArriveType ==
  ASSUME TypeOK, NEW c \in Clients, NEW n \in Nat, NEW part \in Parts,
         Arrive(c, n, part)
  PROVE  /\ stream' \in [Clients -> Seq([n : Nat, part : Parts])]
         /\ \A d \in Clients : stream[d] # <<>> => stream'[d] # <<>>
<1> DEFINE piece == [n |-> n, part |-> part]
<1>1. /\ piece \in [n : Nat, part : Parts]
      /\ stream \in [Clients -> Seq([n : Nat, part : Parts])]
  BY DEF TypeOK
<1>2. /\ Append(stream[c], piece) \in Seq([n : Nat, part : Parts])
      /\ Append(stream[c], piece) # <<>>
  <2> DEFINE Pieces == [n : Nat, part : Parts]
  <2>1. stream[c] \in Seq(Pieces) /\ piece \in Pieces
    BY <1>1
  <2> HIDE DEF Pieces, piece
  <2>2. Append(stream[c], piece) \in Seq(Pieces) /\ Len(Append(stream[c], piece)) = Len(stream[c]) + 1
    BY <2>1
  <2>3. Append(stream[c], piece) # <<>>
    BY <2>1
  <2> QED BY <2>2, <2>3 DEF Pieces
<1>3. stream' = [stream EXCEPT ![c] = Append(@, piece)]
  BY DEF Arrive
<1> QED BY <1>1, <1>2, <1>3

LEMMA RequestIInv ==
  ASSUME IInv, NEW c \in Clients, NEW part \in Parts, Request(c, part)
  PROVE  IInv'
<1>1. sent[c] + 1 \in Nat
  BY DEF IInv, TypeOK
<1>2. /\ stream' \in [Clients -> Seq([n : Nat, part : Parts])]
      /\ \A d \in Clients : stream[d] # <<>> => stream'[d] # <<>>
  BY <1>1, ArriveType DEF IInv, Request
<1>3. TypeOK'
  <2>1. sent' \in [Clients -> Nat]
    BY <1>1 DEF IInv, TypeOK, Request
  <2>2. halves' \subseteq Clients
    BY DEF IInv, TypeOK, Request
  <2> QED BY <1>2, <2>1, <2>2 DEF IInv, TypeOK, Request, replyVars, serverVars
<1> QED BY <1>2, <1>3, ClientKeeps DEF Request, serverVars, Readable

LEMMA CompleteIInv ==
  ASSUME IInv, NEW c \in Clients, Complete(c)
  PROVE  IInv'
<1>1. sent[c] \in Nat
  BY DEF IInv, TypeOK
<1>2. /\ stream' \in [Clients -> Seq([n : Nat, part : Parts])]
      /\ \A d \in Clients : stream[d] # <<>> => stream'[d] # <<>>
  BY <1>1, ArriveType DEF IInv, Complete, Parts
<1>3. TypeOK'
  BY <1>2 DEF IInv, TypeOK, Complete, replyVars, serverVars
<1> QED BY <1>2, <1>3, ClientKeeps DEF Complete, serverVars, Readable

\* Reading a reply makes room in the connection.
LEMMA TakeIInv ==
  ASSUME IInv, NEW c \in Clients, Take(c)
  PROVE  IInv'
<1>1. /\ mail \in [Clients -> Seq(Answers)] /\ mail[c] # <<>>
      /\ mail' = [mail EXCEPT ![c] = Tail(mail[c])]
      /\ \A d \in Clients : Len(mail[d]) <= Window
  BY DEF IInv, TypeOK, Take
<1>2. /\ Head(mail[c]) \in Answers /\ Tail(mail[c]) \in Seq(Answers)
      /\ Len(Tail(mail[c])) = Len(mail[c]) - 1 /\ Len(mail[c]) \in Nat
  <2>1. mail[c] \in Seq(Answers) /\ mail[c] # <<>>
    BY <1>1
  <2> QED BY <2>1
<1>3. /\ mail' \in [Clients -> Seq(Answers)]
      /\ \A d \in Clients : Len(mail'[d]) <= Window
  <2>1. mail' \in [Clients -> Seq(Answers)]
    BY <1>1, <1>2
  <2>2. Len(mail'[c]) <= Window
    <3>1. Len(mail'[c]) = Len(mail[c]) - 1 /\ Len(mail[c]) <= Window
      BY <1>1, <1>2
    <3> QED BY <1>2, <3>1, WindowAssumption
  <2>3. \A d \in Clients : d # c => mail'[d] = mail[d]
    BY <1>1
  <2> QED BY <1>1, <2>1, <2>2, <2>3
<1>4. got' \in [Polite -> Nat] /\ inbox' \in [Polite -> Answers]
  BY <1>2 DEF IInv, TypeOK, Take
<1>5. TypeOK'
  BY <1>3, <1>4 DEF IInv, TypeOK, Take, clientVars, serverVars
<1> QED BY <1>5, ClientKeeps DEF Take, clientVars, serverVars, Readable

LEMMA LeaveIInv ==
  ASSUME IInv, NEW c \in Clients, Leave(c)
  PROVE  IInv'
<1>1. /\ peer' \in [Clients -> {"new", "up", "gone"}]
      /\ \A d \in Clients : peer[d] # "new" => peer'[d] # "new"
      /\ \A d \in Clients : peer[d] = "gone" => peer'[d] = "gone"
  BY DEF IInv, TypeOK, Leave
<1>2. TypeOK'
  BY <1>1 DEF IInv, TypeOK, Leave, replyVars, serverVars
<1> QED BY <1>1, <1>2, ClientKeeps DEF Leave, serverVars, Readable

-----------------------------------------------------------------------------
LEMMA SelectIInv ==
  ASSUME IInv, Select
  PROVE  IInv'
<1> DEFINE found == {c \in Watched : Readable(c)}
                      \cup (IF queue = <<>> THEN {} ELSE {Listener})
<1>1. Watched \subseteq Clients
  BY DEF IInv, TypeOK, Watched
<1>2. ready' = found /\ at' = "accept" /\ found \subseteq Clients \cup {Listener}
  BY <1>1 DEF Select
<1>3. TypeOK'
  BY <1>2 DEF IInv, TypeOK, Select, clientVars, replyVars
<1>4. SlotInv' /\ QueueInv'
  BY DEF IInv, SlotInv, QueueInv, Select, clientVars, replyVars
<1>5. ReadyInv'
  <2>1. found \subseteq Watched \cup {Listener}
    OBVIOUS
  <2>2. \A c \in found \ {Listener} : Readable(c)
    OBVIOUS
  <2>3. Listener \in found => queue # <<>>
    BY <1>1, NamesAssumption
  <2>4. UNCHANGED <<queue, client_fds, stream, peer>>
    BY DEF Select, clientVars, replyVars
  <2> QED BY <1>2, <2>1, <2>2, <2>3, <2>4 DEF ReadyInv, Watched, Readable
<1> QED BY <1>3, <1>4, <1>5 DEF IInv

\* A client that is accepted was on the queue, so it has no other slot and
\* select did not report it.
LEMMA AcceptIInv ==
  ASSUME IInv, Accept
  PROVE  IInv'
<1>1. /\ queue \in Seq(Clients) /\ DOMAIN queue = 1 .. Len(queue) /\ Len(queue) \in Nat
      /\ client_fds \in [Slots -> Clients \cup {Free}] /\ ready \subseteq Clients \cup {Listener}
      /\ UNCHANGED <<peer, stream, halves, sent, ready>> /\ at' = "scan" /\ i' = 0
  BY DEF IInv, TypeOK, Accept
<1>2. ready \subseteq Watched \cup {Listener} /\ \A c \in ready \ {Listener} : Readable(c)
  BY DEF IInv, ReadyInv, Accept
<1>3. \A s \in Slots : client_fds[s] \in ready => Readable(client_fds[s])
  <2>1. \A s \in Slots : client_fds[s] \in ready => client_fds[s] \in Clients
    BY ReportedIsClient DEF IInv
  <2> QED BY <1>2, <2>1, NamesAssumption
<1>4. UNCHANGED <<mail, got, inbox, json_buffer, reset>> /\ i' \in 0 .. MaxClient
  BY TableAssumption DEF Accept, replyVars
<1>5. CASE UNCHANGED client_fds /\ queue' \in {queue, Tail(queue)} /\ (queue' = queue \/ queue # <<>>)
  <2>1. /\ queue' \in Seq(Clients) /\ Len(queue') <= Len(queue) /\ Len(queue') \in Nat
        /\ \E e \in {0, 1} : \A k \in DOMAIN queue' :
             k + e \in DOMAIN queue /\ queue'[k] = queue[k + e] /\ k \in Int
    <3>1. CASE queue' = queue
      BY <1>1, <3>1
    <3>2. CASE queue' = Tail(queue) /\ queue # <<>>
      BY <1>1, <3>2
    <3> QED BY <1>5, <3>1, <3>2
  <2>2. TypeOK'
    <3>1. Len(queue') <= Backlog
      BY <1>1, <2>1, LoadAssumption DEF IInv, TypeOK
    <3> QED BY <1>1, <1>4, <1>5, <2>1, <3>1 DEF IInv, TypeOK
  <2>3. SlotInv' /\ QueueInv'
    <3>1. \A k \in DOMAIN queue' : \E l \in DOMAIN queue : queue'[k] = queue[l]
      BY <2>1
    <3>2. SlotInv'
      BY <1>1, <1>5, <3>1 DEF IInv, SlotInv
    <3>3. QueueInv'
      BY <1>1, <2>1 DEF IInv, QueueInv
    <3> QED BY <3>2, <3>3
  <2>4. ReadyInv'
    BY <1>1, <1>3, <1>5 DEF ReadyInv, Readable
  <2> QED BY <2>2, <2>3, <2>4 DEF IInv
<1>6. CASE Listener \in ready /\ client_fds' = Placed(Head(queue)) /\ queue' = Tail(queue)
  <2> DEFINE c == Head(queue)
  <2>1. queue # <<>> /\ queue' = Tail(queue) /\ client_fds' = Placed(c)
    BY <1>6 DEF IInv, ReadyInv, Accept
  <2>2. /\ Len(queue) >= 1 /\ c = queue[1] /\ c \in Clients
        /\ queue' \in Seq(Clients) /\ Len(queue') = Len(queue) - 1
        /\ DOMAIN queue' = 1 .. Len(queue) - 1
        /\ \A k \in DOMAIN queue' : queue'[k] = queue[k + 1] /\ k + 1 \in DOMAIN queue
    BY <1>1, <2>1
  <2>3. \A s \in Slots : client_fds[s] # c
    BY <1>1, <2>2 DEF IInv, SlotInv
  <2>4. c \notin ready
    BY <1>2, <2>2, <2>3, NamesAssumption DEF Watched
  <2>5. /\ client_fds' \in [Slots -> Clients \cup {Free}]
        /\ \A s \in Slots : client_fds'[s] = client_fds[s] \/ client_fds'[s] = c
        /\ \A s, t \in Slots : client_fds'[s] = c /\ client_fds'[t] = c => s = t
    <3>1. client_fds' \in [Slots -> Clients \cup {Free}]
      BY <1>1, <2>1, <2>2 DEF Placed
    <3>2. \A s \in Slots : client_fds'[s] = client_fds[s] \/ client_fds'[s] = c
      BY <2>1 DEF Placed
    <3>3. \A s \in Slots : client_fds'[s] = c =>
            client_fds[s] = Free /\ \A t \in 0 .. s - 1 : client_fds[t] # Free
      BY <2>1, <2>3 DEF Placed
    <3>4. \A s, t \in Slots : s < t => s \in 0 .. t - 1
      BY DEF Slots
    <3>5. \A s, t \in Slots : s < t \/ t < s \/ s = t
      BY DEF Slots
    <3> QED BY <3>1, <3>2, <3>3, <3>4, <3>5
  <2>6. TypeOK'
    <3>1. Len(queue') <= Backlog
      BY <1>1, <2>2, LoadAssumption DEF IInv, TypeOK
    <3> QED BY <1>1, <1>4, <2>2, <2>5, <3>1 DEF IInv, TypeOK
  <2>7. SlotInv'
    <3>1. \A k \in DOMAIN queue' : queue'[k] # c
      BY <1>1, <2>2 DEF IInv, QueueInv
    <3>2. peer[c] # "new"
      BY <1>1, <2>2 DEF IInv, QueueInv
    <3>3. \A s \in Slots, d \in Clients : client_fds[s] = d =>
            peer[d] # "new" /\ \A k \in DOMAIN queue' : queue'[k] # d
      BY <2>2 DEF IInv, SlotInv
    <3>4. \A s, t \in Slots : client_fds'[s] = client_fds'[t] /\ client_fds'[s] # Free => s = t
      BY <2>3, <2>5 DEF IInv, SlotInv
    <3> QED BY <1>1, <2>5, <3>1, <3>2, <3>3, <3>4 DEF SlotInv
  <2>8. QueueInv'
    BY <1>1, <2>2 DEF IInv, QueueInv
  <2>9. ReadyInv'
    BY <1>1, <1>3, <2>4, <2>5 DEF ReadyInv, Readable
  <2> QED BY <2>6, <2>7, <2>8, <2>9 DEF IInv
<1>7. Listener \in ready => queue # <<>>
  BY DEF IInv, ReadyInv, Accept
<1> QED BY <1>5, <1>6, <1>7 DEF Accept

\* Slots that were not visited are as they were when a visit leaves table,
\* streams and report alone.
LEMMA VisitKeeps ==
  ASSUME IInv, TypeOK',
         UNCHANGED <<peer, queue, stream, halves, sent, client_fds, ready>>,
         \/ at = "scan" /\ i < MaxClient
         \/ at = "send",
         at' \in {"scan", "ended"}, i' = i + 1
  PROVE  IInv'
<1>1. SlotInv' /\ QueueInv'
  BY DEF IInv, SlotInv, QueueInv
<1>2. \A s \in Slots : s >= i + 1 => s > i /\ s >= i
  BY DEF IInv, TypeOK, Slots
<1>3. ReadyInv'
  BY <1>2 DEF IInv, ReadyInv, Readable
<1> QED BY <1>1, <1>3 DEF IInv

LEMMA NextSlot == ASSUME TypeOK, i < MaxClient PROVE i + 1 \in 0 .. MaxClient /\ i \in Slots
BY TableAssumption DEF TypeOK, Slots

LEMMA SkipIInv == ASSUME IInv, Skip PROVE IInv'
<1>1. TypeOK'
  BY NextSlot DEF IInv, TypeOK, Skip, clientVars, replyVars
<1> QED BY <1>1, VisitKeeps DEF Skip, clientVars, replyVars

LEMMA ReadFailsIInv == ASSUME IInv, NEW c \in Clients, ReadFails(c) PROVE IInv'
<1>1. TypeOK'
  BY NextSlot DEF IInv, TypeOK, ReadFails, clientVars, replyVars
<1> QED BY <1>1, VisitKeeps DEF ReadFails, clientVars, replyVars

LEMMA SendIInv == ASSUME IInv, NEW c \in Clients, Send(c) PROVE IInv'
<1>1. /\ at' \in {"scan", "ended"} /\ i' = i + 1 /\ i < MaxClient
      /\ UNCHANGED <<peer, queue, stream, halves, sent, client_fds, ready>>
  <2>1. at = "send" /\ UNCHANGED <<clientVars, client_fds, ready>> /\ i' = i + 1
    BY DEF Send
  <2>2. i < MaxClient
    BY <2>1 DEF IInv, TypeOK
  <2>3. at' \in {"scan", "ended"}
    BY DEF Send, SendUp, SendGone
  <2> QED BY <2>1, <2>2, <2>3 DEF clientVars
<1>2. /\ UNCHANGED <<got, inbox, json_buffer>> /\ reset' \subseteq Clients
      /\ \/ mail' = mail
         \/ Len(mail[c]) < Window /\ mail' = [mail EXCEPT ![c] = Append(@, json_buffer)]
  <2>1. Len(mail[c]) \in Int /\ Window \in Int
    BY WindowAssumption DEF IInv, TypeOK
  <2>2. reset' = reset \/ reset' = reset \cup {c}
    BY DEF Send, SendUp, SendGone
  <2>3. UNCHANGED <<got, inbox, json_buffer>>
    BY DEF Send
  <2>4. \/ mail' = mail
        \/ Len(mail[c]) < Window /\ mail' = [mail EXCEPT ![c] = Append(@, json_buffer)]
    <3>1. CASE SendGone(c)
      BY <3>1 DEF SendGone
    <3>2. CASE SendUp(c) /\ json_buffer = Nobody
      BY <3>2 DEF SendUp
    <3>3. CASE SendUp(c) /\ json_buffer # Nobody
      <4>1. ~ (Len(mail[c]) >= Window)
        BY <3>3 DEF SendUp, Full
      <4>2. mail' = [mail EXCEPT ![c] = Append(@, json_buffer)]
        BY <3>3 DEF SendUp
      <4> QED BY <2>1, <4>1, <4>2
    <3> QED BY <3>1, <3>2, <3>3 DEF Send
  <2> QED BY <2>2, <2>3, <2>4 DEF IInv, TypeOK
<1>3. /\ mail' \in [Clients -> Seq(Answers)]
      /\ \A d \in Clients : Len(mail'[d]) <= Window
  <2>1. /\ mail \in [Clients -> Seq(Answers)] /\ json_buffer \in Answers
        /\ \A d \in Clients : Len(mail[d]) <= Window
    BY DEF IInv, TypeOK
  <2>2. ASSUME Len(mail[c]) < Window, mail' = [mail EXCEPT ![c] = Append(@, json_buffer)]
        PROVE  /\ mail' \in [Clients -> Seq(Answers)]
               /\ \A d \in Clients : Len(mail'[d]) <= Window
    <3>1. mail[c] \in Seq(Answers)
      BY <2>1
    <3>2. /\ Append(mail[c], json_buffer) \in Seq(Answers)
          /\ Len(Append(mail[c], json_buffer)) = Len(mail[c]) + 1 /\ Len(mail[c]) \in Nat
      BY <2>1, <3>1
    <3>3. Len(Append(mail[c], json_buffer)) <= Window
      BY <2>2, <3>2, WindowAssumption
    <3>4. mail'[c] = Append(mail[c], json_buffer) /\ \A d \in Clients : d # c => mail'[d] = mail[d]
      BY <2>1, <2>2
    <3>5. mail' \in [Clients -> Seq(Answers)]
      BY <2>1, <2>2, <3>2
    <3> QED BY <2>1, <3>3, <3>4, <3>5
  <2> QED BY <1>2, <2>1, <2>2
<1>4. TypeOK'
  BY <1>1, <1>2, <1>3, NextSlot DEF IInv, TypeOK
<1> QED BY <1>1, <1>4, VisitKeeps DEF Send

\* Reading a client takes nothing from the other slots, for it has only one.
LEMMA ReadIInv == ASSUME IInv, NEW c \in Clients, Read(c) PROVE IInv'
<1>1. /\ at' \in {"send", "ended"} /\ at = "scan" /\ i < MaxClient /\ client_fds[i] = c
      /\ stream' = [stream EXCEPT ![c] = <<>>]
      /\ UNCHANGED <<peer, queue, halves, sent, mail, got, inbox, client_fds, ready, i, reset>>
  BY DEF Read, replyVars
<1>2. i \in Slots
  BY <1>1, NextSlot DEF IInv
<1>3. /\ stream' \in [Clients -> Seq([n : Nat, part : Parts])]
      /\ \A d \in Clients : d # c => stream'[d] = stream[d]
  <2> DEFINE Texts == Seq([n : Nat, part : Parts])
  <2>1. <<>> \in Texts
    OBVIOUS
  <2>2. stream \in [Clients -> Texts]
    BY DEF IInv, TypeOK
  <2> HIDE DEF Texts
  <2>3. stream' \in [Clients -> Texts] /\ \A d \in Clients : d # c => stream'[d] = stream[d]
    BY <1>1, <2>1, <2>2
  <2> QED BY <2>3 DEF Texts
<1>4. TypeOK'
  <2>1. json_buffer' \in Answers
    <3>1. \A k \in DOMAIN stream[c] : <<c, stream[c][k].n>> \in Answers
      <4>1. stream[c] \in Seq([n : Nat, part : Parts])
        BY DEF IInv, TypeOK
      <4>2. \A k \in DOMAIN stream[c] : stream[c][k].n \in Nat
        <5> DEFINE Pieces == [n : Nat, part : Parts]
        <5>1. \A p \in Pieces : p.n \in Nat
          OBVIOUS
        <5>2. stream[c] \in Seq(Pieces)
          BY <4>1
        <5> HIDE DEF Pieces
        <5>3. \A k \in DOMAIN stream[c] : stream[c][k] \in Pieces
          BY <5>2
        <5> QED BY <5>1, <5>3
      <4> QED BY <4>2 DEF Answers
    <3>2. json_buffer' = json_buffer \/ \E k \in DOMAIN stream[c] : json_buffer' = <<c, stream[c][k].n>>
      BY DEF Read, Written
    <3> QED BY <3>1, <3>2 DEF IInv, TypeOK
  <2> QED BY <1>1, <1>3, <2>1, NamesAssumption DEF IInv, TypeOK
<1>5. SlotInv' /\ QueueInv'
  BY <1>1 DEF IInv, SlotInv, QueueInv
<1>6. ReadyInv'
  <2>1. \A s \in Slots : s > i => s >= i /\ client_fds[s] # c
    <3>1. \A s \in Slots : s > i => s >= i /\ s # i
      BY <1>2 DEF Slots
    <3>2. client_fds[i] # Free
      BY <1>1, NamesAssumption
    <3> QED BY <1>1, <1>2, <3>1, <3>2 DEF IInv, SlotInv
  <2>2. \A s \in Slots : client_fds[s] \in ready => client_fds[s] \in Clients
    BY ReportedIsClient DEF IInv
  <2> QED BY <1>1, <1>3, <2>1, <2>2 DEF IInv, ReadyInv, Readable
<1> QED BY <1>4, <1>5, <1>6 DEF IInv

LEMMA ExitIInv == ASSUME IInv, NEW c \in Clients, Exit(c) PROVE IInv'
<1>1. /\ at' = at /\ at = "scan" /\ i < MaxClient /\ i' = i + 1
      /\ client_fds' = [client_fds EXCEPT ![i] = Free] /\ ready' = ready \ {c}
      /\ UNCHANGED <<peer, queue, stream, halves, sent, mail, got, inbox, json_buffer, reset>>
  BY DEF Exit, Freed, clientVars, replyVars
<1>2. /\ client_fds' \in [Slots -> Clients \cup {Free}]
      /\ \A s \in Slots : client_fds'[s] = client_fds[s] \/ client_fds'[s] = Free
      /\ \A s \in Slots : s # i => client_fds'[s] = client_fds[s]
  BY <1>1 DEF IInv, TypeOK
<1>3. TypeOK'
  BY <1>1, <1>2, NextSlot DEF IInv, TypeOK
<1>4. SlotInv' /\ QueueInv'
  <2>1. SlotInv'
    BY <1>1, <1>2, NamesAssumption DEF IInv, SlotInv
  <2> QED BY <1>1, <2>1 DEF IInv, QueueInv
<1>5. ReadyInv'
  <2>1. \A s \in Slots : s >= i + 1 => s >= i /\ s # i
    BY DEF IInv, TypeOK, Slots
  <2> QED BY <1>1, <1>2, <2>1 DEF IInv, ReadyInv, Readable
<1> QED BY <1>3, <1>4, <1>5 DEF IInv

-----------------------------------------------------------------------------
LEMMA NextIInv == IInv /\ [Next]_vars => IInv'
<1> SUFFICES ASSUME IInv, [Next]_vars PROVE IInv'
  OBVIOUS
<1>1. CASE Server
  BY <1>1, SelectIInv, AcceptIInv, SkipIInv, ReadIInv, SendIInv, ReadFailsIInv, ExitIInv
     DEF Server
<1>2. CASE \E c \in Clients : \/ Connect(c) \/ Complete(c) \/ Take(c) \/ Leave(c)
                               \/ \E part \in Parts : Request(c, part)
  BY <1>2, ConnectIInv, CompleteIInv, TakeIInv, LeaveIInv, RequestIInv
<1>3. CASE UNCHANGED vars
  <2>1. /\ UNCHANGED <<peer, queue, stream, halves, sent, mail, got, inbox, client_fds,
                     ready, at, i, json_buffer, reset>>
    BY <1>3 DEF vars, clientVars, replyVars, serverVars
  <2>2. TypeOK'
    BY <2>1 DEF IInv, TypeOK
  <2>3. SlotInv' /\ QueueInv'
    BY <2>1 DEF IInv, SlotInv, QueueInv
  <2>4. ReadyInv'
    BY <2>1 DEF IInv, ReadyInv, Readable, Watched
  <2> QED BY <2>2, <2>3, <2>4 DEF IInv
<1> QED BY <1>1, <1>2, <1>3 DEF Next

\* The inductive invariant of the server under any clients.
THEOREM Invariance == Spec => []IInv
BY InitIInv, NextIInv, PTL DEF Spec

\* The table, the loop index, the streams and the report keep their types
\* (run_server never indexes client_fds out of range).
THEOREM TypeCorrect == Spec => []TypeOK
<1>1. IInv => TypeOK
  BY DEF IInv
<1> QED BY <1>1, Invariance, PTL

\* No connection ever has two slots, nor a slot before it was accepted.
THEOREM OneSlot == Spec => []SlotInv
<1>1. IInv => SlotInv
  BY DEF IInv
<1> QED BY <1>1, Invariance, PTL

\* The one thread of run_server never waits in read or accept: what select
\* reported is still there when its turn comes.
THEOREM NeverWaits == Spec => []NeverBlocks
<1>1. IInv => NeverBlocks
  <2> SUFFICES ASSUME IInv PROVE NeverBlocks
    OBVIOUS
  <2>1. at = "scan" /\ i < MaxClient => i \in Slots /\ i >= i
    <3>1. TypeOK /\ i \in 0 .. MaxClient
      BY DEF IInv, TypeOK
    <3> QED BY <3>1, NextSlot
  <2> QED BY <2>1 DEF IInv, ReadyInv, NeverBlocks, IsReady
<1> QED BY <1>1, Invariance, PTL

-----------------------------------------------------------------------------
(* Clients that wait for their replies, among others that do not.  A       *)
(* request is in the stream, in json_buffer about to be sent, in the mail  *)
(* of its client, or answered.                                             *)

\* Where the one request of c is that is not answered.
Asked(c)  == \/ stream[c] = <<>>
             \/ /\ stream[c] = <<[n |-> sent[c], part |-> "whole"]>>
                /\ got[c] + 1 = sent[c] /\ mail[c] = <<>>
Mailed(c) == \/ mail[c] = <<>>
             \/ mail[c] = << <<c, sent[c]>> >> /\ got[c] + 1 = sent[c]
Due(c)    == /\ json_buffer = <<c, sent[c]>> /\ got[c] + 1 = sent[c]
             /\ stream[c] = <<>> /\ mail[c] = <<>>

AnswerInv ==
  \A c \in Polite :
    /\ c \notin halves
    /\ got[c] <= sent[c]
    /\ got[c] > 0 => inbox[c] = <<c, got[c]>>
    /\ Asked(c) /\ Mailed(c)
    /\ at = "send" /\ client_fds[i] = c => Due(c)

LEMMA InitAnswerInv == Init => AnswerInv
BY PoliteAssumption DEF Init, AnswerInv, Asked, Mailed

\* What is left alone by the steps that neither send nor read a request.
LEMMA AnswerKeeps ==
  ASSUME AnswerInv, UNCHANGED <<stream, sent, mail, got, inbox, json_buffer>>,
         halves' \subseteq halves,
         \/ UNCHANGED <<at, i, client_fds>>
         \/ at' # "send"
  PROVE  AnswerInv'
BY DEF AnswerInv, Asked, Mailed, Due

\* A step of client c leaves the others what they have.
LEMMA OthersKeep ==
  ASSUME AnswerInv, NEW c,
         \A d \in Polite : d # c =>
           /\ stream'[d] = stream[d] /\ sent'[d] = sent[d] /\ mail'[d] = mail[d]
           /\ got'[d] = got[d] /\ inbox'[d] = inbox[d] /\ (d \in halves' => d \in halves),
         \/ UNCHANGED <<at, i, client_fds, json_buffer>>
         \/ at' # "send"
         \/ client_fds'[i'] = c,
         c \in Polite =>
           /\ c \notin halves'
           /\ got'[c] <= sent'[c]
           /\ got'[c] > 0 => inbox'[c] = <<c, got'[c]>>
           /\ Asked(c)' /\ Mailed(c)'
           /\ at' = "send" /\ client_fds'[i'] = c => Due(c)'
  PROVE  AnswerInv'
BY DEF AnswerInv, Asked, Mailed, Due

LEMMA RequestAnswerInv ==
  ASSUME IInv, AnswerInv, NEW c \in Clients, NEW part \in Parts, Request(c, part)
  PROVE  AnswerInv'
<1>1. /\ sent \in [Clients -> Nat] /\ stream \in [Clients -> Seq([n : Nat, part : Parts])]
      /\ got \in [Polite -> Nat]
  BY DEF IInv, TypeOK
<1>2. /\ sent'[c] = sent[c] + 1
      /\ stream'[c] = Append(stream[c], [n |-> sent[c] + 1, part |-> part])
      /\ \A d \in Clients : d # c => sent'[d] = sent[d] /\ stream'[d] = stream[d]
      /\ \A d \in Clients : d # c => (d \in halves' => d \in halves)
      /\ UNCHANGED <<mail, got, inbox, at, i, client_fds, json_buffer>>
  BY <1>1 DEF Request, Arrive, replyVars, serverVars
<1>3. ASSUME c \in Polite
      PROVE  /\ c \notin halves'
             /\ got'[c] <= sent'[c]
             /\ got'[c] > 0 => inbox'[c] = <<c, got'[c]>>
             /\ Asked(c)' /\ Mailed(c)'
             /\ at' = "send" /\ client_fds'[i'] = c => Due(c)'
  <2>1. got[c] = sent[c] /\ part = "whole" /\ got[c] \in Nat
    BY <1>1, <1>3 DEF Request
  <2>2. c \notin halves'
    BY <2>1 DEF Request
  <2>3. stream[c] = <<>> /\ mail[c] = <<>> /\ ~ (at = "send" /\ client_fds[i] = c)
    <3>1. got[c] + 1 # sent[c]
      BY <1>1, <2>1
    <3>2. /\ Asked(c) /\ Mailed(c)
          /\ at = "send" /\ client_fds[i] = c => Due(c)
      BY <1>3 DEF AnswerInv
    <3> QED BY <3>1, <3>2 DEF Asked, Mailed, Due
  <2>4. stream'[c] = <<[n |-> sent'[c], part |-> "whole"]>>
    BY <1>2, <2>1, <2>3
  <2>5. got'[c] + 1 = sent'[c] /\ got'[c] <= sent'[c] /\ mail'[c] = <<>>
    BY <1>2, <2>1, <2>3
  <2>6. got'[c] > 0 => inbox'[c] = <<c, got'[c]>>
    BY <1>2, <1>3 DEF AnswerInv
  <2> QED BY <1>2, <2>2, <2>3, <2>4, <2>5, <2>6 DEF Asked, Mailed
<1> QED BY <1>2, <1>3, OthersKeep, PoliteAssumption

\* Only clients that do not wait send a second segment.
LEMMA CompleteAnswerInv ==
  ASSUME IInv, AnswerInv, NEW c \in Clients, Complete(c)
  PROVE  AnswerInv'
<1>1. c \notin Polite
  BY DEF AnswerInv, Complete
<1>2. /\ \A d \in Clients : d # c => stream'[d] = stream[d]
      /\ UNCHANGED <<sent, mail, got, inbox, at, i, client_fds, json_buffer>>
      /\ halves' \subseteq halves
  BY DEF Complete, Arrive, replyVars, serverVars, IInv, TypeOK
<1> QED BY <1>1, <1>2, OthersKeep, PoliteAssumption

LEMMA TakeAnswerInv ==
  ASSUME IInv, AnswerInv, NEW c \in Clients, Take(c)
  PROVE  AnswerInv'
<1>1. /\ mail[c] # <<>> /\ mail' = [mail EXCEPT ![c] = Tail(mail[c])]
      /\ mail \in [Clients -> Seq(Answers)]
      /\ \A d \in Polite : d # c => inbox'[d] = inbox[d] /\ got'[d] = got[d]
      /\ c \in Polite => inbox'[c] = Head(mail[c]) /\ got'[c] = got[c] + 1
      /\ UNCHANGED <<halves, stream, sent, at, i, client_fds, json_buffer>>
  BY DEF Take, clientVars, serverVars, IInv, TypeOK
<1>2. mail'[c] = Tail(mail[c]) /\ \A d \in Clients : d # c => mail'[d] = mail[d]
  BY <1>1
<1>3. ASSUME c \in Polite
      PROVE  /\ c \notin halves'
             /\ got'[c] <= sent'[c]
             /\ got'[c] > 0 => inbox'[c] = <<c, got'[c]>>
             /\ Asked(c)' /\ Mailed(c)'
             /\ at' = "send" /\ client_fds'[i'] = c => Due(c)'
  <2>1. mail[c] = << <<c, sent[c]>> >> /\ got[c] + 1 = sent[c] /\ stream[c] = <<>>
    BY <1>1, <1>3 DEF AnswerInv, Asked, Mailed
  <2>2. Head(mail[c]) = <<c, sent[c]>> /\ Tail(mail[c]) = <<>>
    BY <2>1
  <2>3. got'[c] = sent[c] /\ inbox'[c] = <<c, sent[c]>> /\ mail'[c] = <<>>
    BY <1>1, <1>2, <1>3, <2>1, <2>2
  <2>4. ~ (at = "send" /\ client_fds[i] = c) /\ c \notin halves /\ sent[c] \in Nat
    BY <1>1, <1>3 DEF AnswerInv, Due, IInv, TypeOK
  <2> QED BY <1>1, <2>1, <2>3, <2>4 DEF Asked, Mailed
<1> QED BY <1>1, <1>2, <1>3, OthersKeep, PoliteAssumption

\* A text that is one whole statement leaves its own answer in json_buffer.
LEMMA ReadAnswerInv ==
  ASSUME IInv, AnswerInv, NEW c \in Clients, Read(c)
  PROVE  AnswerInv'
<1>1. /\ stream' = [stream EXCEPT ![c] = <<>>] /\ stream[c] # <<>>
      /\ client_fds[i] = c
      /\ UNCHANGED <<halves, sent, mail, got, inbox, client_fds, i>>
  BY DEF Read, replyVars
<1>2. stream'[c] = <<>> /\ \A d \in Clients : d # c => stream'[d] = stream[d]
  <2>1. DOMAIN stream = Clients
    BY DEF IInv, TypeOK
  <2> QED BY <1>1, <2>1
<1>3. ASSUME c \in Polite
      PROVE  /\ c \notin halves'
             /\ got'[c] <= sent'[c]
             /\ got'[c] > 0 => inbox'[c] = <<c, got'[c]>>
             /\ Asked(c)' /\ Mailed(c)'
             /\ at' = "send" /\ client_fds'[i'] = c => Due(c)'
  <2>1. /\ stream[c] = <<[n |-> sent[c], part |-> "whole"]>>
        /\ got[c] + 1 = sent[c] /\ mail[c] = <<>>
    BY <1>1, <1>3 DEF AnswerInv, Asked
  <2>2. /\ DOMAIN stream[c] = {1} /\ stream[c][1].part = "whole" /\ stream[c][1].n = sent[c]
        /\ Len(stream[c]) = 1
    BY <2>1
  <2>3. Written(c, stream[c]) = {<<c, sent[c]>>}
    BY <2>2 DEF Written, FirstIsWhole
  <2>4. at' = "send" => json_buffer' = <<c, sent[c]>>
    BY <2>3 DEF Read
  <2>5. /\ c \notin halves /\ got[c] <= sent[c]
        /\ got[c] > 0 => inbox[c] = <<c, got[c]>>
    BY <1>3 DEF AnswerInv
  <2> QED BY <1>1, <1>2, <2>1, <2>4, <2>5 DEF Asked, Mailed, Due
<1> QED BY <1>1, <1>2, <1>3, OthersKeep, PoliteAssumption

LEMMA SendAnswerInv ==
  ASSUME IInv, AnswerInv, NEW c \in Clients, Send(c)
  PROVE  AnswerInv'
<1>1. /\ at = "send" /\ client_fds[i] = c /\ at' # "send"
      /\ UNCHANGED <<halves, stream, sent, got, inbox>>
      /\ mail' = mail \/ mail' = [mail EXCEPT ![c] = Append(@, json_buffer)]
  BY DEF Send, SendUp, SendGone, clientVars
<1>2. \A d \in Clients : d # c => mail'[d] = mail[d]
  BY <1>1 DEF IInv, TypeOK
<1>3. ASSUME c \in Polite
      PROVE  /\ c \notin halves'
             /\ got'[c] <= sent'[c]
             /\ got'[c] > 0 => inbox'[c] = <<c, got'[c]>>
             /\ Asked(c)' /\ Mailed(c)'
             /\ at' = "send" /\ client_fds'[i'] = c => Due(c)'
  <2>1. /\ json_buffer = <<c, sent[c]>> /\ got[c] + 1 = sent[c]
        /\ stream[c] = <<>> /\ mail[c] = <<>>
    BY <1>1, <1>3 DEF AnswerInv, Due
  <2>2. mail'[c] = <<>> \/ mail'[c] = << <<c, sent[c]>> >>
    <3>1. CASE mail' = mail
      BY <2>1, <3>1
    <3>2. CASE mail' = [mail EXCEPT ![c] = Append(@, json_buffer)]
      <4>1. mail'[c] = Append(mail[c], json_buffer)
        BY <3>2 DEF IInv, TypeOK
      <4>2. Append(<<>>, <<c, sent[c]>>) = << <<c, sent[c]>> >>
        OBVIOUS
      <4> QED BY <2>1, <4>1, <4>2
    <3> QED BY <1>1, <3>1, <3>2
  <2>3. /\ c \notin halves /\ got[c] <= sent[c]
        /\ got[c] > 0 => inbox[c] = <<c, got[c]>>
    BY <1>3 DEF AnswerInv
  <2> QED BY <1>1, <2>1, <2>2, <2>3 DEF Asked, Mailed
<1> QED BY <1>1, <1>2, <1>3, OthersKeep, PoliteAssumption

LEMMA NextAnswerInv == IInv /\ AnswerInv /\ [Next]_vars => AnswerInv'
<1> SUFFICES ASSUME IInv, AnswerInv, [Next]_vars PROVE AnswerInv'
  OBVIOUS
<1>1. CASE Select \/ Accept \/ Skip
  BY <1>1, AnswerKeeps DEF Select, Accept, Skip, clientVars, replyVars
<1>2. ASSUME NEW c \in Clients, Read(c) \/ Send(c) PROVE AnswerInv'
  BY <1>2, ReadAnswerInv, SendAnswerInv
<1>3. ASSUME NEW c \in Clients, ReadFails(c) \/ Exit(c) PROVE AnswerInv'
  BY <1>3, AnswerKeeps DEF ReadFails, Exit, clientVars, replyVars
<1>4. ASSUME NEW c \in Clients, Connect(c) \/ Leave(c) PROVE AnswerInv'
  BY <1>4, AnswerKeeps DEF Connect, Leave, replyVars, serverVars
<1>5. ASSUME NEW c \in Clients,
             Complete(c) \/ Take(c) \/ \E part \in Parts : Request(c, part)
      PROVE  AnswerInv'
  BY <1>5, CompleteAnswerInv, TakeAnswerInv, RequestAnswerInv
<1>6. CASE UNCHANGED vars
  BY <1>6, AnswerKeeps DEF vars, clientVars, replyVars, serverVars
<1> QED BY <1>1, <1>2, <1>3, <1>4, <1>5, <1>6 DEF Next, Server

\* The k-th reply a waiting client gets answers its k-th request, whatever
\* other clients send at the same time, although run_server answers everybody
\* from the one json_buffer.
THEOREM OwnAnswers == Spec => []OwnAnswer
<1>1. AnswerInv => OwnAnswer
  BY DEF AnswerInv, OwnAnswer
<1>2. Spec => [](IInv /\ AnswerInv)
  BY InitIInv, InitAnswerInv, NextIInv, NextAnswerInv, PTL DEF Spec
<1> QED BY <1>1, <1>2, PTL

=============================================================================
