------------------------------ MODULE ShmChannel -------------------------------
(***************************************************************************)
(* A server of the shared memory (SHMServer.hpp) in CS mode and its        *)
(* clients (SHMConnection.hpp): the table of channels in the shared        *)
(* memory, the login, the heartbeats, and requests with their answers.     *)
(*                                                                         *)
(* A client runs again under the same name.  The rings are the bounded     *)
(* FIFOs of SPSCQueue, and a reset of one is a single step.  What finds a  *)
(* ring or a queue full is lost, and nobody sends it again.  A tick is a   *)
(* stretch of time in which the server and every client that runs turn     *)
(* their loops.                                                            *)
(***************************************************************************)
EXTENDS Integers, Sequences

CONSTANTS
  Clients,      \* clients, by name
  NoClient,     \* an empty name
  NumChannels,  \* ChannelSize
  RingCap,      \* messages a ring can hold
  QueueCap,     \* messages a queue inside a client or the server can hold
  InitData,     \* what Push_Init_Data pushes (OrderServer: funds and positions)
  Interval,     \* Heartbeat_Interval, in ticks
  Margin,       \* how much earlier the client sends its heartbeat
  MaxStarts,    \* bound: runs of each client
  MaxAsks,      \* bound: requests, each restart of a process taking one away
  MaxRestarts   \* bound: restarts of the server

ASSUME ShmAssumption ==
  /\ NoClient \notin Clients
  /\ NumChannels \in Nat \ {0}
  /\ {RingCap, QueueCap, Interval, Margin, MaxAsks, MaxRestarts} \subseteq Nat
  /\ MaxStarts \in [Clients -> Nat]

Channels == 0 .. NumChannels - 1

\* A request bears a number of its own, and its answer the same; the rest is 0.
Numbers == 1 .. MaxAsks

Message(type, for, id) == [type |-> type, for |-> for, id |-> id]
Types    == {"data", "login", "server_ack", "client_ack", "heartbeat"}
Messages == [type : Types, for : Clients \cup {NoClient}, id : Numbers \cup {0}]
Login     == Message("login", NoClient, 0)
ServerAck == Message("server_ack", NoClient, 0)
ClientAck == Message("client_ack", NoClient, 0)
HeartBeat == Message("heartbeat", NoClient, 0)
None      == NumChannels

\* What the queues of the server hold.
Requests == [channel : Channels, for : Clients, id : Numbers]

ASSUME InitDataAssumption == InitData \in Seq([type : {"data"}, for : {NoClient}, id : {0}])

VARIABLES
  name,        \* ChannelName of each channel
  connected,   \* IsConnected
  age,         \* ticks since TimeStamp, counted while the client is connected
  up, down,    \* the rings of each channel: to the server, to the client
  handling,    \* the channel whose message is being handled, or None
  msg,         \* m_Msg, while it is handled
  requests,    \* m_pRecvQueue of the server
  answers,     \* m_pSendQueue of the server
  pc,          \* where each client is
  at,          \* the channel each client looks at, or took
  idle,        \* ticks since its m_TimeStamp
  sendType,    \* MsgType of its m_DataMsg
  outbox,      \* the requests in its m_pSendQueue
  waiting,     \* history: its requests that are not answered yet
  mistyped,    \* history: its requests that went out as something else
  starts, asks, restarts,   \* counters for the bounds
  owners,      \* history: who took the channel, and may still use it
  raced,       \* history: taken by one who found it empty before another took it
  outlived,    \* history: in use when the server started again
  dropped      \* history: open requests that were lost, or their answers, in something full

tableVars  == <<name, connected, age>>
serverVars == <<handling, msg, requests, answers, restarts>>
clientVars == <<pc, at, idle, sendType, outbox, waiting, mistyped, starts, asks>>
history    == <<owners, raced, outlived>>
vars == <<tableVars, up, down, serverVars, clientVars, history, dropped>>

Init ==
  /\ name = [i \in Channels |-> NoClient]
  /\ connected = [i \in Channels |-> FALSE]
  /\ age = [i \in Channels |-> 0]
  /\ up = [i \in Channels |-> <<>>] /\ down = [i \in Channels |-> <<>>]
  /\ handling = None /\ msg = HeartBeat /\ requests = <<>> /\ answers = <<>>
  /\ pc = [c \in Clients |-> "off"] /\ at = [c \in Clients |-> 0]
  /\ idle = [c \in Clients |-> 0]
  /\ sendType = [c \in Clients |-> "data"]
  /\ outbox = [c \in Clients |-> <<>>] /\ waiting = [c \in Clients |-> {}]
  /\ mistyped = [c \in Clients |-> {}] /\ dropped = {}
  /\ starts = [c \in Clients |-> 0] /\ asks = 0 /\ restarts = 0
  /\ owners = [i \in Channels |-> {}]
  /\ raced = [i \in Channels |-> FALSE] /\ outlived = [i \in Channels |-> FALSE]

\* Push: what finds the queue full is lost.
Push(queue, cap, m) == IF Len(queue) < cap THEN Append(queue, m) ELSE queue

\* Whether the bound on requests leaves room for n restarts, of the server or
\* of a client.
Spare(n) == asks + n <= MaxAsks

Open == UNION {waiting[c] : c \in Clients}

\* The open requests that are lost when request id, or its answer, is pushed.
Lost(queue, cap, id) == IF Len(queue) < cap THEN {} ELSE Open \cap {id}

-----------------------------------------------------------------------------
(* The start of a client.                                                  *)

\* The first channel that is empty or bears the name of c is the one for it.
ChannelFor(c, i) ==
  /\ name[i] \in {NoClient, c}
  /\ \A j \in 0 .. i - 1 : name[j] \notin {NoClient, c}

\* The process starts, with nothing left of an earlier run (ClientEnds), and
\* Connect finds it a channel.  Without one the process ends at once, and has
\* changed nothing.
Starts(c) ==
  /\ pc[c] = "off" /\ starts[c] < MaxStarts[c] /\ Spare(starts[c])
  /\ starts' = [starts EXCEPT ![c] = @ + 1]
  /\ \E i \in Channels :
       /\ ChannelFor(c, i)
       /\ at' = [at EXCEPT ![c] = i]
       /\ pc' = [pc EXCEPT ![c] = IF name[i] = c THEN "reset" ELSE "take"]
  /\ UNCHANGED <<tableVars, up, down, serverVars, idle, sendType, outbox, waiting, mistyped,
                 asks, history, dropped>>

\* Mutant: the name is not written.
NamedNot(c) == name

Named(c) == [name EXCEPT ![at[c]] = c]

\* The client writes its name into the channel it found empty, whoever may
\* have done so since.
Takes(c) ==
  /\ pc[c] = "take"
  /\ LET i == at[c] IN
     /\ name' = Named(c)
     /\ up' = [up EXCEPT ![i] = <<>>] /\ down' = [down EXCEPT ![i] = <<>>]
     /\ owners' = [owners EXCEPT ![i] = @ \cup {c}]
     /\ raced' = [raced EXCEPT ![i] = @ \/ name[i] # NoClient]
  /\ pc' = [pc EXCEPT ![c] = "reset"]
  /\ UNCHANGED <<connected, age, serverVars, at, idle, sendType, outbox, waiting,
                 mistyped, starts, asks, outlived, dropped>>

\* Reset, and the login request.
LogsIn(c) ==
  /\ pc[c] = "reset"
  /\ pc' = [pc EXCEPT ![c] = "login"]
  /\ up' = [up EXCEPT ![at[c]] = <<Login>>]
  /\ down' = [down EXCEPT ![at[c]] = <<>>]
  /\ UNCHANGED <<tableVars, serverVars, at, idle, sendType, outbox, waiting, mistyped,
                 starts, asks, history, dropped>>

\* Start pops until the acknowledgement comes, whatever else it pops, and
\* acknowledges it.
AwaitsAck(c) ==
  /\ pc[c] = "login" /\ down[at[c]] # <<>>
  /\ down' = [down EXCEPT ![at[c]] = Tail(@)]
  /\ IF Head(down[at[c]]).type = "server_ack"
     THEN /\ up' = [up EXCEPT ![at[c]] = Push(@, RingCap, ClientAck)]
          /\ pc' = [pc EXCEPT ![c] = "up"]
          /\ idle' = [idle EXCEPT ![c] = 0]
     ELSE UNCHANGED <<up, pc, idle>>
  /\ UNCHANGED <<tableVars, serverVars, at, sendType, outbox, waiting, mistyped,
                 starts, asks, history, dropped>>

\* The process ends: 1e10 cycles passed without the acknowledgement (counted
\* from the first Start of the process, since TimeStamp is static), or it dies.
ClientEnds(c) ==
  /\ pc[c] # "off"
  /\ pc' = [pc EXCEPT ![c] = "off"]
  /\ at' = [at EXCEPT ![c] = 0] /\ idle' = [idle EXCEPT ![c] = 0]
  /\ sendType' = [sendType EXCEPT ![c] = "data"]
  /\ outbox' = [outbox EXCEPT ![c] = <<>>]
  /\ waiting' = [waiting EXCEPT ![c] = {}] /\ mistyped' = [mistyped EXCEPT ![c] = {}]
  /\ dropped' = dropped \ waiting[c]
  /\ UNCHANGED <<tableVars, up, down, serverVars, starts, asks, history>>

-----------------------------------------------------------------------------
(* A client that runs.                                                     *)

\* The application of the client pushes a request, however many it has open.
Asks(c) ==
  /\ pc[c] = "up" /\ Spare(restarts + 1) /\ \A d \in Clients : Spare(starts[d])
  /\ asks' = asks + 1
  /\ outbox' = [outbox EXCEPT ![c] = Push(@, QueueCap, asks')]
  /\ dropped' = IF Len(outbox[c]) < QueueCap THEN dropped ELSE dropped \cup {asks'}
  /\ waiting' = [waiting EXCEPT ![c] = @ \cup {asks'}]
  /\ UNCHANGED <<tableVars, up, down, serverVars, pc, at, idle, sendType, mistyped, starts, history>>

\* Mutant: the heartbeat is due when the server gives up.
DueAtInterval(n) == n > Interval

HeartBeatDue(n) == n > Interval - Margin

\* What the client is answered when it takes m, unless its own queue is full.
AnsweredBy(c, m) == IF m.type = "data" /\ m.for = c THEN waiting[c] \cap {m.id} ELSE {}

\* HandleMsg sends one request, takes one message, and sends a heartbeat when
\* it did neither for long.  A request that finds the ring full is gone, and so
\* is an answer when the application has let the client's queue fill (full).
\* The type of the next request is the type of the message taken last, since
\* both use m_DataMsg.
HandleMsg(c) ==
  LET i       == at[c]
      pops    == outbox[c] # <<>>
      request == Message(sendType[c], c, Head(outbox[c]))
      sends   == pops /\ Len(up[i]) < RingCap
      takes   == down[i] # <<>>
      idleNow == IF sends \/ takes THEN 0 ELSE idle[c]
      beats   == HeartBeatDue(idleNow)
      sent    == IF sends THEN Append(up[i], request) ELSE up[i]
      missed  == IF pops /\ ~sends THEN {request.id} ELSE {}
      got     == IF takes THEN AnsweredBy(c, Head(down[i])) ELSE {}
  IN /\ pc[c] = "up" /\ (pops \/ takes \/ beats)
     /\ outbox' = [outbox EXCEPT ![c] = IF pops THEN Tail(@) ELSE @]
     /\ up' = [up EXCEPT ![i] = IF beats THEN Push(sent, RingCap, HeartBeat) ELSE sent]
     /\ idle' = [idle EXCEPT ![c] = IF beats THEN 0 ELSE idleNow]
     /\ IF takes
        THEN /\ down' = [down EXCEPT ![i] = Tail(@)]
             /\ sendType' = [sendType EXCEPT ![c] = Head(down[i]).type]
        ELSE UNCHANGED <<down, sendType>>
     /\ mistyped' = [mistyped EXCEPT ![c] =
                       IF sends /\ sendType[c] # "data" THEN @ \cup {request.id} ELSE @]
     /\ \E full \in BOOLEAN :
          /\ waiting' = [waiting EXCEPT ![c] = IF full THEN @ ELSE @ \ got]
          /\ dropped' = dropped \cup missed \cup (IF full THEN got ELSE {})
     /\ UNCHANGED <<tableVars, serverVars, pc, at, starts, asks, history>>

-----------------------------------------------------------------------------
(* The server.  PollMsg visits the channels one after the other, takes at  *)
(* most one message of each, and then sends what there is to send; a visit *)
(* and an answer sent are steps of their own here, in any order.           *)

\* It pops a message.  Until it is handled the client may do what it likes.
ServerPops(i) ==
  /\ handling = None /\ up[i] # <<>>
  /\ handling' = i /\ msg' = Head(up[i])
  /\ up' = [up EXCEPT ![i] = Tail(@)]
  /\ age' = [age EXCEPT ![i] = 0]
  /\ UNCHANGED <<name, connected, down, requests, answers, restarts, clientVars, history,
                 dropped>>

\* The initial data, as far as they go into the ring.
WithInitData(ring) ==
  LET all == ring \o InitData
  IN IF Len(all) <= RingCap THEN all ELSE SubSeq(all, 1, RingCap)

\* Mutant: whatever comes is acknowledged.
AckAnything(ring) == IF msg.type = "client_ack" THEN WithInitData(ring) ELSE Push(ring, RingCap, ServerAck)

\* What the handling of a message puts into the ring of its channel.
Reaction(ring) ==
  CASE msg.type = "login"      -> Push(ring, RingCap, ServerAck)
    [] msg.type = "client_ack" -> WithInitData(ring)
    [] OTHER                   -> ring

\* Mutant: the server waits for its own kind of acknowledgement.
ConnectsOnServerAck == msg.type = "server_ack"

Connects == msg.type = "client_ack"

\* It handles the message.  Requests are taken from whoever sends them.
ServerHandles(i) ==
  /\ handling = i
  /\ handling' = None /\ msg' = HeartBeat
  /\ IF msg.type = "data"
     THEN /\ requests' = Push(requests, QueueCap, [channel |-> i, for |-> msg.for, id |-> msg.id])
          /\ dropped' = dropped \cup Lost(requests, QueueCap, msg.id)
     ELSE UNCHANGED <<requests, dropped>>
  /\ connected' = [connected EXCEPT ![i] = @ \/ Connects]
  /\ down' = [down EXCEPT ![i] = Reaction(@)]
  /\ UNCHANGED <<name, age, up, answers, restarts, clientVars, history>>

\* Mutant: a tick late.
TimedOutLate(i) == age[i] > Interval + 1

TimedOut(i) == age[i] > Interval

\* It finds no message, and has heard nothing of the client for the interval.
ServerDrops(i) ==
  /\ handling = None /\ up[i] = <<>>
  /\ connected[i] /\ TimedOut(i)
  /\ connected' = [connected EXCEPT ![i] = FALSE]
  /\ UNCHANGED <<name, age, up, down, serverVars, clientVars, history, dropped>>

\* It sends an answer, if the client is connected and its ring has room.
ServerSends ==
  /\ handling = None /\ answers # <<>>
  /\ answers' = Tail(answers)
  /\ LET a    == Head(answers)
         ring == down[a.channel]
     IN IF connected[a.channel]
        THEN /\ down' = [down EXCEPT ![a.channel] = Push(@, RingCap, Message("data", a.for, a.id))]
             /\ age' = IF Len(ring) < RingCap THEN [age EXCEPT ![a.channel] = 0] ELSE age
             /\ dropped' = dropped \cup Lost(ring, RingCap, a.id)
        ELSE UNCHANGED <<down, age, dropped>>
  /\ UNCHANGED <<name, connected, up, handling, msg, requests, restarts, clientVars, history>>

\* Mutant: the channel is not copied from the request.
AnswerOnFirst(r) == [r EXCEPT !.channel = 0]

\* An answer goes to the channel its request came by.
Answer(r) == r

\* The application of the server answers a request.
ServerAnswers ==
  /\ requests # <<>>
  /\ requests' = Tail(requests)
  /\ answers' = Push(answers, QueueCap, Answer(Head(requests)))
  /\ dropped' = dropped \cup Lost(answers, QueueCap, Head(requests).id)
  /\ UNCHANGED <<tableVars, up, down, handling, msg, restarts, clientVars, history>>

\* The clients that use channel i.
Users(i) == {c \in Clients : pc[c] \in {"reset", "login", "up"} /\ at[c] = i}

\* The server starts again: InitChannel clears the table and the rings, whoever
\* uses them, and the queues of the process are gone.
ServerRestarts ==
  /\ restarts < MaxRestarts /\ Spare(restarts + 1)
  /\ restarts' = restarts + 1
  /\ name' = [i \in Channels |-> NoClient]
  /\ connected' = [i \in Channels |-> FALSE]
  /\ age' = [i \in Channels |-> 0]
  /\ up' = [i \in Channels |-> <<>>] /\ down' = [i \in Channels |-> <<>>]
  /\ handling' = None /\ msg' = HeartBeat /\ requests' = <<>> /\ answers' = <<>>
  /\ owners' = [i \in Channels |-> Users(i)]
  /\ raced' = [i \in Channels |-> FALSE]
  /\ outlived' = [i \in Channels |-> Users(i) # {}]
  /\ UNCHANGED <<clientVars, dropped>>

-----------------------------------------------------------------------------
(* Time passes when no process is behind its loop.                         *)

Tick ==
  /\ handling = None /\ answers = <<>>
  /\ \A i \in Channels : up[i] = <<>> /\ ~(connected[i] /\ TimedOut(i))
  /\ \A c \in Clients : pc[c] = "up" => down[at[c]] = <<>> /\ ~HeartBeatDue(idle[c])
  /\ age' = [i \in Channels |-> IF connected[i] THEN age[i] + 1 ELSE age[i]]
  /\ idle' = [c \in Clients |-> IF pc[c] = "up" THEN idle[c] + 1 ELSE idle[c]]
  /\ UNCHANGED <<name, connected, up, down, serverVars, pc, at, sendType, outbox, waiting,
                 mistyped, starts, asks, history, dropped>>

ClientStep(c) == Takes(c) \/ LogsIn(c) \/ AwaitsAck(c) \/ HandleMsg(c)

ChannelStep(i) == ServerPops(i) \/ ServerHandles(i) \/ ServerDrops(i)

ServerStep == (\E i \in Channels : ChannelStep(i)) \/ ServerSends

Next ==
  \/ \E c \in Clients : Starts(c) \/ ClientEnds(c) \/ Asks(c) \/ ClientStep(c)
  \/ ServerStep \/ ServerAnswers \/ ServerRestarts
  \/ Tick

Spec == Init /\ [][Next]_vars

\* Each process turns its loop for ever; the application of the server answers.
FairSpec ==
  /\ Spec
  /\ \A c \in Clients : WF_vars(ClientStep(c))
  /\ WF_vars(ServerStep) /\ WF_vars(ServerAnswers)

-----------------------------------------------------------------------------
(* Properties.                                                             *)

\* Every variable keeps its type.
TypeOK ==
  /\ name \in [Channels -> Clients \cup {NoClient}]
  /\ connected \in [Channels -> BOOLEAN]
  /\ age \in [Channels -> 0 .. Interval + 1]
  /\ up \in [Channels -> Seq(Messages)] /\ down \in [Channels -> Seq(Messages)]
  /\ handling \in Channels \cup {None} /\ msg \in Messages
  /\ requests \in Seq(Requests) /\ answers \in Seq(Requests)
  /\ pc \in [Clients -> {"off", "take", "reset", "login", "up"}]
  /\ at \in [Clients -> Channels]
  /\ idle \in [Clients -> 0 .. Interval + 1]
  /\ sendType \in [Clients -> Types]
  /\ outbox \in [Clients -> Seq(Numbers)]
  /\ waiting \in [Clients -> SUBSET Numbers] /\ mistyped \in [Clients -> SUBSET Numbers]
  /\ starts \in [Clients -> Nat] /\ asks \in Nat /\ restarts \in Nat /\ dropped \subseteq Numbers
  /\ owners \in [Channels -> SUBSET Clients]
  /\ raced \in [Channels -> BOOLEAN] /\ outlived \in [Channels -> BOOLEAN]

\* A channel has one client, however often the clients start again, unless two
\* looked at it while it was empty or one of them outlived the server ("each
\* client has a channel of its own", README of SHMServer).
OneClientPerChannel ==
  \A i \in Channels : \A c, d \in owners[i] : c = d \/ raced[i] \/ outlived[i]

\* The channel of c is its own.
Private(c) == pc[c] = "up" /\ owners[at[c]] = {c} /\ ~outlived[at[c]]

Contents(queue) == {queue[n] : n \in DOMAIN queue}

\* The answers in the channel of a client are to its own requests, those of an
\* earlier run included.
AnswersReachAsker ==
  \A c \in Clients : Private(c) =>
    \A m \in Contents(down[at[c]]) : m.for \in {c, NoClient}

\* The server never gives up a client that is there: its acknowledgement is
\* still on the way or it is connected, also when nobody asks anything, since a
\* heartbeat comes before the interval ends.
LiveStaysConnected ==
  \A c \in Clients : Private(c) =>
    \/ connected[at[c]]
    \/ ClientAck \in Contents(up[at[c]])
    \/ handling = at[c] /\ msg = ClientAck

\* No request of a client goes out as anything but a request, unless the client
\* took a second acknowledgement of a login: only after an earlier run was cut
\* off, or on a channel it shares.
RequestsKeepType ==
  \A c \in Clients : Private(c) /\ starts[c] = 1 => sendType[c] = "data" /\ mistyped[c] = {}

\* An open request that has to be answered: the channel of the client is its
\* own, the request went out as one, and neither it nor its answer found a ring
\* or a queue full.
Due(n) == \E c \in Clients :
  n \in waiting[c] /\ Private(c) /\ n \notin mistyped[c] /\ n \notin dropped

\* Any number of requests may be open; no request stays due, so each is
\* answered, unless the client ends or one of the conditions of Due fails:
\* nothing else loses a request.
Answered == \A n \in Numbers : Due(n) ~> ~Due(n)

=============================================================================
