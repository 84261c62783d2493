--------------------------- MODULE ServerEngineProofs ---------------------------
(***************************************************************************)
(* Theorems about ServerEngine, for any numbers of connections, sessions,  *)
(* orders, messages, ends of the process and changes of the service.       *)
(***************************************************************************)
EXTENDS ServerEngine, AuthServiceProofs

-----------------------------------------------------------------------------
(* Sequences of messages.                                                  *)

In(seq) == {seq[i] : i \in 1 .. Len(seq)}

Distinct(seq) == \A i, j \in 1 .. Len(seq) : seq[i].id = seq[j].id => i = j

\* m was sent after login l of the same connection, and was not pushed back.
Knows(l, m) == l.type = "login" /\ l.conn = m.conn /\ ~m.pushedBack => l.session \in m.before
InOrder(seq) == \A j \in 1 .. Len(seq) : \A i \in 1 .. j - 1 : Knows(seq[i], seq[j])

LEMMA EmptySeq == ASSUME NEW S PROVE <<>> \in Seq(S) /\ In(<<>>) = {} /\ Distinct(<<>>) /\ InOrder(<<>>)
BY DEF In, Distinct, InOrder

LEMMA TailParts ==
  ASSUME NEW S, NEW q \in Seq(S), q # <<>>
  PROVE  /\ Tail(q) \in Seq(S) /\ Len(Tail(q)) = Len(q) - 1
         /\ Head(q) \in In(q) /\ In(q) \subseteq S
         /\ In(Tail(q)) \subseteq In(q)
<1>1. Len(q) \in Nat \ {0} /\ Tail(q) \in Seq(S) /\ Len(Tail(q)) = Len(q) - 1 /\ Head(q) = q[1]
  OBVIOUS
<1>2. \A i \in 1 .. Len(q) - 1 : Tail(q)[i] = q[i + 1] /\ i + 1 \in 1 .. Len(q)
  BY <1>1
<1> QED
  BY <1>1, <1>2 DEF In

LEMMA AppendParts ==
  ASSUME NEW S, NEW q \in Seq(S), NEW m \in S
  PROVE  /\ Append(q, m) \in Seq(S) /\ Len(Append(q, m)) = Len(q) + 1
         /\ In(Append(q, m)) = In(q) \cup {m} /\ In(q) \subseteq S
<1>1. Len(q) \in Nat /\ Append(q, m) \in Seq(S) /\ Len(Append(q, m)) = Len(q) + 1
  OBVIOUS
<1>2. /\ \A i \in 1 .. Len(q) : Append(q, m)[i] = q[i]
      /\ Append(q, m)[Len(q) + 1] = m
  BY <1>1
<1>3. In(q) \cup {m} \subseteq In(Append(q, m))
  BY <1>1, <1>2 DEF In
<1> QED
  BY <1>1, <1>2, <1>3 DEF In

LEMMA DistinctTail ==
  ASSUME NEW S, NEW q \in Seq(S), q # <<>>, Distinct(q)
  PROVE  Distinct(Tail(q)) /\ \A m \in In(Tail(q)) : m.id # Head(q).id
<1>1. Len(q) \in Nat \ {0} /\ Len(Tail(q)) = Len(q) - 1 /\ Head(q) = q[1]
  OBVIOUS
<1>2. \A i \in 1 .. Len(q) - 1 : Tail(q)[i] = q[i + 1] /\ i + 1 \in 1 .. Len(q)
  BY <1>1
<1> QED
  BY <1>1, <1>2 DEF In, Distinct

LEMMA DistinctAppend ==
  ASSUME NEW S, NEW q \in Seq(S), NEW m \in S, Distinct(q), \A x \in In(q) : x.id # m.id
  PROVE  Distinct(Append(q, m))
<1>1. Len(q) \in Nat /\ Len(Append(q, m)) = Len(q) + 1
  OBVIOUS
<1>2. \A i \in 1 .. Len(q) : Append(q, m)[i] = q[i] /\ q[i] \in In(q)
  BY <1>1 DEF In
<1>3. Append(q, m)[Len(q) + 1] = m
  BY <1>1
<1> QED
  BY <1>1, <1>2, <1>3 DEF Distinct

LEMMA InOrderTail ==
  ASSUME NEW S, NEW q \in Seq(S), q # <<>>, InOrder(q)
  PROVE  InOrder(Tail(q)) /\ \A m \in In(Tail(q)) : Knows(Head(q), m)
<1>1. Len(q) \in Nat \ {0} /\ Len(Tail(q)) = Len(q) - 1 /\ Head(q) = q[1]
  OBVIOUS
<1>2. \A i \in 1 .. Len(q) - 1 : Tail(q)[i] = q[i + 1] /\ i + 1 \in 1 .. Len(q)
  BY <1>1
<1>3. \A j \in 1 .. Len(q) - 1 : \A i \in 1 .. j - 1 : Knows(q[i + 1], q[j + 1])
  BY <1>1 DEF InOrder
<1>4. \A j \in 1 .. Len(q) - 1 : Knows(q[1], q[j + 1])
  BY <1>1 DEF InOrder
<1> QED
  BY <1>1, <1>2, <1>3, <1>4 DEF In, InOrder

LEMMA InOrderAppend ==
  ASSUME NEW S, NEW q \in Seq(S), NEW m \in S, InOrder(q), \A x \in In(q) : Knows(x, m)
  PROVE  InOrder(Append(q, m))
<1>1. Len(q) \in Nat /\ Len(Append(q, m)) = Len(q) + 1
  OBVIOUS
<1>2. \A i \in 1 .. Len(q) : Append(q, m)[i] = q[i] /\ q[i] \in In(q)
  BY <1>1 DEF In
<1>3. Append(q, m)[Len(q) + 1] = m
  BY <1>1
<1> QED
  BY <1>1, <1>2, <1>3 DEF InOrder

-----------------------------------------------------------------------------
(* The invariant.                                                          *)

Requests == {"order", "cancel", "subscribe"}

Queued ==
  {m \in Messages :
     /\ m.type # "report" => m.conn \in Conns
     /\ m.type = "report" => m.order \in Orders /\ m.status \in Statuses
     /\ m.type = "login" => m.session \in Sessions /\ ~m.pushedBack}
Deferred == {m \in Queued : m.type # "login" /\ m.pushedBack}
Held == [asked : {"service", "allowed", "denied"}, msg : Queued, session : Sessions \cup {NoSession}]

Types ==
  /\ connection \in [Conns -> [state : {"none", "open", "closed"}, authenticated : BOOLEAN,
                               session : Sessions \cup {NoSession}]]
  /\ newConns \subseteq Conns
  /\ queue \in Seq(Queued) /\ Len(queue) <= Capacity /\ buffer \in Seq(Deferred)
  /\ hand \in {Empty} \cup Held
  /\ mode \in {"work", "drain", "push back"} /\ round \in 0 .. Rounds /\ trading \in BOOLEAN
  /\ subscribed \in [Conns -> Sessions \cup {NoSession}]
  /\ references \subseteq Orders /\ overtaken \subseteq Orders /\ log \in Seq(Logged)
  /\ received \in 0 .. MaxMessages /\ crashes \in Nat
  /\ forwarded \subseteq handled /\ handled \subseteq 1 .. received
  /\ logins \in [Conns -> SUBSET Sessions]

\* What is on its way is there once, and is not handled.
Pending == In(queue) \cup In(buffer)
Numbers ==
  /\ Distinct(queue) /\ Distinct(buffer)
  /\ \A m \in In(queue), n \in In(buffer) : m.id # n.id
  /\ \A m \in Pending : m.id \in 1 .. received /\ m.id \notin handled
  /\ hand # Empty => /\ hand.msg.id \in 1 .. received /\ hand.msg.id \notin handled
                     /\ \A m \in Pending : m.id # hand.msg.id

\* A request not refused is in hand under the session its connection still
\* has, if that is logged in at all: only the work thread logs in.
Open(c) == connection[c].authenticated
InHand(type) == hand # Empty /\ hand.asked # "denied" /\ hand.msg.type = type
Current ==
  \A type \in Requests : InHand(type) /\ Open(hand.msg.conn) => hand.session = connection[hand.msg.conn].session

\* The logins before a message, in the connection, in the queue and in hand,
\* are known to it.
Told(session, c, m) == m.conn = c /\ ~m.pushedBack => session \in m.before
Logins ==
  /\ InOrder(queue)
  /\ \A m \in In(queue) : m.type = "login" => m.session \in logins[m.conn]
  /\ \A c \in Conns : Open(c) =>
       connection[c].session \in logins[c] /\ \A m \in In(queue) : Told(connection[c].session, c, m)
  /\ InHand("login") =>
       /\ hand.session \in logins[hand.msg.conn]
       /\ \A m \in In(queue) : Told(hand.session, hand.msg.conn, m)
  /\ \A type \in Requests : InHand(type) => hand.msg.pushedBack \/ hand.session \in hand.msg.before

Flow == Types /\ Numbers /\ Current /\ Logins /\ SubscribedByLogin

\* The sizes are numbers.
LEMMA Sizes == Capacity \in Nat /\ Rounds \in Nat /\ MaxMessages \in Nat /\ Watcher \notin Conns
BY ServerAssumption

LEMMA Counters ==
  ASSUME Types
  PROVE  /\ received \in Nat /\ received <= MaxMessages /\ crashes \in Nat
         /\ queue \in Seq(Queued) /\ Len(queue) \in Nat /\ Len(queue) <= Capacity
         /\ round \in 0 .. Rounds /\ handled \subseteq 1 .. received /\ log \in Seq(Logged)
<1>1. /\ received \in 0 .. MaxMessages /\ crashes \in Nat /\ queue \in Seq(Queued) /\ Len(queue) <= Capacity
      /\ round \in 0 .. Rounds /\ handled \subseteq 1 .. received /\ log \in Seq(Logged)
  BY DEF Types
<1>2. Len(queue) \in Nat
  BY <1>1
<1>3. \A n \in 0 .. MaxMessages : n \in Nat /\ n <= MaxMessages
  BY Sizes
<1> QED
  BY <1>1, <1>2, <1>3

\* Arithmetic, apart from the state.
LEMMA NextNumber ==
  ASSUME NEW n \in Nat, n < MaxMessages
  PROVE  /\ n + 1 \in Ids /\ n + 1 \in 0 .. MaxMessages /\ n + 1 \in 1 .. n + 1 /\ 1 .. n \subseteq 1 .. n + 1
         /\ \A i \in 1 .. n : i # n + 1
BY Sizes DEF Ids

LEMMA Smaller == ASSUME NEW n \in Nat, n <= Capacity PROVE n - 1 <= Capacity
BY Sizes

LEMMA Larger == ASSUME NEW n \in Nat, n < Capacity PROVE n + 1 <= Capacity
BY Sizes

LEMMA HandFields ==
  ASSUME Types, hand # Empty
  PROVE  /\ hand \in Held /\ hand.msg \in Queued /\ hand.session \in Sessions \cup {NoSession}
         /\ hand.asked \in {"service", "allowed", "denied"}
         /\ hand.msg.type \in {"login", "order", "cancel", "subscribe", "report"}
         /\ hand.msg.type # "report" => hand.msg.conn \in Conns
BY DEF Types, Held, Queued, Messages

LEMMA EmptyHand == ASSUME hand.asked \in {"service", "allowed", "denied"} PROVE hand # Empty
BY DEF Empty

LEMMA FlowInit == Init => Flow
<1> SUFFICES ASSUME Init PROVE Flow
  OBVIOUS
<1>1. Types
  BY EmptySeq, ServerAssumption DEF Init, Types, NotAccepted, Connection
<1>2. Numbers /\ Current /\ Logins /\ SubscribedByLogin
  BY EmptySeq DEF Init, Numbers, Pending, Current, InHand, Logins, Open, SubscribedByLogin, NotAccepted, Connection
<1> QED
  BY <1>1, <1>2 DEF Flow

-----------------------------------------------------------------------------
(* The network thread.                                                     *)

\* A connection that is opened, reset or closed; nothing arrives.
LEMMA ConnectionKeeps ==
  ASSUME Flow, NEW c \in Conns, NEW state \in {"open", "closed"},
         connection' = [connection EXCEPT ![c] = Connection(state, FALSE, NoSession)],
         newConns' \subseteq Conns,
         UNCHANGED <<queue, logins, received, workVars, restVars>>
  PROVE  Flow'
<1> USE DEF workVars, restVars
<1>1. \A d \in Conns : Open(d)' => Open(d) /\ connection'[d] = connection[d]
  BY DEF Flow, Types, Open, Connection
<1>2. Types'
  BY DEF Flow, Types, Connection
<1>3. Numbers'
  BY DEF Flow, Numbers, Pending
<1>4. Current'
  BY <1>1, HandFields DEF Flow, Current, InHand, Requests, Open
<1>5. Logins'
  BY <1>1 DEF Flow, Logins, InHand, Open
<1>6. SubscribedByLogin'
  BY <1>1 DEF Flow, SubscribedByLogin, Open
<1> QED
  BY <1>2, <1>3, <1>4, <1>5, <1>6 DEF Flow

\* A message that arrives, with what the network thread knows of its connection.
LEMMA ReceiveKeeps ==
  ASSUME Flow, NEW type \in {"login", "order", "cancel", "subscribe", "report"},
         NEW c \in Conns \cup {Watcher}, NEW s \in Sessions \cup {NoSession},
         NEW o \in Orders \cup {NoOrder}, NEW status \in Statuses \cup {""},
         type # "report" => c \in Conns,
         type = "report" => c = Watcher /\ o \in Orders /\ status \in Statuses,
         type = "login" => s \in Sessions,
         Receive(type, c, s, o, status),
         \/ type # "login" /\ UNCHANGED <<connection, logins>>
         \/ /\ type = "login" /\ connection' = [connection EXCEPT ![c] = Unauthenticated(s)]
            /\ logins' = [logins EXCEPT ![c] = @ \cup {s}],
         UNCHANGED <<newConns, workVars, restVars>>
  PROVE  Flow'
<1> USE DEF workVars, restVars
<1> DEFINE m == [id |-> received + 1, type |-> type, conn |-> c, session |-> s, order |-> o,
                 status |-> status, pushedBack |-> FALSE,
                 before |-> IF c = Watcher THEN {} ELSE logins[c]]
<1>0. /\ received \in Nat /\ queue \in Seq(Queued) /\ Len(queue) \in Nat
      /\ handled \subseteq 1 .. received /\ Watcher \notin Conns
  BY Counters, Sizes DEF Flow
<1>1. /\ received + 1 \in Ids /\ received + 1 \in 0 .. MaxMessages /\ received + 1 \in 1 .. received + 1
      /\ 1 .. received \subseteq 1 .. received + 1 /\ \A i \in 1 .. received : i # received + 1
  <2>1. received < MaxMessages
    BY DEF Receive
  <2> QED
    BY <1>0, <2>1, NextNumber
<1>2. m \in Queued
  <2>1. (IF c = Watcher THEN {} ELSE logins[c]) \in SUBSET Sessions
    BY DEF Flow, Types
  <2> QED
    BY <1>0, <1>1, <2>1 DEF Queued, Messages
<1>3. queue' = Append(queue, m) /\ received' = received + 1 /\ Len(queue) < Capacity
  BY DEF Receive, Room
<1>4. /\ m.id = received + 1 /\ m.conn = c /\ ~m.pushedBack /\ m.type = type /\ m.session = s
      /\ c \in Conns => m.before = logins[c]
  BY <1>0
<1> HIDE DEF m
<1>5. queue' \in Seq(Queued) /\ Len(queue') = Len(queue) + 1 /\ In(queue)' = In(queue) \cup {m}
      /\ In(queue) \subseteq Queued
  <2>1. /\ Append(queue, m) \in Seq(Queued) /\ Len(Append(queue, m)) = Len(queue) + 1
        /\ In(Append(queue, m)) = In(queue) \cup {m} /\ In(queue) \subseteq Queued
    <3>1. queue \in Seq(Queued) /\ m \in Queued
      BY <1>0, <1>2
    <3> QED
      BY ONLY <3>1, AppendParts
  <2> QED
    BY <1>3, <2>1
<1>6. \A d \in Conns : logins[d] \subseteq logins'[d] /\ (d # c => logins'[d] = logins[d])
  BY DEF Flow, Types
<1>7. type = "login" => s \in logins'[c]
  BY DEF Flow, Types
<1>8. /\ \A d \in Conns : Open(d)' => Open(d) /\ connection'[d] = connection[d] /\ (type = "login" => d # c)
      /\ connection' \in [Conns -> [state : {"none", "open", "closed"}, authenticated : BOOLEAN,
                                    session : Sessions \cup {NoSession}]]
      /\ logins' \in [Conns -> SUBSET Sessions]
  <2>1. CASE type # "login"
    BY <2>1 DEF Flow, Types, Open
  <2>2. CASE type = "login"
    <3>1. /\ c \in Conns /\ s \in Sessions
          /\ connection' = [connection EXCEPT ![c] = Connection("open", FALSE, NoSession)]
          /\ logins' = [logins EXCEPT ![c] = @ \cup {s}]
      BY <2>2 DEF Unauthenticated
    <3>2. Connection("open", FALSE, NoSession) \in [state : {"none", "open", "closed"}, authenticated : BOOLEAN,
                                                    session : Sessions \cup {NoSession}]
      BY DEF Connection
    <3>3. ~Open(c)'
      BY <3>1 DEF Flow, Types, Open, Connection
    <3> QED
      BY <3>1, <3>2, <3>3 DEF Flow, Types, Open
  <2> QED
    BY <2>1, <2>2
<1>9. Types'
  <2>1. Len(queue') <= Capacity
    BY <1>0, <1>3, <1>5, Larger
  <2>2. received' \in 0 .. MaxMessages /\ handled \subseteq 1 .. received'
    BY <1>0, <1>1, <1>3
  <2> QED
    BY <1>5, <1>8, <2>1, <2>2 DEF Flow, Types
<1>10. Numbers'
  <2>0. /\ \A n \in Pending : n.id \in 1 .. received
        /\ hand # Empty => hand.msg.id \in 1 .. received
        /\ handled \subseteq 1 .. received
    BY DEF Flow, Numbers, Types
  <2>1. \A n \in Pending : n.id # m.id
    BY <1>1, <1>4, <2>0
  <2>2. hand # Empty => hand.msg.id # m.id
    BY <1>1, <1>4, <2>0
  <2>3. m.id \in 1 .. received' /\ m.id \notin handled' /\ 1 .. received \subseteq 1 .. received'
    BY <1>0, <1>1, <1>3, <1>4
  <2>4. Distinct(queue)'
    BY <1>2, <1>3, <2>1, DistinctAppend DEF Flow, Types, Numbers, Pending
  <2>5. hand' = hand /\ buffer' = buffer /\ handled' = handled
    OBVIOUS
  <2> QED
    BY <1>5, <2>1, <2>2, <2>3, <2>4, <2>5 DEF Flow, Numbers, Pending
<1>11. Current'
  BY <1>8, HandFields DEF Flow, Current, InHand, Requests, Open
<1>12. Logins'
  <2>1. \A x \in In(queue) : Knows(x, m)
    BY <1>1, <1>4, <1>5 DEF Flow, Logins, Knows, Queued
  <2>2. InOrder(queue)'
    BY <1>2, <1>3, <2>1, InOrderAppend DEF Flow, Types, Logins
  <2>3. \A x \in In(queue)' : x.type = "login" => x.session \in logins'[x.conn]
    BY <1>4, <1>5, <1>6, <1>7 DEF Flow, Logins, Queued
  <2>4. ASSUME NEW d \in Conns, Open(d)'
        PROVE  connection'[d].session \in logins'[d] /\ \A x \in In(queue)' : Told(connection[d].session, d, x)'
    BY <1>4, <1>5, <1>6, <1>8, <2>4 DEF Flow, Logins, Told
  <2>5. ASSUME InHand("login")'
        PROVE  /\ hand.session \in logins'[hand.msg.conn]
               /\ \A x \in In(queue)' : Told(hand.session, hand.msg.conn, x)
    <3>1. InHand("login") /\ hand.msg.conn \in Conns
      BY <2>5, HandFields DEF Flow, InHand
    <3> QED
      BY <1>4, <1>5, <1>6, <3>1 DEF Flow, Logins, Told
  <2>6. hand' = hand
    OBVIOUS
  <2>7. \A t \in Requests : InHand(t)' => hand.msg.pushedBack \/ hand.session \in hand.msg.before
    BY <2>6 DEF Flow, Logins, InHand
  <2> QED
    BY <2>2, <2>3, <2>4, <2>5, <2>6, <2>7 DEF Logins, Told
<1>13. SubscribedByLogin'
  BY <1>8 DEF Flow, SubscribedByLogin, Open
<1> QED
  BY <1>9, <1>10, <1>11, <1>12, <1>13 DEF Flow

LEMMA NetworkKeeps ==
  ASSUME Flow, Network
  PROVE  Flow'
<1>1. ASSUME NEW c \in Conns, Accept(c) PROVE Flow'
  BY <1>1, ConnectionKeeps DEF Accept, Flow, Types
<1>2. ASSUME NEW c \in Conns, Close(c) PROVE Flow'
  BY <1>2, ConnectionKeeps DEF Close, Flow, Types
<1>3. ASSUME NEW c \in Conns, NEW s \in Sessions, ReceiveLogin(c, s) PROVE Flow'
  BY <1>3, ReceiveKeeps DEF ReceiveLogin
<1>4. ASSUME NEW c \in Conns, NEW type \in Requests, NEW o \in Orders \cup {NoOrder}, ReceiveRequest(c, type, o)
      PROVE  Flow'
  BY <1>4, ReceiveKeeps DEF ReceiveRequest, Requests
<1>5. ASSUME NEW o \in Orders, NEW status \in Statuses, ReceiveReport(o, status) PROVE Flow'
  BY <1>5, ReceiveKeeps DEF ReceiveReport
<1> QED
  BY <1>1, <1>2, <1>3, <1>4, <1>5 DEF Network, Requests

-----------------------------------------------------------------------------
(* The work thread.                                                        *)

\* A message leaves the queue, and the thread finds what it needs to ask.
LEMMA BegunFields ==
  ASSUME Flow, NEW m \in Queued
  PROVE  /\ Begun(m) \in Held /\ Begun(m) # Empty /\ Begun(m).msg = m
         /\ m.type = "login" => Begun(m).session = m.session
         /\ m.type \in Requests /\ Begun(m).asked # "denied" =>
              Open(m.conn) /\ Begun(m).session = connection[m.conn].session
         /\ m.type # "report" => Begun(m).asked # "allowed"
<1>1. m.type # "report" => m.conn \in Conns /\ connection[m.conn].session \in Sessions \cup {NoSession}
  BY DEF Flow, Types, Queued
<1>2. m.session \in Sessions \cup {NoSession} /\ m.type \in Requests \cup {"login", "report"}
  BY DEF Queued, Messages, Requests
<1>3. CASE m.type = "report"
  BY <1>3 DEF Begun, Held, Empty, Requests
<1>4. CASE m.type = "login"
  BY <1>2, <1>4 DEF Begun, Held, Empty, Requests
<1>5. CASE m.type \in Requests
  BY <1>1, <1>5 DEF Begun, Held, Empty, Requests, Open
<1> QED
  BY <1>2, <1>3, <1>4, <1>5

LEMMA BegunKeeps ==
  ASSUME Flow, hand = Empty, queue # <<>>, queue' = Tail(queue), hand' = Begun(Head(queue)),
         log' \in Seq(Logged),
         UNCHANGED <<connection, newConns, logins, received, mode, round, buffer, trading, subscribed,
                     references, restVars>>
  PROVE  Flow'
<1> USE DEF restVars
<1> DEFINE m == Head(queue)
<1>1. /\ queue' \in Seq(Queued) /\ Len(queue') = Len(queue) - 1 /\ m \in In(queue) /\ In(queue) \subseteq Queued
      /\ In(queue)' \subseteq In(queue)
  BY TailParts DEF Flow, Types
<1>2. Distinct(queue)' /\ \A x \in In(queue)' : x.id # m.id
  BY DistinctTail DEF Flow, Types, Numbers
<1>3. InOrder(queue)' /\ \A x \in In(queue)' : Knows(m, x)
  BY InOrderTail DEF Flow, Types, Logins
<1>4. m \in Queued
  BY <1>1
<1>5. /\ hand' \in Held /\ hand' # Empty /\ hand'.msg = m
      /\ m.type = "login" => hand'.session = m.session
      /\ m.type \in Requests /\ hand'.asked # "denied" => Open(m.conn) /\ hand'.session = connection[m.conn].session
  BY <1>4, BegunFields
<1>6. m.type \in Requests => m.conn \in Conns
  BY <1>4 DEF Queued, Requests
<1> HIDE DEF m
<1>7. Types'
  <2>1. Len(queue') <= Capacity
    BY <1>1, Counters, Smaller DEF Flow
  <2> QED
    BY <1>1, <1>5, <2>1 DEF Flow, Types
<1>8. Numbers'
  BY <1>1, <1>2, <1>5 DEF Flow, Numbers, Pending
<1>9. Current'
  BY <1>5 DEF Current, InHand, Open
<1>10. Logins'
  <2>1. \A x \in In(queue)' : x.type = "login" => x.session \in logins'[x.conn]
    BY <1>1 DEF Flow, Logins
  <2>2. \A c \in Conns : Open(c)' =>
          connection'[c].session \in logins'[c] /\ \A x \in In(queue)' : Told(connection[c].session, c, x)'
    BY <1>1 DEF Flow, Logins, Open, Told
  <2>3. InHand("login")' =>
          /\ hand'.session \in logins'[hand'.msg.conn]
          /\ \A x \in In(queue)' : Told(hand.session, hand.msg.conn, x)'
    BY <1>1, <1>3, <1>5 DEF Flow, Logins, InHand, Told, Knows
  <2>4. \A t \in Requests : InHand(t)' => hand'.msg.pushedBack \/ hand'.session \in hand'.msg.before
    BY <1>1, <1>5, <1>6 DEF Flow, Logins, InHand, Told
  <2> QED
    BY <1>3, <2>1, <2>2, <2>3, <2>4 DEF Logins
<1>11. SubscribedByLogin'
  BY DEF Flow, SubscribedByLogin
<1> QED
  BY <1>7, <1>8, <1>9, <1>10, <1>11 DEF Flow

LEMMA TakeKeeps ==
  ASSUME Flow, Take
  PROVE  Flow'
<1>1. Head(queue) \in Queued
  BY TailParts DEF Take, Flow, Types
<1>2. log' \in Seq(Logged)
  <2> DEFINE m == Head(queue)
             entry == [id |-> m.id, order |-> m.order, status |-> m.status]
  <2>1. m.type = "report" => entry \in Logged
    BY <1>1 DEF Logged, Queued, Messages
  <2>2. log' = log \/ (m.type = "report" /\ log' = Append(log, entry))
    BY DEF Take
  <2>3. log \in Seq(Logged)
    BY Counters DEF Flow
  <2> HIDE DEF entry
  <2> QED
    BY <2>1, <2>2, <2>3, AppendParts
<1> QED
  BY <1>2, BegunKeeps DEF Take

LEMMA DecideKeeps ==
  ASSUME Flow, NEW allowed \in BOOLEAN, Decide(allowed)
  PROVE  Flow'
<1> USE DEF netVars, restVars
<1>1. hand # Empty /\ hand \in Held
  BY EmptyHand, HandFields DEF Decide, Flow
<1>2. /\ hand' \in Held /\ hand' # Empty /\ hand'.msg = hand.msg /\ hand'.session = hand.session
      /\ hand.asked = "service"
  BY <1>1 DEF Decide, Held, Empty
<1>3. Types'
  BY <1>2 DEF Decide, Flow, Types
<1>4. Numbers'
  BY <1>1, <1>2 DEF Decide, Flow, Numbers, Pending
<1>5. \A t : InHand(t)' => InHand(t)
  BY <1>1, <1>2 DEF InHand
<1>6. Current'
  BY <1>2, <1>5 DEF Decide, Flow, Current, Open
<1>7. Logins'
  BY <1>2, <1>5 DEF Decide, Flow, Logins, Open, Told
<1>8. SubscribedByLogin'
  BY DEF Decide, Flow, SubscribedByLogin
<1> QED
  BY <1>3, <1>4, <1>6, <1>7, <1>8 DEF Flow

\* The thread is done with the message in hand.
LEMMA DoneKeeps ==
  ASSUME Flow, hand # Empty, Ends, UNCHANGED <<queue, buffer, received>>
  PROVE  /\ hand' = Empty /\ Numbers' /\ Current'
         /\ handled' \subseteq 1 .. received /\ handled \subseteq handled' /\ hand.msg.id \in handled'
         /\ \A t : ~InHand(t)'
<1>1. hand' = Empty /\ handled' = handled \cup {hand.msg.id}
  BY DEF Ends
<1>2. Numbers'
  BY <1>1 DEF Flow, Numbers, Pending
<1>3. Current'
  BY <1>1 DEF Current, InHand
<1> QED
  BY <1>1, <1>2, <1>3 DEF Flow, Types, Numbers, InHand

LEMMA HandleLoginKeeps ==
  ASSUME Flow, HandleLogin
  PROVE  Flow'
<1> DEFINE c == hand.msg.conn
<1>1. hand # Empty /\ c \in Conns /\ hand.session \in Sessions \cup {NoSession}
  BY EmptyHand, HandFields DEF HandleLogin, Flow
<1>2. /\ hand' = Empty /\ Numbers' /\ Current' /\ handled' \subseteq 1 .. received /\ handled \subseteq handled'
      /\ \A t : ~InHand(t)'
  BY <1>1, DoneKeeps DEF HandleLogin
<1>3. CASE hand.asked = "allowed"
  <2>1. /\ connection' = IF connection[c].state # "open" THEN connection
                         ELSE [connection EXCEPT ![c] = Connection("open", TRUE, hand.session)]
        /\ newConns' = newConns \cup {c} /\ subscribed' = [subscribed EXCEPT ![c] = NoSession]
    BY <1>3 DEF HandleLogin, Unsubscribed
  <2>2. Types'
    BY <1>1, <1>2, <2>1 DEF HandleLogin, Flow, Types, Connection
  <2>3. \A d \in Conns : connection'[d] = connection[d] \/
          (d = c /\ connection'[d].session = hand.session)
    BY <1>1, <2>1 DEF Flow, Types, Connection
  <2>4. InHand("login")
    BY <1>1, <1>3 DEF InHand, HandleLogin
  <2>5. \A d \in Conns : Open(d)' =>
          connection'[d].session \in logins[d] /\ \A x \in In(queue) : Told(connection'[d].session, d, x)
    BY <2>3, <2>4 DEF Flow, Logins, Open
  <2>6. Logins'
    BY <1>2, <2>5 DEF HandleLogin, Flow, Logins, Told
  <2>7. SubscribedByLogin'
    BY <1>1, <2>1, <2>3 DEF Flow, Types, SubscribedByLogin
  <2> QED
    BY <1>2, <2>2, <2>6, <2>7 DEF Flow
<1>4. CASE hand.asked # "allowed"
  <2>1. UNCHANGED <<connection, newConns, subscribed>>
    BY <1>4 DEF HandleLogin
  <2>2. Types'
    BY <1>2, <2>1 DEF HandleLogin, Flow, Types
  <2>3. Logins' /\ SubscribedByLogin'
    BY <1>2, <2>1 DEF HandleLogin, Flow, Logins, Open, Told, SubscribedByLogin
  <2> QED
    BY <1>2, <2>2, <2>3 DEF Flow
<1> QED
  BY <1>3, <1>4

LEMMA HandleRequestKeeps ==
  ASSUME Flow, NEW policy \in BOOLEAN, HandleRequest(policy)
  PROVE  Flow'
<1> USE DEF netVars
<1> DEFINE c == hand.msg.conn
<1>1. hand # Empty /\ c \in Conns /\ hand.session \in Sessions \cup {NoSession}
  BY EmptyHand, HandFields DEF HandleRequest, Flow
<1>2. /\ hand' = Empty /\ Numbers' /\ Current' /\ handled' \subseteq 1 .. received /\ handled \subseteq handled'
      /\ hand.msg.id \in handled' /\ \A t : ~InHand(t)'
  BY <1>1, DoneKeeps DEF HandleRequest
<1>3. Types'
  <2>1. subscribed' \in [Conns -> Sessions \cup {NoSession}] /\ forwarded' \subseteq handled'
    BY <1>1, <1>2 DEF HandleRequest, Flow, Types
  <2> QED
    BY <1>2, <2>1 DEF HandleRequest, Flow, Types
<1>4. Logins'
  BY <1>2 DEF HandleRequest, Flow, Logins, Open, Told
<1>5. SubscribedByLogin'
  <2>1. CASE UNCHANGED subscribed
    BY <2>1 DEF HandleRequest, Flow, SubscribedByLogin
  <2>2. CASE ~UNCHANGED subscribed
    <3>1. /\ hand.asked = "allowed" /\ hand.msg.type = "subscribe"
          /\ subscribed' = [subscribed EXCEPT ![c] = hand.session]
      BY <2>2 DEF HandleRequest, Admitted
    <3>2. Open(c) => hand.session = connection[c].session
      BY <1>1, <3>1 DEF Flow, Current, InHand, Requests
    <3> QED
      BY <1>1, <3>1, <3>2 DEF HandleRequest, Flow, Types, SubscribedByLogin, Open
  <2> QED
    BY <2>1, <2>2
<1> QED
  BY <1>2, <1>3, <1>4, <1>5 DEF Flow

LEMMA HandleReportKeeps ==
  ASSUME Flow, HandleReport
  PROVE  Flow'
<1> USE DEF netVars
<1>1. hand # Empty /\ hand.msg.order \in Orders
  BY EmptyHand, HandFields DEF HandleReport, Flow, Queued
<1>2. /\ hand' = Empty /\ Numbers' /\ Current' /\ handled' \subseteq 1 .. received /\ handled \subseteq handled'
      /\ \A t : ~InHand(t)'
  BY <1>1, DoneKeeps DEF HandleReport
<1>3. Types'
  BY <1>1, <1>2 DEF HandleReport, Updated, Flow, Types
<1>4. Logins' /\ SubscribedByLogin'
  BY <1>2 DEF HandleReport, Flow, Logins, Open, Told, SubscribedByLogin
<1> QED
  BY <1>2, <1>3, <1>4 DEF Flow

\* Steps that move no message and no connection.
LEMMA StillKeeps ==
  ASSUME Flow,
         UNCHANGED <<connection, queue, logins, received, hand, buffer, subscribed, references, log, restVars>>,
         newConns' \subseteq Conns, mode' \in {"work", "drain", "push back"}, round' \in 0 .. Rounds,
         trading' \in BOOLEAN
  PROVE  Flow'
<1> USE DEF restVars
<1>1. Types'
  BY DEF Flow, Types
<1>2. Numbers' /\ Current'
  BY DEF Flow, Numbers, Pending, Current, InHand, Open
<1>3. Logins' /\ SubscribedByLogin'
  BY DEF Flow, Logins, InHand, Open, Told, SubscribedByLogin
<1> QED
  BY <1>1, <1>2, <1>3 DEF Flow

LEMMA TurnKeeps ==
  ASSUME Flow, Turn \/ Drained \/ Replay
  PROVE  Flow'
<1>1. /\ newConns \subseteq Conns /\ mode \in {"work", "drain", "push back"} /\ round \in 0 .. Rounds
      /\ trading \in BOOLEAN /\ Rounds \in Nat
  BY Sizes DEF Flow, Types
<1>2. /\ newConns' \subseteq Conns /\ mode' \in {"work", "drain", "push back"} /\ round' \in 0 .. Rounds
      /\ trading' \in BOOLEAN
  <2>1. CASE Turn
    BY <1>1, <2>1 DEF Turn
  <2>2. CASE Drained
    BY <1>1, <2>2 DEF Drained, netVars
  <2>3. CASE Replay
    <3> DEFINE done == IF round < Rounds THEN round + 1 ELSE Rounds
    <3>1. \A n \in 0 .. Rounds : 0 \in 0 .. Rounds /\ (IF n < Rounds THEN n + 1 ELSE Rounds) \in 0 .. Rounds
      BY Sizes
    <3>2. 0 \in 0 .. Rounds /\ done \in 0 .. Rounds
      BY <1>1, <3>1
    <3> HIDE DEF done
    <3> QED
      BY <1>1, <2>3, <3>2 DEF Replay, done
  <2> QED
    BY <2>1, <2>2, <2>3
<1>3. UNCHANGED <<connection, queue, logins, received, hand, buffer, subscribed, references, log, restVars>>
  BY DEF Turn, Drained, Replay, netVars
<1> QED
  BY <1>2, <1>3, StillKeeps

\* The replay handles logins at once, and defers the rest.
LEMMA DrainKeeps ==
  ASSUME Flow, Drain
  PROVE  Flow'
<1> USE DEF restVars
<1> DEFINE m == Head(queue)
           later == [m EXCEPT !.pushedBack = TRUE]
<1>1. /\ queue' \in Seq(Queued) /\ Len(queue') = Len(queue) - 1 /\ m \in In(queue) /\ m \in Queued
      /\ In(queue)' \subseteq In(queue)
  BY TailParts DEF Drain, Flow, Types
<1>2. CASE m.type = "login"
  <2>1. buffer' = buffer /\ hand' = Begun(m)
    BY <1>2 DEF Drain, Buffered
  <2> QED
    BY <2>1, BegunKeeps DEF Drain, Flow, Types
<1>3. CASE m.type # "login"
  <2>1. hand' = hand /\ hand = Empty /\ buffer' = Append(buffer, later)
    BY <1>3 DEF Drain, Buffered
  <2>2. later \in Deferred /\ later.id = m.id
    BY <1>1, <1>3 DEF Deferred, Queued, Messages
  <2> HIDE DEF later
  <2>3. buffer' \in Seq(Deferred) /\ In(buffer)' = In(buffer) \cup {later}
    <3>1. buffer \in Seq(Deferred)
      BY DEF Flow, Types
    <3> QED
      BY <2>1, <2>2, <3>1, AppendParts
  <2>4. Distinct(queue)' /\ \A x \in In(queue)' : x.id # m.id
    BY DistinctTail DEF Drain, Flow, Types, Numbers
  <2>5. Distinct(buffer)'
    BY <1>1, <2>1, <2>2, DistinctAppend DEF Flow, Types, Numbers
  <2>6. InOrder(queue)'
    BY InOrderTail DEF Drain, Flow, Types, Logins
  <2>7. m.id \in 1 .. received /\ m.id \notin handled /\ \A n \in In(buffer) : n.id # m.id
    BY <1>1 DEF Flow, Numbers, Pending
  <2> HIDE DEF m
  <2>8. Types'
    <3>1. Len(queue') <= Capacity
      BY <1>1, Counters, Smaller DEF Flow
    <3> QED
      BY <1>1, <2>1, <2>3, <3>1 DEF Drain, Flow, Types
  <2>9. Numbers'
    BY <1>1, <2>1, <2>2, <2>3, <2>4, <2>5, <2>7 DEF Drain, Flow, Numbers, Pending
  <2>10. Current'
    BY <2>1 DEF Current, InHand
  <2>11. Logins'
    BY <1>1, <2>1, <2>6 DEF Drain, Flow, Logins, InHand, Open, Told
  <2>12. SubscribedByLogin'
    BY DEF Drain, Flow, SubscribedByLogin
  <2> QED
    BY <2>8, <2>9, <2>10, <2>11, <2>12 DEF Flow
<1> QED
  BY <1>2, <1>3

LEMMA PushBackKeeps ==
  ASSUME Flow, PushBack
  PROVE  Flow'
<1> DEFINE m == Head(buffer)
<1>1. /\ buffer' \in Seq(Deferred) /\ m \in In(buffer) /\ m \in Deferred /\ In(buffer)' \subseteq In(buffer)
  BY TailParts DEF PushBack, Flow, Types
<1>2. m \in Queued /\ m.type # "login" /\ m.pushedBack
  BY <1>1 DEF Deferred
<1>3. queue' = Append(queue, m) /\ Len(queue) < Capacity
  BY DEF PushBack, Room
<1>4. queue' \in Seq(Queued) /\ Len(queue') = Len(queue) + 1 /\ In(queue)' = In(queue) \cup {m}
  <2>1. queue \in Seq(Queued)
    BY DEF Flow, Types
  <2> HIDE DEF m
  <2> QED
    BY <1>2, <1>3, <2>1, AppendParts
<1>5. Distinct(buffer)' /\ \A x \in In(buffer)' : x.id # m.id
  BY DistinctTail DEF PushBack, Flow, Types, Numbers
<1>6. Distinct(queue)'
  BY <1>1, <1>2, <1>3, DistinctAppend DEF Flow, Types, Numbers
<1>7. InOrder(queue)'
  BY <1>2, <1>3, InOrderAppend DEF Flow, Types, Logins, Knows
<1>8. m.type = "report" => m.order \in Orders
  BY <1>2 DEF Queued
<1>9. overtaken' \subseteq Orders
  BY <1>8 DEF PushBack, Flow, Types
<1> HIDE DEF m
<1>10. Types'
  <2>1. Len(queue') <= Capacity
    BY <1>3, <1>4, Counters, Larger DEF Flow
  <2> QED
    BY <1>1, <1>4, <1>9, <2>1 DEF PushBack, Flow, Types
<1>11. Numbers'
  <2>1. hand' = hand /\ received' = received /\ handled' = handled
    BY DEF PushBack
  <2> QED
    BY <1>1, <1>4, <1>5, <1>6, <2>1 DEF Flow, Numbers, Pending
<1>12. Current'
  BY DEF PushBack, Flow, Current, InHand, Open
<1>13. Logins'
  BY <1>2, <1>4, <1>7 DEF PushBack, Flow, Logins, InHand, Open, Told
<1>14. SubscribedByLogin'
  BY DEF PushBack, Flow, SubscribedByLogin
<1> QED
  BY <1>10, <1>11, <1>12, <1>13, <1>14 DEF Flow

LEMMA RestartKeeps ==
  ASSUME Flow, Restart
  PROVE  Flow'
<1>1. Types'
  <2>1. forwarded \subseteq 1 .. received
    BY DEF Flow, Types
  <2> QED
    <3>1. connection' \in [Conns -> [state : {"none", "open", "closed"}, authenticated : BOOLEAN,
                                     session : Sessions \cup {NoSession}]]
      BY DEF Restart, NotAccepted, Connection
    <3>2. queue' \in Seq(Queued) /\ Len(queue') <= Capacity /\ buffer' \in Seq(Deferred)
      BY EmptySeq, Sizes DEF Restart
    <3>3. references' \subseteq Orders /\ round' \in 0 .. Rounds
      BY Sizes DEF Restart, Known
    <3>4. crashes' \in Nat
      BY Counters DEF Restart, Flow
    <3>5. handled' = 1 .. received /\ received' = received /\ forwarded' = forwarded
      BY DEF Restart
    <3> QED
      BY <2>1, <3>1, <3>2, <3>3, <3>4, <3>5 DEF Restart, Flow, Types
<1>2. Numbers' /\ Current' /\ Logins' /\ SubscribedByLogin'
  BY EmptySeq DEF Restart, Numbers, Pending, Current, InHand, Logins, Open, SubscribedByLogin,
                  NotAccepted, Connection
<1> QED
  BY <1>1, <1>2 DEF Flow

LEMMA ServerNextKeeps ==
  ASSUME Flow, ServerNext
  PROVE  Flow'
<1>1. CASE Work
  BY <1>1, TakeKeeps, DecideKeeps, HandleLoginKeeps, HandleRequestKeeps, HandleReportKeeps, TurnKeeps,
     DrainKeeps, PushBackKeeps DEF Work
<1> QED
  BY <1>1, NetworkKeeps, RestartKeeps DEF ServerNext

LEMMA OthersKeep ==
  ASSUME Flow, UNCHANGED <<netVars, workVars, restVars>>
  PROVE  Flow'
BY StillKeeps DEF netVars, workVars, restVars, Flow, Types

-----------------------------------------------------------------------------
(* The grounds of what is in hand.                                         *)

Grounded ==
  /\ grounds \in [Ids -> SUBSET Sessions]
  /\ \A type \in Requests : InHand(type) /\ hand.asked = "allowed" => hand.session \in grounds[hand.msg.id]

ServerInv == AuthInv /\ Flow /\ Grounded

\* What the history adds for a message that waits.
LEMMA WatchedAdds ==
  ASSUME Grounded, Watched, received' \in 0 .. MaxMessages
  PROVE  /\ grounds' \in [Ids -> SUBSET Sessions]
         /\ \A i \in 1 .. received' : i \notin handled' =>
              grounds[i] \subseteq grounds'[i] /\ \A s \in Sessions : Permitted(s)' => s \in grounds'[i]
<1>1. \A i \in 1 .. received' : i \in Ids /\ ~(i > received')
  BY Sizes DEF Ids
<1>2. \A i \in Ids : grounds[i] \subseteq Sessions
  BY DEF Grounded
<1> QED
  BY <1>1, <1>2 DEF Watched

\* A request can only become allowed by a decision of the service.
LEMMA Allowing ==
  ASSUME Flow, ServerNext, NEW type \in Requests, InHand(type)', hand'.asked = "allowed"
  PROVE  \/ hand' = hand
         \/ Decide(TRUE) /\ hand'.msg = hand.msg /\ hand'.session = hand.session /\ InHand(type)
<1>1. CASE Take \/ Drain
  <2>1. queue # <<>> => Head(queue) \in Queued
    BY TailParts DEF Flow, Types
  <2>2. hand' = hand \/ (hand' = Begun(Head(queue)) /\ queue # <<>>)
    BY <1>1 DEF Take, Drain
  <2> QED
    BY <2>1, <2>2, BegunFields DEF InHand, Requests
<1>2. ASSUME NEW allowed \in BOOLEAN, Decide(allowed)
      PROVE  Decide(TRUE) /\ hand'.msg = hand.msg /\ hand'.session = hand.session /\ InHand(type)
  <2>1. hand # Empty /\ hand \in Held /\ hand.asked = "service"
    BY <1>2, EmptyHand, HandFields DEF Decide, Flow
  <2>2. hand' = [hand EXCEPT !.asked = IF allowed THEN "allowed" ELSE "denied"]
    BY <1>2 DEF Decide
  <2>3. allowed = TRUE
    BY <2>1, <2>2 DEF Held
  <2> QED
    BY <1>2, <2>1, <2>2, <2>3 DEF InHand, Held
<1>3. CASE HandleLogin \/ (\E policy \in BOOLEAN : HandleRequest(policy)) \/ HandleReport \/ Restart
  <2>1. hand' = Empty
    BY <1>3 DEF HandleLogin, HandleRequest, HandleReport, Restart, Ends
  <2> QED
    BY <2>1 DEF InHand
<1>4. CASE Turn \/ Drained \/ PushBack \/ Replay
  BY <1>4 DEF Turn, Drained, PushBack, Replay
<1>5. CASE Network
  BY <1>5 DEF Network, Accept, Close, ReceiveLogin, ReceiveRequest, ReceiveReport, workVars
<1> QED
  BY <1>1, <1>2, <1>3, <1>4, <1>5 DEF ServerNext, Work

LEMMA GroundedStep ==
  ASSUME ServerInv, Flow', Watched,
         \/ ServerNext /\ UNCHANGED authVars
         \/ AuthNext /\ UNCHANGED <<netVars, workVars, restVars>>
  PROVE  Grounded'
<1>1. received' \in 0 .. MaxMessages
  BY DEF Flow, Types
<1>2. ASSUME NEW type \in Requests, InHand(type)', hand'.asked = "allowed"
      PROVE  hand'.session \in grounds'[hand'.msg.id]
  <2>1. hand'.msg.id \in 1 .. received' /\ hand'.msg.id \notin handled'
    BY <1>2 DEF Flow, Numbers, InHand
  <2>2. /\ grounds[hand'.msg.id] \subseteq grounds'[hand'.msg.id]
        /\ \A s \in Sessions : Permitted(s)' => s \in grounds'[hand'.msg.id]
    BY <1>1, <2>1, WatchedAdds DEF ServerInv
  <2>3. CASE hand' = hand
    BY <1>2, <2>2, <2>3 DEF ServerInv, Grounded, InHand
  <2>4. CASE ~(hand' = hand)
    <3>1. ServerNext /\ UNCHANGED authVars
      BY <2>4 DEF workVars
    <3>2. Decide(TRUE) /\ hand'.msg = hand.msg /\ hand'.session = hand.session /\ InHand(type)
      BY <1>2, <2>4, <3>1, Allowing DEF ServerInv
    <3>3. Permitted(hand.session)
      BY <3>2 DEF Decide, Answer, InHand, Requests
    <3>4. hand.session \in Sessions
      BY <3>3 DEF Permitted, Valid, ServerInv, AuthInv, AuthTypeOK
    <3>5. Permitted(hand.session)'
      BY <3>1, <3>2, <3>3 DEF Permitted, Valid, authVars
    <3> QED
      BY <2>2, <3>2, <3>4, <3>5
  <2> QED
    BY <2>3, <2>4
<1> QED
  BY <1>1, <1>2, WatchedAdds DEF ServerInv, Grounded

LEMMA ServerInvInit == Init => ServerInv
BY AuthInvInit, FlowInit DEF Init, ServerInv, Grounded, InHand

LEMMA ServerInvStep == ServerInv /\ [Next]_vars => ServerInv'
<1> SUFFICES ASSUME ServerInv, [Next]_vars PROVE ServerInv'
  OBVIOUS
<1>1. CASE Next
  <2>1. AuthInv'
    BY <1>1, AuthInvStep DEF Next, ServerInv
  <2>2. Flow'
    BY <1>1, ServerNextKeeps, OthersKeep DEF Next, ServerInv
  <2>3. Grounded'
    BY <1>1, <2>2, GroundedStep DEF Next
  <2> QED
    BY <2>1, <2>2, <2>3 DEF ServerInv
<1>2. CASE UNCHANGED vars
  <2>1. AuthInv' /\ Flow'
    BY <1>2, AuthInvStep, OthersKeep DEF vars, ServerInv
  <2>2. Grounded'
    BY <1>2 DEF vars, workVars, ServerInv, Grounded, InHand
  <2> QED
    BY <2>1, <2>2 DEF ServerInv
<1> QED
  BY <1>1, <1>2

LEMMA ServerAlways == Spec => []ServerInv
BY ServerInvInit, ServerInvStep, PTL DEF Spec

-----------------------------------------------------------------------------
(* The reports, the log and the references.                                *)

About(m, o) == m.type = "report" /\ m.order = o
Entry(m) == [id |-> m.id, order |-> m.order, status |-> m.status]
Reporting == hand # Empty /\ hand.msg.type = "report"

Sorted(seq, o) ==
  \A i, j \in 1 .. Len(seq) : i < j /\ About(seq[i], o) /\ About(seq[j], o) => seq[i].id < seq[j].id
LogSorted(o) ==
  \A i, j \in 1 .. Len(log) : i < j /\ log[i].order = o /\ log[j].order = o => log[i].id < log[j].id
LogBefore(o) == \A i \in 1 .. Len(log), m \in Pending : log[i].order = o /\ About(m, o) => log[i].id < m.id
Behind(o) == \A m \in In(buffer), n \in In(queue) : About(m, o) /\ About(n, o) => m.id < n.id
Followed(o) ==
  \A i \in 1 .. Len(log) :
    Newest(i) /\ Applied(i) /\ log[i].order = o => (o \in references <=> log[i].status \notin Terminal)

\* The reports of an order that none overtook are in the order they were sent,
\* in the log, in the queue and in what the replay keeps back; the log has what
\* is handled, and what is in hand as its last.
ReportInv ==
  /\ mode = "work" => buffer = <<>>
  /\ ~SnapShot => log = <<>>
  /\ \A i \in 1 .. Len(log) : log[i].id \in handled \/ (Reporting /\ log[i] = Entry(hand.msg))
  /\ Reporting /\ SnapShot => log # <<>> /\ log[Len(log)] = Entry(hand.msg)
  /\ \A o \in Orders \ overtaken :
       /\ Sorted(queue, o) /\ Sorted(buffer, o) /\ LogSorted(o) /\ LogBefore(o)
       /\ mode = "drain" => Behind(o)
       /\ Followed(o)

LEMMA SortedTail ==
  ASSUME NEW S, NEW q \in Seq(S), q # <<>>, NEW o, Sorted(q, o)
  PROVE  /\ Sorted(Tail(q), o)
         /\ \A m \in In(Tail(q)) : About(Head(q), o) /\ About(m, o) => Head(q).id < m.id
<1>1. Len(q) \in Nat \ {0} /\ Len(Tail(q)) = Len(q) - 1 /\ Head(q) = q[1]
  OBVIOUS
<1>2. \A i \in 1 .. Len(q) - 1 : Tail(q)[i] = q[i + 1] /\ i + 1 \in 1 .. Len(q) /\ 1 < i + 1
  BY <1>1
<1>3. \A i, j \in 1 .. Len(q) - 1 : i < j => i + 1 < j + 1
  BY <1>1
<1>4. Sorted(Tail(q), o)
  BY <1>1, <1>2, <1>3 DEF Sorted
<1>5. \A i \in 1 .. Len(q) - 1 : About(q[1], o) /\ About(q[i + 1], o) => q[1].id < q[i + 1].id
  BY <1>1, <1>2 DEF Sorted
<1> QED
  BY <1>1, <1>2, <1>4, <1>5 DEF In

LEMMA SortedAppend ==
  ASSUME NEW S, NEW q \in Seq(S), NEW m \in S, NEW o, Sorted(q, o),
         About(m, o) => \A x \in In(q) : About(x, o) => x.id < m.id
  PROVE  Sorted(Append(q, m), o)
<1>1. Len(q) \in Nat /\ Len(Append(q, m)) = Len(q) + 1
  OBVIOUS
<1>2. \A i \in 1 .. Len(q) : Append(q, m)[i] = q[i] /\ q[i] \in In(q)
  BY <1>1 DEF In
<1>3. Append(q, m)[Len(q) + 1] = m
  BY <1>1
<1>4. \A i, j \in 1 .. Len(q) + 1 : i < j => i \in 1 .. Len(q) /\ (j \in 1 .. Len(q) \/ j = Len(q) + 1)
  BY <1>1
<1> QED
  BY <1>1, <1>2, <1>3, <1>4 DEF Sorted

\* The last of a log is its newest report of an order, and others stay what they are.
LEMMA LogParts ==
  ASSUME NEW l \in Seq(Logged), NEW e
  PROVE  /\ Len(l) \in Nat /\ Len(Append(l, e)) = Len(l) + 1 /\ Append(l, e)[Len(l) + 1] = e
         /\ Append(l, e) # <<>>
         /\ \A i \in 1 .. Len(l) : Append(l, e)[i] = l[i] /\ i \in 1 .. Len(l) + 1
         /\ \A i \in 1 .. Len(l) + 1 : i \in 1 .. Len(l) \/ i = Len(l) + 1
<1> PICK n \in Nat : n = Len(l)
  OBVIOUS
<1>1. Len(Append(l, e)) = n + 1 /\ Append(l, e)[n + 1] = e /\ \A i \in 1 .. n : Append(l, e)[i] = l[i]
  OBVIOUS
<1>2. \A i \in 1 .. n + 1 : i \in 1 .. n \/ i = n + 1
  OBVIOUS
<1>3. Append(l, e) # <<>>
  BY <1>1
<1> QED
  BY <1>1, <1>2, <1>3

\* Numbers of what is in the log were given.
LEMMA LogNumbers ==
  ASSUME Flow, ReportInv, NEW i \in 1 .. Len(log)
  PROVE  log[i].id \in 1 .. received /\ log[i].order \in Orders /\ log[i].status \in Statuses
<1>1. log \in Seq(Logged) /\ handled \subseteq 1 .. received
  BY DEF Flow, Types
<1>2. log[i] \in Logged
  BY <1>1
<1>3. Reporting => hand.msg.id \in 1 .. received
  BY DEF Flow, Numbers, Reporting
<1>4. log[i] = Entry(hand.msg) => log[i].id = hand.msg.id
  BY DEF Entry
<1> QED
  BY <1>1, <1>2, <1>3, <1>4 DEF ReportInv, Logged

\* Steps that move no message.
LEMMA QuietReports ==
  ASSUME ReportInv, UNCHANGED <<queue, buffer, log, handled, references, overtaken>>,
         hand' = Empty <=> hand = Empty, hand # Empty => hand'.msg = hand.msg,
         mode' = mode \/ buffer = <<>> \/ mode' = "push back"
  PROVE  ReportInv'
<1>1. /\ Reporting' <=> Reporting
      /\ Reporting => hand'.msg = hand.msg
  BY DEF Reporting
<1>2. \A i : Applied(i)' <=> Applied(i)
  BY DEF Applied
<1>3. \A i : Newest(i)' <=> Newest(i)
  BY DEF Newest
<1>4. ASSUME NEW o \in Orders \ overtaken
      PROVE  /\ Sorted(queue, o)' /\ Sorted(buffer, o)' /\ LogSorted(o)' /\ LogBefore(o)'
             /\ mode' = "drain" => Behind(o)'
             /\ Followed(o)'
  <2>1. Sorted(queue, o) /\ Sorted(buffer, o) /\ LogSorted(o) /\ LogBefore(o) /\ Followed(o)
        /\ (mode = "drain" => Behind(o))
    BY DEF ReportInv
  <2>2. Sorted(queue, o)' /\ Sorted(buffer, o)' /\ LogSorted(o)' /\ LogBefore(o)'
    BY <2>1 DEF Sorted, LogSorted, LogBefore, Pending
  <2>3. Followed(o)'
    BY <1>2, <1>3, <2>1 DEF Followed
  <2>4. buffer = <<>> => In(buffer) = {}
    BY EmptySeq
  <2>5. mode' = "drain" => Behind(o)'
    BY <2>1, <2>4 DEF Behind
  <2> QED
    BY <2>2, <2>3, <2>5
<1>5. mode' = "work" => buffer' = <<>>
  BY DEF ReportInv
<1> QED
  BY <1>1, <1>4, <1>5 DEF ReportInv

\* What arrives is newer than everything.
LEMMA ReceiveReports ==
  ASSUME Flow, ReportInv, NEW m \in Queued, m.id = received + 1, queue' = Append(queue, m),
         UNCHANGED <<workVars, restVars>>
  PROVE  ReportInv'
<1> USE DEF workVars, restVars
<1>1. queue \in Seq(Queued) /\ received \in Nat /\ \A n \in Pending : n.id \in 1 .. received
  BY Counters DEF Flow, Numbers
<1>2. In(queue)' = In(queue) \cup {m}
  BY <1>1, AppendParts
<1>3. \A k \in 1 .. received : k < m.id
  BY <1>1
<1>4. \A n \in Pending : n.id < m.id
  BY <1>1, <1>3
<1>5. ASSUME NEW o \in Orders \ overtaken
      PROVE  /\ Sorted(queue, o)' /\ Sorted(buffer, o)' /\ LogSorted(o)' /\ LogBefore(o)'
             /\ mode' = "drain" => Behind(o)'
             /\ Followed(o)'
  <2>1. Sorted(queue, o) /\ Sorted(buffer, o) /\ LogSorted(o) /\ LogBefore(o) /\ Followed(o)
        /\ (mode = "drain" => Behind(o))
    BY DEF ReportInv
  <2>2. Sorted(queue, o)'
    BY <1>1, <1>4, <2>1, SortedAppend DEF Pending
  <2>3. Sorted(buffer, o)' /\ LogSorted(o)' /\ Followed(o)'
    BY <2>1 DEF Sorted, LogSorted, Followed, Newest, Applied
  <2>4. LogBefore(o)'
    <3>1. \A i \in 1 .. Len(log) : log[i].id < m.id
      BY <1>3, LogNumbers
    <3> QED
      BY <1>2, <2>1, <3>1 DEF LogBefore, Pending
  <2>5. mode' = "drain" => Behind(o)'
    BY <1>2, <1>4, <2>1 DEF Behind, Pending
  <2> QED
    BY <2>2, <2>3, <2>4, <2>5
<1> QED
  BY <1>5 DEF ReportInv, Reporting

\* Messages other than reports are neither in the log nor known to it.
LEMMA DoneReports ==
  ASSUME Flow, ReportInv, hand # Empty, hand.msg.type # "report", Ends,
         UNCHANGED <<queue, buffer, log, references, overtaken, mode>>
  PROVE  ReportInv'
<1>1. hand' = Empty /\ handled \subseteq handled'
  BY DEF Ends
<1>2. \A i \in 1 .. Len(log) : log[i].id \in handled
  BY DEF ReportInv, Reporting
<1>3. \A i \in 1 .. Len(log) : Applied(i)
  BY <1>2 DEF Flow, Numbers, Applied
<1>4. ASSUME NEW o \in Orders \ overtaken
      PROVE  /\ Sorted(queue, o)' /\ Sorted(buffer, o)' /\ LogSorted(o)' /\ LogBefore(o)'
             /\ mode' = "drain" => Behind(o)'
             /\ Followed(o)'
  <2>1. Sorted(queue, o) /\ Sorted(buffer, o) /\ LogSorted(o) /\ LogBefore(o) /\ Followed(o)
        /\ (mode = "drain" => Behind(o))
    BY DEF ReportInv
  <2>2. Followed(o)'
    BY <1>3, <2>1 DEF Followed, Newest
  <2> QED
    BY <2>1, <2>2 DEF Sorted, LogSorted, LogBefore, Behind, Pending
<1> QED
  BY <1>1, <1>2, <1>4 DEF ReportInv, Reporting

\* The report that is applied is the newest of its order in the log.
LEMMA HandleReportReports ==
  ASSUME Flow, ReportInv, HandleReport
  PROVE  ReportInv'
<1> DEFINE m == hand.msg
<1>1. /\ hand # Empty /\ Reporting /\ m.order \in Orders /\ hand' = Empty
      /\ handled' = handled \cup {m.id} /\ m.id \notin handled
      /\ references' = Updated(references, m)
      /\ UNCHANGED <<queue, buffer, log, overtaken, mode>>
  BY EmptyHand, HandFields DEF HandleReport, Ends, netVars, Reporting, Flow, Numbers, Queued
<1>2. Entry(m).id = m.id /\ Entry(m).order = m.order /\ Entry(m).status = m.status
  BY DEF Entry
<1>3. \A i \in 1 .. Len(log) : log[i].id \in handled \/ log[i] = Entry(m)
  BY DEF ReportInv
<1>4. ASSUME NEW i \in 1 .. Len(log), Newest(i), log[i].order = m.order, m.order \notin overtaken
      PROVE  log[i] = Entry(m)
  <2>1. SnapShot /\ log # <<>> /\ log[Len(log)] = Entry(m)
    <3>1. log # <<>>
      OBVIOUS
    <3> QED
      BY <1>1, <3>1 DEF ReportInv
  <2>2. Len(log) \in Nat /\ log \in Seq(Logged)
    BY Counters DEF Flow
  <2>3. Len(log) \in 1 .. Len(log) /\ (i < Len(log) \/ i = Len(log))
    BY <2>2
  <2>4. log[Len(log)].id <= log[i].id
    BY <1>2, <1>4, <2>1, <2>3 DEF Newest
  <2>5. i < Len(log) => log[i].id < log[Len(log)].id
    BY <1>1, <1>2, <1>4, <2>1, <2>3 DEF ReportInv, LogSorted
  <2>6. log[i].id \in Nat /\ log[Len(log)].id \in Nat
    BY <2>3, LogNumbers
  <2> QED
    BY <2>1, <2>3, <2>4, <2>5, <2>6
<1>5. ASSUME NEW o \in Orders \ overtaken
      PROVE  /\ Sorted(queue, o)' /\ Sorted(buffer, o)' /\ LogSorted(o)' /\ LogBefore(o)'
             /\ mode' = "drain" => Behind(o)'
             /\ Followed(o)'
  <2>1. Sorted(queue, o) /\ Sorted(buffer, o) /\ LogSorted(o) /\ LogBefore(o) /\ Followed(o)
        /\ (mode = "drain" => Behind(o))
    BY DEF ReportInv
  <2>2. ASSUME NEW i \in 1 .. Len(log), Newest(i), log[i].order = o
        PROVE  o \in references' <=> log[i].status \notin Terminal
    <3>1. CASE m.order = o
      BY <1>1, <1>2, <1>4, <2>2, <3>1 DEF Updated
    <3>2. CASE m.order # o
      <4>1. Applied(i)
        BY <1>1, <1>2, <1>3, <2>2, <3>2 DEF Applied
      <4>2. o \in references <=> log[i].status \notin Terminal
        BY <2>1, <2>2, <4>1 DEF Followed
      <4> QED
        BY <1>1, <3>2, <4>2 DEF Updated
    <3> QED
      BY <3>1, <3>2
  <2>3. Followed(o)'
    BY <1>1, <2>2 DEF Followed, Newest
  <2> QED
    BY <1>1, <2>1, <2>3 DEF Sorted, LogSorted, LogBefore, Behind, Pending
<1>6. \A i \in 1 .. Len(log) : log[i].id \in handled'
  BY <1>1, <1>2, <1>3
<1> QED
  BY <1>1, <1>5, <1>6 DEF ReportInv, Reporting

\* The message that is taken leaves the queue for the log, if it is a report.
LEMMA TakeReports ==
  ASSUME Flow, ReportInv, Take
  PROVE  ReportInv'
<1> PICK m : m = Head(queue)
  OBVIOUS
<1>1. queue \in Seq(Queued) /\ queue # <<>> /\ log \in Seq(Logged) /\ hand = Empty /\ mode = "work"
  BY Counters DEF Flow, Take
<1>2. m \in Queued /\ m \in In(queue) /\ In(queue)' \subseteq In(queue)
  BY <1>1, TailParts DEF Take
<1>3. /\ hand' # Empty /\ hand'.msg = m
      /\ queue' = Tail(queue) /\ buffer = <<>> /\ In(buffer) = {}
      /\ log' = IF SnapShot /\ m.type = "report" THEN Append(log, Entry(m)) ELSE log
      /\ UNCHANGED <<buffer, mode, references, handled, overtaken>>
  BY <1>1, <1>2, BegunFields, EmptySeq DEF Take, restVars, Entry, ReportInv
<1>4. \A i \in 1 .. Len(log) : log[i].id \in handled
  BY <1>1 DEF ReportInv, Reporting
<1>5. m.id \notin handled /\ m.id \in Nat
  BY <1>2, Counters DEF Flow, Numbers, Pending
<1>6. Entry(m).id = m.id /\ Entry(m).order = m.order
  BY DEF Entry
<1>7. \A i \in 1 .. Len(log) : Applied(i) /\ (hand'.msg.id # log[i].id)
  BY <1>1, <1>3, <1>4, <1>5 DEF Applied
<1>8. ASSUME NEW o \in Orders \ overtaken
      PROVE  /\ Sorted(queue, o) /\ Sorted(buffer, o) /\ LogSorted(o) /\ LogBefore(o) /\ Followed(o)
             /\ Sorted(queue, o)' /\ Sorted(buffer, o)'
             /\ \A x \in In(queue)' : About(m, o) /\ About(x, o) => m.id < x.id
  <2>1. Sorted(queue, o) /\ Sorted(buffer, o) /\ LogSorted(o) /\ LogBefore(o) /\ Followed(o)
    BY DEF ReportInv
  <2>2. Sorted(queue, o)' /\ \A x \in In(queue)' : About(m, o) /\ About(x, o) => m.id < x.id
    BY <1>1, <1>3, <2>1, SortedTail
  <2>3. Sorted(buffer, o)'
    BY <1>3, <2>1 DEF Sorted
  <2> QED
    BY <2>1, <2>2, <2>3
<1>9. CASE log' = log /\ ~(SnapShot /\ m.type = "report")
  <2>1. ASSUME NEW o \in Orders \ overtaken PROVE LogSorted(o)' /\ LogBefore(o)' /\ Followed(o)'
    <3>1. LogSorted(o)' /\ LogBefore(o)'
      BY <1>2, <1>3, <1>8, <1>9 DEF LogSorted, LogBefore, Pending
    <3>2. Followed(o)'
      BY <1>3, <1>7, <1>8, <1>9 DEF Followed, Newest
    <3> QED
      BY <3>1, <3>2
  <2> QED
    BY <1>1, <1>3, <1>4, <1>8, <1>9, <2>1 DEF ReportInv, Reporting
<1>10. CASE SnapShot /\ m.type = "report" /\ log' = Append(log, Entry(m))
  <2> PICK n \in Nat : n = Len(log)
    BY <1>1, LogParts
  <2>1. /\ Len(log') = n + 1 /\ log'[n + 1] = Entry(m) /\ log' # <<>>
        /\ \A i \in 1 .. n : log'[i] = log[i] /\ i \in 1 .. n + 1
        /\ \A i \in 1 .. n + 1 : i \in 1 .. n \/ i = n + 1
    BY <1>1, <1>10, LogParts
  <2>2. ASSUME NEW o \in Orders \ overtaken PROVE LogSorted(o)' /\ LogBefore(o)' /\ Followed(o)'
    <3>1. \A i \in 1 .. n : log[i].order = o /\ m.order = o => log[i].id < m.id
      BY <1>2, <1>8, <1>10 DEF LogBefore, Pending, About
    <3>2. LogSorted(o)'
      <4>1. \A i, j \in 1 .. n + 1 : i < j => i \in 1 .. n
        OBVIOUS
      <4> QED
        BY <1>6, <1>8, <2>1, <3>1, <4>1 DEF LogSorted
    <3>3. LogBefore(o)'
      <4>1. \A i \in 1 .. n, x \in In(queue)' : log[i].order = o /\ About(x, o) => log[i].id < x.id
        BY <1>2, <1>8 DEF LogBefore, Pending
      <4>2. \A x \in In(queue)' : m.order = o /\ About(x, o) => m.id < x.id
        BY <1>8, <1>10 DEF About
      <4> QED
        BY <1>3, <1>6, <2>1, <4>1, <4>2 DEF LogBefore, Pending
    <3>4. ASSUME NEW i \in 1 .. n + 1, Newest(i)', Applied(i)', log'[i].order = o
          PROVE  o \in references <=> log'[i].status \notin Terminal
      <4>1. i \in 1 .. n
        BY <1>3, <1>6, <2>1, <3>4 DEF Applied
      <4>2. Newest(i)
        BY <2>1, <3>4, <4>1 DEF Newest
      <4> QED
        BY <1>7, <1>8, <2>1, <3>4, <4>1, <4>2 DEF Followed
    <3>5. Followed(o)'
      BY <1>3, <2>1, <3>4 DEF Followed
    <3> QED
      BY <3>2, <3>3, <3>5
  <2>3. \A i \in 1 .. n + 1 : log'[i].id \in handled' \/ log'[i] = Entry(m)
    BY <1>3, <1>4, <2>1
  <2>4. Reporting'
    BY <1>3, <1>10 DEF Reporting
  <2> QED
    BY <1>1, <1>3, <1>8, <1>10, <2>1, <2>2, <2>3, <2>4 DEF ReportInv
<1> QED
  BY <1>3, <1>9, <1>10

\* What the replay keeps back leaves the queue in its order.
LEMMA DrainReports ==
  ASSUME Flow, ReportInv, Drain
  PROVE  ReportInv'
<1> PICK m : m = Head(queue)
  OBVIOUS
<1> PICK later : later = [m EXCEPT !.pushedBack = TRUE]
  OBVIOUS
<1>1. queue \in Seq(Queued) /\ queue # <<>> /\ buffer \in Seq(Deferred) /\ hand = Empty /\ mode = "drain"
  BY Counters DEF Flow, Types, Drain
<1>2. m \in Queued /\ m \in In(queue) /\ In(queue)' \subseteq In(queue)
  BY <1>1, TailParts DEF Drain
<1>3. queue' = Tail(queue) /\ UNCHANGED <<mode, references, log, handled, overtaken>>
  BY DEF Drain, restVars
<1>4. \/ m.type = "login" /\ hand' = Begun(m) /\ buffer' = buffer
      \/ m.type # "login" /\ hand' = hand /\ buffer' = Append(buffer, later)
  BY DEF Drain, Buffered
<1>5. /\ later.id = m.id /\ \A o : About(later, o) <=> About(m, o)
      /\ m.type # "login" => later \in Deferred
  BY <1>2 DEF Deferred, Queued, Messages, About
<1>6. In(buffer)' \subseteq In(buffer) \cup {later}
  <2>1. ASSUME m.type # "login" PROVE In(Append(buffer, later)) = In(buffer) \cup {later}
    <3>1. later \in Deferred /\ buffer \in Seq(Deferred)
      BY <1>1, <1>5, <2>1
    <3> QED
      BY ONLY <3>1, AppendParts
  <2> QED
    BY <1>4, <2>1
<1>7. \A i \in 1 .. Len(log) : log[i].id \in handled
  BY <1>1 DEF ReportInv, Reporting
<1>8. ~Reporting' /\ (hand' # Empty => hand'.msg.id = m.id)
  BY <1>1, <1>2, <1>4, BegunFields DEF Reporting
<1>9. \A i \in 1 .. Len(log) : Applied(i) /\ Applied(i)'
  <2>1. m.id \notin handled
    BY <1>2 DEF Flow, Numbers, Pending
  <2> QED
    BY <1>1, <1>3, <1>7, <1>8, <2>1 DEF Applied
<1>10. ASSUME NEW o \in Orders \ overtaken
       PROVE  /\ Sorted(queue, o)' /\ Sorted(buffer, o)' /\ LogSorted(o)' /\ LogBefore(o)'
              /\ Behind(o)' /\ Followed(o)'
  <2>1. Sorted(queue, o) /\ Sorted(buffer, o) /\ LogSorted(o) /\ LogBefore(o) /\ Followed(o) /\ Behind(o)
    BY <1>1 DEF ReportInv
  <2>2. Sorted(queue, o)' /\ \A x \in In(queue)' : About(m, o) /\ About(x, o) => m.id < x.id
    BY <1>1, <1>3, <2>1, SortedTail
  <2>3. Sorted(buffer, o)'
    <3>1. About(later, o) => \A x \in In(buffer) : About(x, o) => x.id < later.id
      BY <1>2, <1>5, <2>1 DEF Behind
    <3>2. m.type # "login" => Sorted(Append(buffer, later), o)
      BY <1>1, <1>5, <2>1, <3>1, SortedAppend
    <3> QED
      BY <1>4, <2>1, <3>2 DEF Sorted
  <2>4. LogBefore(o)'
    BY <1>2, <1>3, <1>5, <1>6, <2>1 DEF LogBefore, Pending
  <2>5. Behind(o)'
    BY <1>2, <1>5, <1>6, <2>1, <2>2 DEF Behind
  <2>6. LogSorted(o)' /\ Followed(o)'
    BY <1>3, <1>9, <2>1 DEF LogSorted, Followed, Newest
  <2> QED
    BY <2>2, <2>3, <2>4, <2>5, <2>6
<1> QED
  BY <1>1, <1>3, <1>7, <1>8, <1>10 DEF ReportInv

\* A report that goes behind a newer one is noted; others stay in order.
LEMMA PushBackReports ==
  ASSUME Flow, ReportInv, PushBack
  PROVE  ReportInv'
<1> PICK m : m = Head(buffer)
  OBVIOUS
<1>1. queue \in Seq(Queued) /\ buffer \in Seq(Deferred) /\ buffer # <<>> /\ mode = "push back"
  BY Counters DEF Flow, Types, PushBack
<1>2. m \in Deferred /\ m \in In(buffer) /\ In(buffer)' \subseteq In(buffer)
  BY <1>1, TailParts DEF PushBack
<1>3. /\ queue' = Append(queue, m) /\ buffer' = Tail(buffer)
      /\ UNCHANGED <<hand, mode, references, log, handled>>
  BY DEF PushBack
<1>4. m \in Queued /\ In(queue)' = In(queue) \cup {m}
  <2>1. m \in Queued /\ queue \in Seq(Queued)
    BY <1>1, <1>2 DEF Deferred
  <2>2. In(Append(queue, m)) = In(queue) \cup {m}
    BY ONLY <2>1, AppendParts
  <2>3. In(queue)' = In(Append(queue, m))
    BY <1>3 DEF In
  <2> QED
    BY <2>1, <2>2, <2>3
<1>5. /\ overtaken \subseteq overtaken'
      /\ m.type = "report" /\ m.order \notin overtaken' => \A i \in Newer(m) : ~(queue[i].id > m.id)
  BY DEF PushBack
<1>6. \A x \in In(queue) : x.id # m.id /\ x.id \in Nat /\ m.id \in Nat
  <2>1. \A x \in Pending : x.id \in Nat
    BY Counters DEF Flow, Numbers
  <2> QED
    BY <1>2, <2>1 DEF Flow, Numbers, Pending
<1>7. ASSUME NEW o \in Orders \ overtaken'
      PROVE  /\ Sorted(queue, o)' /\ Sorted(buffer, o)' /\ LogSorted(o)' /\ LogBefore(o)' /\ Followed(o)'
  <2>1. Sorted(queue, o) /\ Sorted(buffer, o) /\ LogSorted(o) /\ LogBefore(o) /\ Followed(o)
    BY <1>5 DEF ReportInv
  <2>2. About(m, o) => \A x \in In(queue) : About(x, o) => x.id < m.id
    <3>1. ASSUME About(m, o), NEW i \in 1 .. Len(queue), About(queue[i], o)
          PROVE  queue[i].id < m.id
      <4>1. i \in Newer(m)
        BY <3>1 DEF Newer, About
      <4>2. ~(queue[i].id > m.id)
        BY <1>5, <3>1, <4>1 DEF About
      <4>3. queue[i] \in In(queue)
        BY DEF In
      <4> QED
        BY <1>6, <4>2, <4>3
    <3> QED
      BY <3>1 DEF In
  <2>3. Sorted(queue, o)'
    BY <1>1, <1>3, <1>4, <2>1, <2>2, SortedAppend
  <2>4. Sorted(buffer, o)'
    BY <1>1, <1>3, <2>1, SortedTail
  <2>5. LogBefore(o)'
    BY <1>2, <1>3, <1>4, <2>1 DEF LogBefore, Pending
  <2>6. LogSorted(o)' /\ Followed(o)'
    BY <1>3, <2>1 DEF LogSorted, Followed, Newest, Applied
  <2> QED
    BY <2>3, <2>4, <2>5, <2>6
<1> QED
  BY <1>1, <1>3, <1>7 DEF ReportInv, Reporting

\* The references that a start finds in a log that is in order.
LEMMA RestartReports ==
  ASSUME Flow, ReportInv, Restart
  PROVE  ReportInv'
<1>1. /\ queue' = <<>> /\ buffer' = <<>> /\ hand' = Empty /\ mode' = "work" /\ log' = log
      /\ references' = Known(log) /\ handled' = 1 .. received /\ overtaken' = overtaken
  BY DEF Restart
<1>2. Len(log) \in Nat
  BY Counters DEF Flow
<1>3. ASSUME NEW o \in Orders \ overtaken, NEW i \in 1 .. Len(log), Newest(i), log[i].order = o
      PROVE  o \in Known(log) <=> log[i].status \notin Terminal
  <2>1. LogSorted(o)
    BY DEF ReportInv
  <2>2. ASSUME NEW j \in 1 .. Len(log), log[j].order = o, i < j PROVE FALSE
    <3>1. log[j].id <= log[i].id /\ log[i].id < log[j].id
      BY <1>3, <2>1, <2>2 DEF Newest, LogSorted
    <3>2. log[i].id \in Nat /\ log[j].id \in Nat
      BY LogNumbers
    <3> QED
      BY <3>1, <3>2
  <2>3. \A j \in i + 1 .. Len(log) : log[j].order # o
    <3>1. \A j \in i + 1 .. Len(log) : j \in 1 .. Len(log) /\ i < j
      BY <1>2
    <3> QED
      BY <2>2, <3>1
  <2>4. ASSUME NEW k \in 1 .. Len(log), log[k].order = o, \A j \in k + 1 .. Len(log) : log[j].order # o
        PROVE  k = i
    <3>1. ~(k < i)
      <4>1. k < i => i \in k + 1 .. Len(log)
        BY <1>2
      <4> QED
        BY <1>3, <2>4, <4>1
    <3>2. ~(i < k)
      BY <2>2, <2>4
    <3> QED
      BY <1>2, <3>1, <3>2
  <2>5. CASE log[i].status \notin Terminal
    BY <1>3, <2>3, <2>5 DEF Known
  <2>6. CASE log[i].status \in Terminal
    BY <2>4, <2>6 DEF Known
  <2> QED
    BY <2>5, <2>6
<1>4. ASSUME NEW o \in Orders \ overtaken
      PROVE  /\ Sorted(queue, o)' /\ Sorted(buffer, o)' /\ LogSorted(o)' /\ LogBefore(o)' /\ Followed(o)'
  <2>1. LogSorted(o)'
    BY <1>1 DEF ReportInv, LogSorted
  <2>2. Sorted(queue, o)' /\ Sorted(buffer, o)' /\ LogBefore(o)'
    <3>1. Pending' = {}
      BY <1>1, EmptySeq DEF Pending
    <3>2. Len(queue') = 0 /\ Len(buffer') = 0
      BY <1>1
    <3> QED
      BY <3>1, <3>2 DEF Sorted, LogBefore
  <2>3. Followed(o)'
    BY <1>1, <1>3 DEF Followed, Newest
  <2> QED
    BY <2>1, <2>2, <2>3
<1>5. \A i \in 1 .. Len(log) : log[i].id \in handled'
  BY <1>1, LogNumbers
<1> QED
  BY <1>1, <1>4, <1>5 DEF ReportInv, Reporting

LEMMA ReportInvInit == Init => ReportInv
BY DEF Init, ReportInv, Reporting, Sorted, LogSorted, LogBefore, Behind, Followed

LEMMA NetworkReports ==
  ASSUME Flow, ReportInv, Network
  PROVE  ReportInv'
<1>1. ASSUME NEW c \in Conns, Accept(c) \/ Close(c) PROVE ReportInv'
  BY <1>1, QuietReports DEF Accept, Close, workVars, restVars
<1>2. ASSUME NEW type \in {"login", "order", "cancel", "subscribe", "report"},
             NEW c \in Conns \cup {Watcher}, NEW s \in Sessions \cup {NoSession},
             NEW o \in Orders \cup {NoOrder}, NEW status \in Statuses \cup {""},
             type # "report" => c \in Conns,
             type = "report" => o \in Orders /\ status \in Statuses,
             type = "login" => s \in Sessions,
             Receive(type, c, s, o, status), UNCHANGED <<workVars, restVars>>
      PROVE  ReportInv'
  <2> PICK m : m = [id |-> received + 1, type |-> type, conn |-> c, session |-> s, order |-> o,
                    status |-> status, pushedBack |-> FALSE,
                    before |-> IF c = Watcher THEN {} ELSE logins[c]]
    OBVIOUS
  <2>1. received \in Nat /\ received < MaxMessages /\ Watcher \notin Conns
    BY <1>2, Counters, Sizes DEF Flow, Receive
  <2>2. received + 1 \in Ids
    BY <2>1, NextNumber
  <2>3. (IF c = Watcher THEN {} ELSE logins[c]) \in SUBSET Sessions
    BY DEF Flow, Types
  <2>4. m \in Queued /\ m.id = received + 1
    BY <1>2, <2>2, <2>3 DEF Queued, Messages
  <2>5. queue' = Append(queue, m)
    BY <1>2 DEF Receive
  <2> QED
    BY <1>2, <2>4, <2>5, ReceiveReports
<1>3. ASSUME NEW c \in Conns, NEW s \in Sessions, ReceiveLogin(c, s) PROVE ReportInv'
  BY <1>2, <1>3 DEF ReceiveLogin
<1>4. ASSUME NEW c \in Conns, NEW type \in Requests, NEW o \in Orders \cup {NoOrder}, ReceiveRequest(c, type, o)
      PROVE  ReportInv'
  BY <1>2, <1>4 DEF ReceiveRequest, Requests
<1>5. ASSUME NEW o \in Orders, NEW status \in Statuses, ReceiveReport(o, status) PROVE ReportInv'
  BY <1>2, <1>5 DEF ReceiveReport
<1> QED
  BY <1>1, <1>3, <1>4, <1>5 DEF Network, Requests

LEMMA WorkReports ==
  ASSUME Flow, ReportInv, Work
  PROVE  ReportInv'
<1>1. ASSUME NEW allowed \in BOOLEAN, Decide(allowed) PROVE ReportInv'
  <2>1. hand # Empty /\ hand \in Held
    BY <1>1, EmptyHand, HandFields DEF Decide, Flow
  <2>2. hand' # Empty /\ hand'.msg = hand.msg
    BY <1>1, <2>1 DEF Decide, Held, Empty
  <2> QED
    BY <1>1, <2>1, <2>2, QuietReports DEF Decide, netVars, restVars
<1>2. CASE HandleLogin \/ \E policy \in BOOLEAN : HandleRequest(policy)
  <2>1. hand # Empty /\ hand.msg.type # "report" /\ Ends
        /\ UNCHANGED <<queue, buffer, log, references, overtaken, mode>>
    BY <1>2, EmptyHand DEF HandleLogin, HandleRequest, netVars
  <2> QED
    BY <2>1, DoneReports
<1>3. CASE Turn \/ Drained \/ Replay
  <2>1. UNCHANGED <<queue, buffer, log, handled, references, overtaken, hand>>
    BY <1>3 DEF Turn, Drained, Replay, netVars, restVars
  <2>2. mode' = mode \/ buffer = <<>> \/ mode' = "push back"
    BY <1>3 DEF Turn, Drained, Replay, ReportInv
  <2> QED
    BY <2>1, <2>2, QuietReports
<1> QED
  BY <1>1, <1>2, <1>3, TakeReports, HandleReportReports, DrainReports, PushBackReports DEF Work

LEMMA ReportInvStep == Flow /\ ReportInv /\ [Next]_vars => ReportInv'
<1> SUFFICES ASSUME Flow, ReportInv, [Next]_vars PROVE ReportInv'
  OBVIOUS
<1>1. CASE ServerNext
  BY <1>1, NetworkReports, WorkReports, RestartReports DEF ServerNext
<1>2. CASE UNCHANGED <<netVars, workVars, restVars>>
  BY <1>2, QuietReports DEF netVars, workVars, restVars
<1> QED
  BY <1>1, <1>2 DEF Next, vars

-----------------------------------------------------------------------------
(* What follows.                                                           *)

\* Only an allowed request is forwarded.
LEMMA ForwardsWhat ==
  ASSUME ServerInv, [Next]_vars, Forwards
  PROVE  \E type \in Requests : InHand(type) /\ hand.asked = "allowed"
<1>1. ASSUME NEW policy \in BOOLEAN, HandleRequest(policy)
      PROVE  \E type \in Requests : InHand(type) /\ hand.asked = "allowed"
  BY <1>1, EmptyHand DEF HandleRequest, Admitted, Forwards, InHand, Requests
<1>2. CASE Network \/ Restart
  BY <1>2 DEF Network, Accept, Close, ReceiveLogin, ReceiveRequest, ReceiveReport, restVars, Restart, Forwards
<1>3. CASE Take \/ HandleLogin \/ HandleReport \/ Turn \/ Drain \/ Drained \/ PushBack \/ Replay
  BY <1>3 DEF Take, HandleLogin, HandleReport, Turn, Drain, Drained, PushBack, Replay, restVars, Forwards
<1>4. CASE \E allowed \in BOOLEAN : Decide(allowed)
  BY <1>4 DEF Decide, restVars, Forwards
<1>5. CASE UNCHANGED restVars
  BY <1>5 DEF restVars, Forwards
<1> QED
  BY <1>1, <1>2, <1>3, <1>4, <1>5 DEF Next, ServerNext, Work, vars

LEMMA MessageSeqs == ASSUME Types PROVE queue \in Seq(Messages) /\ buffer \in Seq(Messages)
<1>1. Queued \subseteq Messages /\ Deferred \subseteq Messages
  BY DEF Queued, Deferred
<1>2. \A S, T : S \subseteq T => Seq(S) \subseteq Seq(T)
  OBVIOUS
<1>3. queue \in Seq(Queued) /\ buffer \in Seq(Deferred)
  BY DEF Types
<1> QED
  BY <1>1, <1>2, <1>3

\* For any connections, messages and ends of the process: every variable of the
\* server and the service keeps its type.
THEOREM ServerTypeOK == Spec => []TypeOK
<1>1. ASSUME ServerInv PROVE TypeOK
  <2>1. Inbound(queue) /\ Inbound(buffer)
    <3>1. queue \in Seq(Messages) /\ buffer \in Seq(Messages)
      BY <1>1, MessageSeqs DEF ServerInv, Flow
    <3> QED
      BY <3>1 DEF Inbound
  <2>2. \A i \in 1 .. Len(log) : log[i] \in Logged
    <3>1. log \in Seq(Logged)
      BY <1>1 DEF ServerInv, Flow, Types
    <3> QED
      BY <3>1
  <2>3. handled \subseteq Ids /\ {received, crashes} \subseteq Nat
    <3>1. received \in Nat /\ received <= MaxMessages /\ crashes \in Nat /\ handled \subseteq 1 .. received
      BY <1>1, Counters DEF ServerInv, Flow, Types
    <3> QED
      BY <3>1, Sizes DEF Ids
  <2>4. hand \in {Empty} \cup [asked : {"service", "allowed", "denied"}, msg : Messages,
                               session : Sessions \cup {NoSession}]
    BY <1>1 DEF ServerInv, Flow, Types, Held, Queued
  <2> QED
    BY <1>1, <2>1, <2>2, <2>3, <2>4 DEF ServerInv, AuthInv, Flow, Types, Grounded, TypeOK
<1> QED
  BY <1>1, ServerAlways, PTL

\* For any messages and any replay that takes the queue apart: no message is on
\* its way twice, or after it was handled.
THEOREM HandledOnceAlways == Spec => []HandledOnce
<1>1. ASSUME ServerInv PROVE HandledOnce
  <2> DEFINE last == IF hand = Empty THEN <<>> ELSE <<hand.msg>>
  <2>1. queue \in Seq(Messages) /\ buffer \in Seq(Messages) /\ last \in Seq(Messages) /\ Len(last) \in 0 .. 1
    <3>1. queue \in Seq(Messages) /\ buffer \in Seq(Messages)
      BY <1>1, MessageSeqs DEF ServerInv, Flow
    <3>2. hand # Empty => hand.msg \in Messages
      BY <1>1, HandFields DEF ServerInv, Flow, Queued
    <3> QED
      BY <3>1, <3>2
  <2>2. \A i \in 1 .. Len(last) : hand # Empty /\ i = 1 /\ last[i] = hand.msg
    BY <2>1
  <2>3. \A i \in 1 .. Len(queue) : queue[i] \in In(queue)
    BY DEF In
  <2>4. \A i \in 1 .. Len(buffer) : buffer[i] \in In(buffer)
    BY DEF In
  <2> DEFINE q == Len(queue)
             b == Len(buffer)
             n == q + b + Len(last)
  <2> HIDE DEF last
  <2>5. q \in Nat /\ b \in Nat /\ Len(last) \in Nat /\ Waiting = queue \o buffer \o last /\ Len(Waiting) = n
    BY <2>1 DEF Waiting, last
  <2>6. ASSUME NEW i \in 1 .. n
        PROVE  \/ i \in 1 .. q /\ Waiting[i] = queue[i]
               \/ i - q \in 1 .. b /\ Waiting[i] = buffer[i - q]
               \/ i - q - b \in 1 .. Len(last) /\ Waiting[i] = last[i - q - b]
    BY <2>1, <2>5
  <2>7. ASSUME NEW i \in 1 .. n PROVE Waiting[i].id \notin handled
    BY <1>1, <2>2, <2>3, <2>4, <2>6 DEF ServerInv, Flow, Numbers, Pending
  <2>8. ASSUME NEW i \in 1 .. n, NEW j \in 1 .. i - 1 PROVE Waiting[i].id # Waiting[j].id
    <3>1. j \in 1 .. n /\ j # i
      BY <2>5
    <3>2. /\ Distinct(queue) /\ Distinct(buffer)
          /\ \A x \in In(queue), y \in In(buffer) : x.id # y.id
          /\ hand # Empty => \A x \in In(queue) \cup In(buffer) : x.id # hand.msg.id
      BY <1>1 DEF ServerInv, Flow, Numbers, Pending
    <3>3. CASE i \in 1 .. q /\ Waiting[i] = queue[i]
      BY <2>2, <2>3, <2>4, <2>6, <3>1, <3>2, <3>3 DEF Distinct
    <3>4. CASE i - q \in 1 .. b /\ Waiting[i] = buffer[i - q]
      <4>1. CASE j \in 1 .. q /\ Waiting[j] = queue[j]
        BY <2>3, <2>4, <3>2, <3>4, <4>1
      <4>2. CASE j - q \in 1 .. b /\ Waiting[j] = buffer[j - q]
        <5>1. i - q # j - q
          BY <2>5, <3>1
        <5> QED
          BY <3>2, <3>4, <4>2, <5>1 DEF Distinct
      <4>3. CASE j - q - b \in 1 .. Len(last) /\ Waiting[j] = last[j - q - b]
        BY <2>2, <2>4, <3>2, <3>4, <4>3
      <4> QED
        BY <2>6, <3>1, <4>1, <4>2, <4>3
    <3>5. CASE i - q - b \in 1 .. Len(last) /\ Waiting[i] = last[i - q - b]
      BY <2>2, <2>3, <2>4, <2>5, <2>6, <3>1, <3>2, <3>5 DEF Distinct
    <3> QED
      BY <2>6, <3>3, <3>4, <3>5
  <2> QED
    BY <2>5, <2>7, <2>8 DEF HandledOnce
<1> QED
  BY <1>1, ServerAlways, PTL

\* For any connections that log in, log in again and close: a connection's
\* subscription was made under the login it has.
THEOREM SubscribedByLoginAlways == Spec => []SubscribedByLogin
<1>1. ServerInv => SubscribedByLogin
  BY DEF ServerInv, Flow
<1> QED
  BY <1>1, ServerAlways, PTL

\* For any order of logins and requests: what is forwarded is forwarded under a
\* session that logged in on the connection before, unless it was pushed back.
THEOREM ForwardedOnOwnLoginAlways == Spec => ForwardedOnOwnLogin
<1>1. ServerInv /\ [Next]_vars => [Forwards => hand.msg.pushedBack \/ hand.session \in hand.msg.before]_vars
  BY ForwardsWhat DEF ServerInv, Flow, Logins
<1> QED
  BY <1>1, ServerAlways, PTL DEF Spec, ForwardedOnOwnLogin

\* For any reports, replays and ends of the process: an order no report of which
\* was overtaken can be cancelled exactly when its newest report says so.
THEOREM ReferencesFollowReportsAlways == Spec => []ReferencesFollowReports
<1>1. ServerInv => Flow
  BY DEF ServerInv
<1>2. ASSUME Flow, ReportInv PROVE ReferencesFollowReports
  BY <1>2, LogNumbers DEF ReportInv, Followed, ReferencesFollowReports
<1>3. Spec => []ReportInv
  BY <1>1, ReportInvInit, ReportInvStep, ServerAlways, PTL DEF Spec
<1> QED
  BY <1>1, <1>2, <1>3, ServerAlways, PTL

\* For any changes of grants, identities and sessions meanwhile: what is
\* forwarded was permitted at some moment since it arrived.
THEOREM ForwardedOnGroundsAlways == Spec => ForwardedOnGrounds
<1>1. ServerInv /\ [Next]_vars => [Forwards => hand.session \in grounds[hand.msg.id]]_vars
  BY ForwardsWhat DEF ServerInv, Grounded
<1> QED
  BY <1>1, ServerAlways, PTL DEF Spec, ForwardedOnGrounds

\* The grants of the service the server asks agree as they do without it.
THEOREM ServerGrantsAgree == Spec => []GrantsAgree
<1>1. ServerInv => GrantsAgree
  BY AuthInvAgrees DEF ServerInv
<1> QED
  BY <1>1, ServerAlways, PTL

=============================================================================
