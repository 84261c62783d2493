------------------------------ MODULE ServerEngine ------------------------------
(***************************************************************************)
(* XServer: its network thread (HPPackServer.cpp), its work thread         *)
(* (ServerEngine.cpp), and the authorization service they ask.             *)
(*                                                                         *)
(* The network thread keeps the connections and queues what arrives; the   *)
(* work thread takes one message at a time, asks the service under the     *)
(* session the connection has at that moment, waits, and then forwards,    *)
(* refuses, or logs in.  Connections may close, log in again or lose their *)
(* rights while it waits.  Outside trading hours it also replays the       *)
(* history to new logins, and for that handles the logins in the queue     *)
(* before everything else in it.                                           *)
(*                                                                         *)
(* The connections here are desktops (EXMONITOR).  What is forwarded goes  *)
(* to whatever watcher of the Colo is connected, and reports may come from *)
(* it at any time; reports without an OrderRef change nothing and are left *)
(* out, and so is what is relayed to the desktops (reports, funds,         *)
(* positions, logs, market data).  Authorization and the published policy  *)
(* are enabled.                                                            *)
(***************************************************************************)
EXTENDS AuthService, Sequences

CONSTANTS
  Conns, Orders, NoSession, NoOrder,
  Watcher,      \* the connection of the XWatcher
  Statuses,     \* the statuses that reports have, of OrderStatusType
  Capacity,     \* of m_PackMessageQueue
  Rounds,       \* turns of the replay loop that the history takes
  SnapShot,     \* whether messages are written to a file and read at a start
  MaxMessages,  \* bound: messages received
  MaxCrashes,   \* bound: ends of the process
  MaxEvents     \* bound: once somebody came, messages and twice the changes of the service and ends

ASSUME ServerAssumption ==
  /\ Watcher \notin Conns /\ NoSession \notin Sessions /\ NoOrder \notin Orders /\ SnapShot \in BOOLEAN
  /\ Statuses \subseteq {"exchange_ack", "part_traded", "all_traded", "cancelled", "part_traded_cancelled",
                          "broker_error", "exchange_error"}
  /\ {Capacity, Rounds, MaxMessages, MaxCrashes, MaxEvents} \subseteq Nat

VARIABLES
  connection,  \* m_sConnections
  newConns,    \* m_newConnections: logins the history was not replayed to yet
  queue,       \* m_PackMessageQueue
  hand,        \* the message the work thread is at, with what it asked for it
  mode,        \* where the work thread is: at the queue, or in the replay
  round,       \* turns of the replay loop done
  buffer,      \* bufferQueue: what the replay took out and pushes back
  trading,     \* m_Trading
  subscribed,  \* m_MarketSubscriptions: the session whose subscription each connection has
  references,  \* m_OrderReferences: orders that can be cancelled
  log,         \* the reports in the snapshot file
  received, crashes,  \* counters for the bounds
  forwarded,   \* the requests that were sent on to the watcher
  handled,     \* history: the messages the work thread is done with, or lost
  logins,      \* history: sessions that login messages on each connection named
  grounds,     \* history: for a message not handled yet, the sessions permitted at some moment since
  overtaken    \* history: orders one report of which was pushed back behind a newer one

netVars  == <<connection, newConns, queue, logins, received>>
workVars == <<hand, mode, round, buffer, trading, subscribed, references, log>>
restVars == <<crashes, forwarded, handled, overtaken>>
vars     == <<authVars, netVars, workVars, restVars, grounds>>

Ids == 1 .. MaxMessages

\* An InboundMessage; "before" and "pushedBack" are history.
Messages == [id : Ids, type : {"login", "order", "cancel", "subscribe", "report"},
             conn : Conns \cup {Watcher}, session : Sessions \cup {NoSession}, order : Orders \cup {NoOrder},
             status : Statuses \cup {""}, before : SUBSET Sessions, pushedBack : BOOLEAN]

Empty == [asked |-> "nothing"]
Logged == [id : Ids, order : Orders, status : Statuses]

Connection(state, authenticated, session) ==
  [state |-> state, authenticated |-> authenticated, session |-> session]
NotAccepted == Connection("none", FALSE, NoSession)

Init ==
  /\ AuthInit
  /\ connection = [c \in Conns |-> NotAccepted] /\ newConns = {}
  /\ queue = <<>> /\ buffer = <<>> /\ hand = Empty /\ mode = "work" /\ round = 0
  /\ trading \in BOOLEAN
  /\ subscribed = [c \in Conns |-> NoSession]
  /\ references = {} /\ log = <<>>
  /\ received = 0 /\ crashes = 0
  /\ forwarded = {} /\ handled = {}
  /\ logins = [c \in Conns |-> {}]
  /\ grounds = [i \in Ids |-> {}] /\ overtaken = {}

-----------------------------------------------------------------------------
(* The network thread.                                                     *)

\* OnAccept.  The library gives no connection number twice.
Accept(c) ==
  /\ connection[c].state = "none"
  /\ connection' = [connection EXCEPT ![c] = Connection("open", FALSE, NoSession)]
  /\ UNCHANGED <<newConns, queue, logins, received, workVars, restVars>>

\* Mutant: a queue that takes everything.
Unbounded == TRUE
Room == Len(queue) < Capacity

\* OnReceive pushes, and spins while the queue is full.
Receive(type, c, s, o, status) ==
  /\ received < MaxMessages /\ Room
  /\ received' = received + 1
  /\ queue' = Append(queue, [id |-> received + 1, type |-> type, conn |-> c, session |-> s, order |-> o,
                             status |-> status, pushedBack |-> FALSE,
                             before |-> IF c = Watcher THEN {} ELSE logins[c]])

\* Mutant: the connection has the new session at once.
TrustedAtOnce(s) == Connection("open", TRUE, s)

\* What the network thread makes of the connection when a login arrives.
Unauthenticated(s) == Connection("open", FALSE, NoSession)

ReceiveLogin(c, s) ==
  /\ connection[c].state = "open"
  /\ Receive("login", c, s, NoOrder, "")
  /\ connection' = [connection EXCEPT ![c] = Unauthenticated(s)]
  /\ logins' = [logins EXCEPT ![c] = @ \cup {s}]
  /\ UNCHANGED <<newConns, workVars, restVars>>

ReceiveRequest(c, type, o) ==
  /\ connection[c].state = "open"
  /\ Receive(type, c, NoSession, o, "")
  /\ UNCHANGED <<connection, newConns, logins, workVars, restVars>>

\* A report of the watcher.
ReceiveReport(o, status) ==
  /\ Receive("report", Watcher, NoSession, o, status)
  /\ UNCHANGED <<connection, newConns, logins, workVars, restVars>>

\* OnClose.  Subscriptions stay, under a number that does not come again.
Close(c) ==
  /\ connection[c].state = "open"
  /\ connection' = [connection EXCEPT ![c] = Connection("closed", FALSE, NoSession)]
  /\ newConns' = newConns \ {c}
  /\ UNCHANGED <<queue, logins, received, workVars, restVars>>

Network ==
  \/ \E c \in Conns :
       \/ Accept(c) \/ Close(c)
       \/ \E s \in Sessions : ReceiveLogin(c, s)
       \/ ReceiveRequest(c, "subscribe", NoOrder) \/ ReceiveRequest(c, "order", NoOrder)
       \/ \E o \in Orders : ReceiveRequest(c, "cancel", o)
  \/ \E o \in Orders, status \in Statuses : ReceiveReport(o, status)

-----------------------------------------------------------------------------
(* The work thread.                                                        *)

\* What the thread finds before it asks: a login is asked for under the
\* session it names; a request under the session of its connection, if that
\* is logged in; a report needs nobody.
Begun(m) ==
  LET c == m.conn
      under == IF m.type = "login" THEN m.session ELSE connection[c].session
      may == IF m.type = "login" THEN connection[c].state = "open" ELSE connection[c].authenticated
  IN IF m.type = "report" THEN [asked |-> "allowed", msg |-> m, session |-> NoSession]
     ELSE [asked |-> IF may THEN "service" ELSE "denied", msg |-> m, session |-> under]

\* WorkFunc takes a message, and writes it to the snapshot file first.
Take ==
  LET m == Head(queue) IN
  /\ mode = "work" /\ hand = Empty /\ queue # <<>>
  /\ queue' = Tail(queue)
  /\ log' = IF SnapShot /\ m.type = "report"
            THEN Append(log, [id |-> m.id, order |-> m.order, status |-> m.status]) ELSE log
  /\ hand' = Begun(m)
  /\ UNCHANGED <<connection, newConns, logins, received, mode, round, buffer, trading, subscribed,
                 references, restVars>>

\* Mutant: whoever is logged in may.
OnceLoggedIn(h) == h.msg.type = "login" => Valid(h.session)

\* What the service finds.
Answer(h) == IF h.msg.type = "login" THEN Valid(h.session) ELSE Permitted(h.session)

\* The service decides (ValidateSession, Authorize); no answer in time is a refusal.
Decide(allowed) ==
  /\ hand.asked = "service"
  /\ allowed => Answer(hand)
  /\ hand' = [hand EXCEPT !.asked = IF allowed THEN "allowed" ELSE "denied"]
  /\ UNCHANGED <<netVars, mode, round, buffer, trading, subscribed, references, log, restVars>>

Ends == hand' = Empty /\ handled' = handled \cup {hand.msg.id}

\* Mutant: the subscriptions of the login before stay.
KeepsSubscriptions(c) == subscribed
Unsubscribed(c) == [subscribed EXCEPT ![c] = NoSession]

\* HandleLoginRequest.  A refused login leaves the connection as it is, and a
\* login that was asked for before a newer one arrived undoes its reset.  Where
\* OnClose erased the entry meanwhile, the thread writes through an iterator
\* that is not valid any more: what it writes is lost, or the process ends
\* (Restart).
HandleLogin ==
  LET c == hand.msg.conn IN
  /\ hand.asked \in {"allowed", "denied"} /\ hand.msg.type = "login"
  /\ IF hand.asked = "allowed"
     THEN /\ connection' = IF connection[c].state # "open" THEN connection
                           ELSE [connection EXCEPT ![c] = Connection("open", TRUE, hand.session)]
          /\ newConns' = newConns \cup {c}
          /\ subscribed' = Unsubscribed(c)
     ELSE UNCHANGED <<connection, newConns, subscribed>>
  /\ Ends
  /\ UNCHANGED <<queue, logins, received, mode, round, buffer, trading, references, log,
                 crashes, forwarded, overtaken>>

\* What is admitted, besides by the service: orders in trading hours, cancels
\* of orders known; "policy" is what the published policy says.
Admitted(policy) ==
  /\ hand.asked = "allowed" /\ policy
  /\ hand.msg.type = "order" => trading
  /\ hand.msg.type = "cancel" => hand.msg.order \in references

\* HandleOrderRequest, HandleActionRequest, and HandleCommand for a
\* subscription: forwarded, or rejected to the sender.
HandleRequest(policy) ==
  /\ hand.asked \in {"allowed", "denied"} /\ hand.msg.type \in {"order", "cancel", "subscribe"}
  /\ Ends
  /\ forwarded' = IF Admitted(policy) THEN forwarded \cup {hand.msg.id} ELSE forwarded
  /\ subscribed' = IF Admitted(policy) /\ hand.msg.type = "subscribe"
                   THEN [subscribed EXCEPT ![hand.msg.conn] = hand.session] ELSE subscribed
  /\ UNCHANGED <<netVars, mode, round, buffer, trading, references, log, crashes, overtaken>>

\* IsTerminalOrderStatus.
Terminal == {"all_traded", "cancelled", "part_traded_cancelled", "broker_error", "exchange_error"}

\* Mutant: the reference of an ended order stays.
NeverErased(refs, r) == IF r.status \in Terminal THEN refs ELSE refs \cup {r.order}

\* UpdateOrderReference.
Updated(refs, r) ==
  IF r.status \in Terminal THEN refs \ {r.order} ELSE refs \cup {r.order}

\* HandleOrderStatus.
HandleReport ==
  /\ hand.asked = "allowed" /\ hand.msg.type = "report"
  /\ references' = Updated(references, hand.msg)
  /\ Ends
  /\ UNCHANGED <<netVars, mode, round, buffer, trading, subscribed, log, crashes, forwarded, overtaken>>

\* The queue was found empty: HistoryDataReplay, then CheckTrading.  In trading
\* hours the last values are replayed at once; otherwise, when its time has
\* come and somebody is new, the history.
Turn ==
  /\ mode = "work" /\ hand = Empty /\ queue = <<>>
  /\ \/ newConns' = (IF trading THEN {} ELSE newConns) /\ trading' \in BOOLEAN /\ mode' = mode
     \/ ~trading /\ newConns # {} /\ mode' = "drain" /\ UNCHANGED <<newConns, trading>>
  /\ UNCHANGED <<connection, queue, logins, received, hand, round, buffer, subscribed, references, log,
                 restVars>>

\* Mutant: logins are kept as well.
KeptBack(m) == TRUE
Buffered(m) == m.type # "login"

\* The replay loop takes the queue apart: logins are handled at once, the rest waits.
Drain ==
  LET m == Head(queue) IN
  /\ mode = "drain" /\ hand = Empty /\ queue # <<>>
  /\ queue' = Tail(queue)
  /\ hand' = IF m.type = "login" THEN Begun(m) ELSE hand
  /\ buffer' = IF Buffered(m) THEN Append(buffer, [m EXCEPT !.pushedBack = TRUE]) ELSE buffer
  /\ UNCHANGED <<connection, newConns, logins, received, mode, round, trading, subscribed, references,
                 log, restVars>>

Drained ==
  /\ mode = "drain" /\ hand = Empty /\ queue = <<>>
  /\ mode' = "push back"
  /\ UNCHANGED <<netVars, hand, round, buffer, trading, subscribed, references, log, restVars>>

Newer(m) == {i \in 1 .. Len(queue) : queue[i].type = "report" /\ queue[i].order = m.order}

\* What waited goes to the end of the queue, behind what arrived meanwhile.
\* The thread that takes from the queue spins here while it is full.
PushBack ==
  LET m == Head(buffer) IN
  /\ mode = "push back" /\ buffer # <<>> /\ Room
  /\ queue' = Append(queue, m)
  /\ buffer' = Tail(buffer)
  /\ overtaken' = IF m.type = "report" /\ \E i \in Newer(m) : queue[i].id > m.id
                  THEN overtaken \cup {m.order} ELSE overtaken
  /\ UNCHANGED <<connection, newConns, logins, received, hand, mode, round, trading, subscribed,
                 references, log, crashes, forwarded, handled>>

\* Mutant: as long as somebody is new.
WhileNew(done) == newConns = {}
Last(done) == newConns = {} \/ done = Rounds

\* A part of the history is sent; after the last one, or with nobody to send
\* to, the loop ends.
Replay ==
  LET done == IF round < Rounds THEN round + 1 ELSE Rounds
      last == Last(done)
  IN
  /\ mode = "push back" /\ buffer = <<>>
  /\ mode' = IF last THEN "work" ELSE "drain"
  /\ round' = IF last THEN 0 ELSE done
  /\ IF last THEN newConns' = {} /\ trading' \in BOOLEAN ELSE UNCHANGED <<newConns, trading>>
  /\ UNCHANGED <<connection, queue, logins, received, hand, buffer, subscribed, references, log, restVars>>

Work ==
  \/ Take \/ \E allowed \in BOOLEAN : Decide(allowed)
  \/ HandleLogin \/ \E policy \in BOOLEAN : HandleRequest(policy)
  \/ HandleReport \/ Turn \/ Drain \/ Drained \/ PushBack \/ Replay

\* The orders that a snapshot file makes known, report by report.
Known(reports) ==
  {o \in Orders : \E i \in 1 .. Len(reports) :
      /\ reports[i].order = o /\ reports[i].status \notin Terminal
      /\ \A j \in i + 1 .. Len(reports) : reports[j].order # o}

\* The process ends and starts again: connections and queue are gone, and the
\* references are those of the file (HandleSnapShotMessage).
Restart ==
  /\ crashes < MaxCrashes /\ crashes' = crashes + 1
  /\ connection' = [c \in Conns |-> NotAccepted] /\ newConns' = {}
  /\ queue' = <<>> /\ buffer' = <<>> /\ hand' = Empty /\ mode' = "work" /\ round' = 0
  /\ trading' \in BOOLEAN
  /\ subscribed' = [c \in Conns |-> NoSession]
  /\ references' = Known(log) /\ UNCHANGED <<log, received>>
  /\ logins' = [c \in Conns |-> {}]
  /\ handled' = 1 .. received /\ UNCHANGED <<forwarded, overtaken>>

ServerNext == Network \/ Work \/ Restart

\* History only: the sessions permitted while a message waits.
Watched ==
  grounds' = [i \in Ids |-> IF i > received' \/ i \in handled' THEN {}
                            ELSE grounds[i] \cup {s \in Sessions : Permitted(s)'}]

\* Nothing but the service has moved.
Unused == received = 0 /\ crashes = 0 /\ connection = [c \in Conns |-> NotAccepted]

Next ==
  /\ \/ ServerNext /\ UNCHANGED authVars
     \/ AuthNext /\ UNCHANGED <<netVars, workVars, restVars>>
  /\ Unused' \/ received' + 2 * (changes' + crashes') <= MaxEvents
  /\ Watched

Spec == Init /\ [][Next]_vars

\* The work thread turns its loop for ever.
FairSpec == Spec /\ WF_vars(Work /\ UNCHANGED authVars /\ Watched)

-----------------------------------------------------------------------------
(* Properties.                                                             *)

Inbound(seq) == \A i \in 1 .. Len(seq) : seq[i] \in Messages

\* Every variable keeps its type.
TypeOK ==
  /\ AuthTypeOK
  /\ connection \in [Conns -> [state : {"none", "open", "closed"}, authenticated : BOOLEAN,
                               session : Sessions \cup {NoSession}]]
  /\ newConns \subseteq Conns
  /\ Inbound(queue) /\ Len(queue) <= Capacity /\ Inbound(buffer)
  /\ hand \in {Empty} \cup [asked : {"service", "allowed", "denied"}, msg : Messages,
                            session : Sessions \cup {NoSession}]
  /\ mode \in {"work", "drain", "push back"} /\ round \in 0 .. Rounds
  /\ trading \in BOOLEAN
  /\ subscribed \in [Conns -> Sessions \cup {NoSession}]
  /\ references \subseteq Orders /\ overtaken \subseteq Orders
  /\ \A i \in 1 .. Len(log) : log[i] \in Logged
  /\ {received, crashes} \subseteq Nat
  /\ forwarded \subseteq handled /\ handled \subseteq Ids
  /\ logins \in [Conns -> SUBSET Sessions] /\ grounds \in [Ids -> SUBSET Sessions]

\* The request in hand is forwarded in this step.
Forwards == forwarded' # forwarded

\* A request is forwarded under a session that logged in on its own connection
\* before it was sent, although the work thread reads the session later, and
\* logins reset it earlier; unless a replay let a login overtake the request.
ForwardedOnOwnLogin ==
  [][Forwards => hand.msg.pushedBack \/ hand.session \in hand.msg.before]_vars

\* A request is forwarded only if its session was valid and its user had the
\* right at some moment between its arrival and its forwarding: what ended
\* before a request arrived does not let it pass.
ForwardedOnGrounds == [][Forwards => hand.session \in grounds[hand.msg.id]]_vars

Waiting == queue \o buffer \o (IF hand = Empty THEN <<>> ELSE <<hand.msg>>)

\* No message is handled twice, the replay that takes the queue apart and
\* fills it again included.
HandledOnce ==
  \A i \in 1 .. Len(Waiting) :
    /\ Waiting[i].id \notin handled
    /\ \A j \in 1 .. i - 1 : Waiting[i].id # Waiting[j].id

\* The market data a logged-in connection is subscribed to was subscribed to by
\* the login it has, not by the one before.
SubscribedByLogin ==
  \A c \in Conns :
    connection[c].authenticated => subscribed[c] \in {NoSession, connection[c].session}

Applied(i) == hand = Empty \/ hand.msg.id # log[i].id
Newest(i) == \A j \in 1 .. Len(log) : log[j].order = log[i].order => log[j].id <= log[i].id

\* An order can be cancelled if and only if the newest report about it left it
\* live, also after a restart in the middle of a report; unless a replay let a
\* report overtake an older one.
ReferencesFollowReports ==
  \A i \in 1 .. Len(log) :
    Newest(i) /\ Applied(i) /\ log[i].order \notin overtaken =>
      (log[i].order \in references <=> log[i].status \notin Terminal)

\* The thread that empties the queue spins until there is room in it.
Stuck == mode = "push back" /\ buffer # <<>> /\ Len(queue) = Capacity

\* The work thread comes to the end of what has arrived, whatever the service
\* answers or does not, unless the queue fills while a replay holds a part of it.
Handled == []<>(1 .. received \subseteq handled \/ Stuck)

=============================================================================
