------------------------------- MODULE ATPBridge -------------------------------
(***************************************************************************)
(* The ATP bridge (src/bridges/atp/atp_bridge.py) and the counter behind   *)
(* it.  One thread runs the commands of the gateway, the callback thread   *)
(* of the SDK normalizes what the counter reports, a third resynchronizes  *)
(* after the session with the counter recovered.  The intent journal is on *)
(* disk and survives the process.                                          *)
(*                                                                         *)
(* The counter is not part of the repository.  It is modelled from the     *)
(* calls and callbacks the bridge uses: a request it accepted becomes an   *)
(* order with a reference of its own, larger than the earlier ones;        *)
(* callbacks arrive in order, carry the client_seq_id of the request, and  *)
(* are lost while the session is down; the rows of an order query carry    *)
(* only the reference, as in test_atp_bridge.py.                           *)
(***************************************************************************)
EXTENDS BridgeLink

CONSTANT Numbers   \* bound: client_seq_ids of orders in one life of the bridge

ASSUME NumbersAssumption == Numbers \subseteq Nat \ {0}

VARIABLES
  journal,      \* atp-order-intents.jsonl: the tokens and references on disk
  intents,      \* OrderIntentJournal.tokens
  refContext,   \* order_ref_context of the journal and the handler
  remembered,   \* order_context: the token sent under a client_seq_id
  command,      \* where the command thread is
  resync,       \* _resync_running
  session,      \* the AGW session with the counter is up
  callbacks,    \* callbacks the SDK has not delivered yet
  counter,      \* the orders of the counter, NoOrder when unused
  missed        \* history: an order query failed and none was answered since

bridgeVars == <<journal, intents, refContext, remembered, command, resync, session,
                callbacks, counter, missed>>

NoOrder == [used |-> FALSE]
Order(t, n, s) ==
  [used |-> TRUE, token |-> t, seq |-> n, status |-> s, cancelling |-> FALSE]
Orders ==
  [used: {TRUE}, token: Tokens, seq: Numbers, status: Statuses, cancelling: BOOLEAN]
NoCommand  == [pc |-> "read"]
Sending(t) == [pc |-> "send", token |-> t]

Contexts == [Refs -> Tokens \cup {NoToken}]
BridgeOK ==
  /\ journal \in [tokens: SUBSET Tokens, refs: Contexts]
  /\ intents \subseteq Tokens /\ refContext \in Contexts
  /\ remembered \in [Numbers -> Tokens \cup {NoToken}]
  /\ command \in {NoCommand} \cup {Sending(t) : t \in Tokens}
  /\ resync \in BOOLEAN /\ session \in BOOLEAN /\ missed \in BOOLEAN
  /\ callbacks \in Seq([ref: Refs, seq: Numbers \cup {0}, status: Statuses])
  /\ counter \in [Refs -> Orders \cup {NoOrder}]

NoContexts     == [r \in Refs |-> NoToken]
NoneRemembered == [n \in Numbers |-> NoToken]
BridgeInit ==
  /\ journal = [tokens |-> {}, refs |-> NoContexts]
  /\ intents = {} /\ refContext = NoContexts /\ remembered = NoneRemembered
  /\ command = NoCommand /\ resync = FALSE /\ session = TRUE /\ missed = FALSE
  /\ callbacks = <<>>
  /\ counter = [r \in Refs |-> NoOrder]

Live(r)  == counter[r].used /\ counter[r].status \in LiveStatuses
Ended(r) == counter[r].used /\ counter[r].status \in TerminalStatuses

Callback(r, n, s) == [ref |-> r, seq |-> n, status |-> s]
\* A callback of the counter reaches the SDK only while the session is up.
CallBack(msgs) == callbacks' = IF session THEN callbacks \o msgs ELSE callbacks

-----------------------------------------------------------------------------
(* The command thread.                                                     *)

Reading(type) ==
  /\ command = NoCommand /\ toBridge # <<>>
  /\ Head(toBridge).type = type
  /\ toBridge' = Tail(toBridge)

\* Mutant: the intent is written to the file without fsync.
ReserveUnsynced(t) ==
  /\ intents' = intents \cup {t}
  /\ UNCHANGED journal

\* OrderIntentJournal.reserve: on disk before the order is sent.
Reserve(t) ==
  /\ intents' = intents \cup {t}
  /\ journal' = [journal EXCEPT !.tokens = @ \cup {t}]

\* The rejection stands for a duplicate token (-2006) and for a command the
\* bridge refuses before it reserves the token (-2007).
BridgeOrder ==
  /\ Reading("order")
  /\ LET t == Head(toBridge).token
     IN  \/ /\ Publish(<<RejectLine(t)>>)
            /\ UNCHANGED bridgeVars
         \/ /\ t \notin intents
            /\ Reserve(t)
            /\ command' = Sending(t)
            /\ UNCHANGED <<fromBridge, refContext, remembered, resync, session, callbacks,
                           counter, missed>>
  /\ UNCHANGED socket

\* Sequence.next: larger than every number of this process, which other
\* requests use too; each start of the bridge counts from the beginning.
Fresh(n) == \A k \in Numbers : remembered[k] # NoToken => k < n

\* remember_order, then ReqCashAuctionOrder: the counter takes the order and
\* acknowledges it, or returns an error.
BridgeSend ==
  /\ command.pc = "send"
  /\ command' = NoCommand
  /\ \E n \in Numbers :
       LET t == command.token
       IN
         /\ Fresh(n)
         /\ remembered' = [remembered EXCEPT ![n] = t]
         /\ \/ /\ session
               /\ \E r \in Refs :
                    /\ ~counter[r].used
                    /\ \A q \in Refs : q < r => counter[q].used
                    /\ counter' = [counter EXCEPT ![r] = Order(t, n, "EEXCHANGE_ACK")]
                    /\ CallBack(<<Callback(r, n, "EEXCHANGE_ACK")>>)
               /\ UNCHANGED fromBridge
            \/ /\ Publish(<<RejectLine(t)>>)
               /\ UNCHANGED <<counter, callbacks>>
  /\ UNCHANGED <<socket, toBridge, journal, intents, refContext, resync, session, missed>>

\* ReqCancelOrder returns an error for an order that is not live, or whenever
\* the counter does not take the request.
BridgeCancel ==
  /\ Reading("cancel")
  /\ LET r == Head(toBridge).ref
     IN  \/ /\ session /\ Live(r)
            /\ counter' = [counter EXCEPT ![r].cancelling = TRUE]
            /\ UNCHANGED fromBridge
         \/ Publish(<<CancelErrorLine(r)>>) /\ UNCHANGED counter
  /\ UNCHANGED <<socket, journal, intents, refContext, remembered, command, resync, session,
                 callbacks, missed>>

\* The callbacks of an order query: a row for every order, in some order.
Row(r) == Callback(r, 0, counter[r].status)
Snapshots ==
  LET known == {r \in Refs : counter[r].used}
  IN  {[n \in DOMAIN f |-> Row(f[n])] :
         f \in {g \in [1 .. Cardinality(known) -> known] :
                  \A r \in known : \E n \in DOMAIN g : g[n] = r}}

AnswerQuery ==
  /\ \E rows \in Snapshots : CallBack(rows)
  /\ missed' = (missed /\ ~session)

\* Without a session the query fails: command_error, which the gateway logs.
BridgeQuery ==
  /\ Reading("query")
  /\ AnswerQuery
  /\ UNCHANGED <<socket, fromBridge, journal, intents, refContext, remembered, command, resync,
                 session, counter>>

\* Nor does the counter answer every query with the session up, and nobody
\* asks again.
BridgeQueryFails ==
  /\ Reading("query") /\ session
  /\ missed' = TRUE
  /\ UNCHANGED <<socket, fromBridge, journal, intents, refContext, remembered, command, resync,
                 session, callbacks, counter>>

-----------------------------------------------------------------------------
(* The callback thread and the resynchronization.                          *)

\* bind_order_ref: the first callback that knows the order writes its reference.
Bind(r, t) ==
  IF t = NoToken
  THEN UNCHANGED <<refContext, journal>>
  ELSE /\ refContext' = [refContext EXCEPT ![r] = t]
       /\ journal' = [journal EXCEPT !.refs[r] = t]

\* _normalize_order: by client_seq_id when the callback carries one this bridge
\* remembers, of this or of an earlier process, else by the reference.
ContextToken(c) ==
  IF c.seq \in Numbers /\ remembered[c.seq] # NoToken
  THEN remembered[c.seq] ELSE refContext[c.ref]

BridgeCallback ==
  /\ callbacks # <<>>
  /\ callbacks' = Tail(callbacks)
  /\ LET c == Head(callbacks)
     IN  /\ Bind(c.ref, ContextToken(c))
         /\ Publish(<<StatusLine(ContextToken(c), c.ref, c.status)>>)
  /\ UNCHANGED <<socket, toBridge, intents, remembered, command, resync, session, counter,
                 missed>>

\* OnClosed: what the SDK had not delivered may still be delivered.
SessionCloses ==
  /\ session
  /\ session' = FALSE
  /\ callbacks' \in {<<>>, callbacks}
  /\ Publish(<<LoginLine(FALSE)>>)
  /\ UNCHANGED <<socket, toBridge, journal, intents, refContext, remembered, command, resync,
                 counter, missed>>

\* OnRecovered: one resynchronization at a time.
SessionRecovers ==
  /\ ~session
  /\ session' = TRUE
  /\ resync' = TRUE
  /\ Publish(<<LoginLine(TRUE)>>)
  /\ UNCHANGED <<socket, toBridge, journal, intents, refContext, remembered, command, callbacks,
                 counter, missed>>

\* _resync logs in and queries; with the session down again it gives up.
Resync ==
  /\ resync
  /\ resync' = FALSE
  /\ Publish(IF session THEN <<LoginLine(TRUE)>> ELSE <<>>)
  /\ AnswerQuery
  /\ UNCHANGED <<socket, toBridge, journal, intents, refContext, remembered, command, session,
                 counter>>

\* resync_error, with the session up and never repeated: the counter does not
\* take the login, or refuses it, or answers it after ten seconds, or a query
\* that follows the login fails.
ResyncFails ==
  /\ resync /\ session
  /\ resync' = FALSE
  /\ missed' = TRUE
  /\ \/ UNCHANGED fromBridge
     \/ \E accepted \in BOOLEAN : Publish(<<LoginLine(accepted)>>)
  /\ UNCHANGED <<socket, toBridge, journal, intents, refContext, remembered, command, session,
                 callbacks, counter>>

\* The bridge dies and starts again: it logs in, loads the journal and listens.
BridgeRestart ==
  /\ socket' = IF socket = "open" THEN "dead" ELSE socket
  /\ fromBridge' \in Prefixes(fromBridge)
  /\ toBridge' = <<>>
  /\ intents' = journal.tokens /\ refContext' = journal.refs
  /\ remembered' = NoneRemembered
  /\ command' = NoCommand /\ resync' = FALSE /\ session' = TRUE
  /\ callbacks' = <<>>
  /\ UNCHANGED <<journal, counter, missed>>

-----------------------------------------------------------------------------
(* The counter.                                                            *)

Moves == {<<"EEXCHANGE_ACK", "EPARTTRADED">>, <<"EEXCHANGE_ACK", "EALLTRADED">>,
          <<"EPARTTRADED", "EALLTRADED">>, <<"EEXCHANGE_ACK", "EEXCHANGE_ERROR">>}
CancelMoves == {<<"EEXCHANGE_ACK", "ECANCELLED">>, <<"EPARTTRADED", "EPARTTRADED_CANCELLED">>}

CounterMoves(r) ==
  /\ counter[r].used
  /\ \E s \in Statuses :
       /\ \/ <<counter[r].status, s>> \in Moves
          \/ counter[r].cancelling /\ <<counter[r].status, s>> \in CancelMoves
       /\ counter' = [counter EXCEPT ![r].status = s]
       /\ CallBack(<<Callback(r, counter[r].seq, s)>>)
  /\ UNCHANGED <<linkVars, journal, intents, refContext, remembered, command, resync, session,
                 missed>>

=============================================================================
