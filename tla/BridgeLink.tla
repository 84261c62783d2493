------------------------------ MODULE BridgeLink ------------------------------
(***************************************************************************)
(* The TCP connection between the ATP gateway of XTrader                   *)
(* (src/XTrader/TraderAPI/ATP/ATPTradeGateWay.cpp, the client) and the ATP *)
(* bridge (src/bridges/atp/atp_bridge.py, the server): one JSON line per   *)
(* message.  ATPGateWay and ATPBridge are its two ends.                    *)
(*                                                                         *)
(* A broken connection delivers a prefix of what was written to it, and    *)
(* until the gateway's recv returns its writes still succeed and vanish.   *)
(***************************************************************************)
EXTENDS Naturals, Sequences, FiniteSets

CONSTANTS
  Tokens,     \* client order tokens; NoToken is the token 0
  Refs,       \* order references of the counter, 1 .. n
  NoToken,
  NoRef

ASSUME NamesAssumption ==
  /\ NoToken \notin Tokens /\ NoRef \notin Refs
  /\ IsFiniteSet(Tokens) /\ IsFiniteSet(Refs) /\ Refs \subseteq Nat

VARIABLES
  socket,      \* m_Socket: "none", "open", or "dead" when the peer is gone
  toBridge,    \* lines the bridge has not read
  fromBridge   \* lines the receive thread of the gateway has not read

linkVars == <<socket, toBridge, fromBridge>>

\* Order statuses as the gateway keeps them (OrderStatus).
LiveStatuses     == {"EEXCHANGE_ACK", "EPARTTRADED"}
TerminalStatuses == {"EALLTRADED", "ECANCELLED", "EPARTTRADED_CANCELLED",
                     "EBROKER_ERROR", "EEXCHANGE_ERROR"}
Statuses == LiveStatuses \cup TerminalStatuses \cup {"ECANCELLING"}

\* Commands of the gateway.
OrderLine(t)  == [type |-> "order", token |-> t]
CancelLine(r) == [type |-> "cancel", ref |-> r]
QueryLine     == [type |-> "query"]
Commands == {OrderLine(t) : t \in Tokens} \cup {CancelLine(r) : r \in Refs} \cup {QueryLine}

\* Messages of the bridge.
LoginLine(connected) == [type |-> "login", connected |-> connected]
StatusLine(t, r, s)  == [type |-> "order_status", token |-> t, ref |-> r, status |-> s]
CancelErrorLine(r)   == [type |-> "cancel_error", ref |-> r]

\* Mutant: the bridge's own word for the status is not translated.
RejectLineRaw(t) == StatusLine(t, NoRef, "rejected")

RejectLine(t) == StatusLine(t, NoRef, "EEXCHANGE_ERROR")
Messages ==
  {LoginLine(b) : b \in BOOLEAN} \cup {CancelErrorLine(r) : r \in Refs}
  \cup {StatusLine(t, r, s) : t \in Tokens \cup {NoToken}, r \in Refs \cup {NoRef},
                              s \in Statuses}

LinkOK ==
  /\ socket \in {"none", "open", "dead"}
  /\ toBridge \in Seq(Commands) /\ fromBridge \in Seq(Messages)

LinkInit == socket = "none" /\ toBridge = <<>> /\ fromBridge = <<>>

\* A write may succeed as long as the gateway has a socket, and may fail unless
\* the peer is there.
CanSend  == socket # "none"
CanFail  == socket # "open"
SendLine(line) ==
  toBridge' = IF socket = "open" THEN Append(toBridge, line) ELSE toBridge

\* The bridge writes to its clients; a client that is gone is dropped.
Publish(msgs) ==
  fromBridge' = IF socket = "open" THEN fromBridge \o msgs ELSE fromBridge

Prefixes(s) == {SubSeq(s, 1, n) : n \in 0 .. Len(s)}

\* The connection breaks between the two processes.
LinkBreaks ==
  /\ socket = "open"
  /\ socket' = "dead"
  /\ toBridge' \in Prefixes(toBridge)
  /\ fromBridge' \in Prefixes(fromBridge)

\* ConnectBridge succeeds, and the bridge greets every new client with a login.
Connect ==
  /\ socket = "none"
  /\ socket' = "open"
  /\ fromBridge' = <<LoginLine(TRUE)>>
  /\ UNCHANGED toBridge

=============================================================================
