---------------------------- MODULE ShmChannelProofs ----------------------------
(***************************************************************************)
(* Theorems about ShmChannel, for any number of clients and channels, any  *)
(* sizes and any restarts.                                                 *)
(***************************************************************************)
EXTENDS ShmChannel, TLAPS

-----------------------------------------------------------------------------
(* The invariant.  A name in the table, and a client that has a channel,   *)
(* are among the owners of the channel; and everything on its way between  *)
(* them and the server - in a ring, in hand, in a queue of the server -    *)
(* belongs to an owner of the channel it is in, or to nobody.              *)

\* What may be in the rings of a channel that clients "os" own.
Belonging(os) == {m \in Messages : m.for \in os \cup {NoClient}}
Sendable(os)  == {m \in Belonging(os) : m.type = "data" => m.for # NoClient /\ m.id \in Numbers}
Addressed     == {r \in Requests : r.for \in owners[r.channel]}

TypesOK ==
  /\ name \in [Channels -> Clients \cup {NoClient}]
  /\ connected \in [Channels -> BOOLEAN]
  /\ age \in [Channels -> 0 .. Interval + 1]
  /\ handling \in Channels \cup {None} /\ msg \in Messages
  /\ pc \in [Clients -> {"off", "take", "reset", "login", "up"}]
  /\ at \in [Clients -> Channels]
  /\ idle \in [Clients -> 0 .. Interval + 1]
  /\ sendType \in [Clients -> Types]
  /\ outbox \in [Clients -> Seq(Numbers)]
  /\ waiting \in [Clients -> SUBSET Numbers] /\ mistyped \in [Clients -> SUBSET Numbers]
  /\ starts \in [Clients -> Nat] /\ asks \in Nat /\ restarts \in Nat /\ dropped \subseteq Numbers
  /\ owners \in [Channels -> SUBSET Clients]
  /\ raced \in [Channels -> BOOLEAN] /\ outlived \in [Channels -> BOOLEAN]

Owned(i) ==
  /\ name[i] # NoClient => name[i] \in owners[i]
  /\ name[i] = NoClient => owners[i] = {} \/ outlived[i]
  /\ \A c, d \in owners[i] : c = d \/ raced[i] \/ outlived[i]

Owns(c) == pc[c] \in {"reset", "login", "up"} => c \in owners[at[c]]

OwnersOK == (\A i \in Channels : Owned(i)) /\ (\A c \in Clients : Owns(c))

RingsOK ==
  /\ DOMAIN up = Channels /\ up = [i \in Channels |-> up[i]]
  /\ DOMAIN down = Channels /\ down = [i \in Channels |-> down[i]]
  /\ \A i \in Channels : up[i] \in Seq(Sendable(owners[i])) /\ down[i] \in Seq(Belonging(owners[i]))

HandOK   == handling # None => msg \in Sendable(owners[handling])
QueuesOK == requests \in Seq(Addressed) /\ answers \in Seq(Addressed)

ShmInv == TypesOK /\ OwnersOK /\ RingsOK /\ HandOK /\ QueuesOK

-----------------------------------------------------------------------------
(* Sequences.                                                              *)

LEMMA EmptySeq == ASSUME NEW S PROVE <<>> \in Seq(S)
OBVIOUS

LEMMA PushType ==
  ASSUME NEW S, NEW q \in Seq(S), NEW m \in S, NEW cap
  PROVE  Push(q, cap, m) \in Seq(S)
BY DEF Push

LEMMA TailType ==
  ASSUME NEW S, NEW q \in Seq(S), q # <<>>
  PROVE  Tail(q) \in Seq(S) /\ Head(q) \in S
OBVIOUS

LEMMA Larger ==
  ASSUME NEW S, NEW T, S \subseteq T
  PROVE  Seq(S) \subseteq Seq(T)
OBVIOUS

LEMMA NoneIsNoChannel == None \notin Channels /\ 0 \in Channels
BY ShmAssumption DEF None, Channels

\* The initial data belong to nobody.
LEMMA InitDataType ==
  ASSUME NEW os, NEW ring \in Seq(Belonging(os))
  PROVE  WithInitData(ring) \in Seq(Belonging(os))
<1>1. [type : {"data"}, for : {NoClient}, id : {0}] \subseteq Belonging(os)
  BY DEF Belonging, Messages, Types
<1>2. InitData \in Seq(Belonging(os))
  BY <1>1, InitDataAssumption, Larger
<1>3. ring \o InitData \in Seq(Belonging(os))
  BY <1>2
<1> DEFINE all == ring \o InitData
<1>4. ASSUME Len(all) > RingCap PROVE SubSeq(all, 1, RingCap) \in Seq(Belonging(os))
  BY <1>3, <1>4, ShmAssumption
<1> QED
  BY <1>3, <1>4, ShmAssumption DEF WithInitData

LEMMA ControlMessages ==
  ASSUME NEW os
  PROVE  {Login, ServerAck, ClientAck, HeartBeat} \subseteq Sendable(os)
BY DEF Login, ServerAck, ClientAck, HeartBeat, Message, Sendable, Belonging, Messages, Types

-----------------------------------------------------------------------------
(* The invariant holds at the start, and every step keeps it.              *)

LEMMA ShmInvInit == Init => ShmInv
<1> SUFFICES ASSUME Init PROVE ShmInv
  OBVIOUS
<1>1. TypesOK
  BY NoneIsNoChannel, ShmAssumption DEF Init, TypesOK, HeartBeat, Message, Messages, Types
<1>2. OwnersOK
  BY DEF Init, OwnersOK, Owned, Owns
<1>3. RingsOK /\ HandOK /\ QueuesOK
  BY EmptySeq DEF Init, RingsOK, HandOK, QueuesOK
<1> QED
  BY <1>1, <1>2, <1>3 DEF ShmInv

\* What a step that changes no owner has to keep.
LEMMA Kept ==
  ASSUME ShmInv, UNCHANGED history, TypesOK', RingsOK', HandOK',
         UNCHANGED name, UNCHANGED at, UNCHANGED requests, UNCHANGED answers,
         \A c \in Clients : pc'[c] \in {"reset", "login", "up"} => pc[c] \in {"reset", "login", "up"}
  PROVE  ShmInv'
<1>1. OwnersOK'
  BY DEF ShmInv, OwnersOK, Owned, Owns, history
<1>2. QueuesOK'
  BY DEF ShmInv, QueuesOK, Addressed, history
<1> QED
  BY <1>1, <1>2 DEF ShmInv

\* Client c takes nothing into its hands or rings but what belongs to an owner.
LEMMA StartsKeeps ==
  ASSUME ShmInv, NEW c \in Clients, Starts(c)
  PROVE  ShmInv'
<1>1. PICK i \in Channels :
        /\ ChannelFor(c, i) /\ at' = [at EXCEPT ![c] = i]
        /\ pc' = [pc EXCEPT ![c] = IF name[i] = c THEN "reset" ELSE "take"]
  BY DEF Starts
<1>2. TypesOK'
  BY <1>1 DEF Starts, ShmInv, TypesOK, tableVars, serverVars, history
<1>3. OwnersOK'
  <2>1. UNCHANGED <<name, owners, raced, outlived>>
    BY DEF Starts, tableVars, history
  <2>2. ASSUME NEW j \in Channels PROVE Owned(j)'
    BY <2>1 DEF ShmInv, OwnersOK, Owned
  <2>3. name[i] = c => c \in owners[i]
    BY ShmAssumption DEF ShmInv, OwnersOK, Owned
  <2>4. ASSUME NEW d \in Clients PROVE Owns(d)'
    BY <1>1, <2>1, <2>3 DEF ShmInv, OwnersOK, Owns, TypesOK
  <2> QED
    BY <2>2, <2>4 DEF OwnersOK
<1> QED
  BY <1>2, <1>3 DEF Starts, ShmInv, RingsOK, HandOK, QueuesOK, Addressed, serverVars, history

LEMMA TakesKeeps ==
  ASSUME ShmInv, NEW c \in Clients, Takes(c)
  PROVE  ShmInv'
<1> DEFINE i == at[c]
<1>1. i \in Channels /\ c # NoClient
  BY ShmAssumption DEF ShmInv, TypesOK
<1>2. /\ name' = [name EXCEPT ![i] = c]
      /\ owners' = [owners EXCEPT ![i] = @ \cup {c}]
      /\ raced' = [raced EXCEPT ![i] = @ \/ name[i] # NoClient]
      /\ up' = [up EXCEPT ![i] = <<>>] /\ down' = [down EXCEPT ![i] = <<>>]
      /\ pc' = [pc EXCEPT ![c] = "reset"]
      /\ UNCHANGED <<connected, age, serverVars, at, idle, sendType, outbox, waiting, mistyped,
                   starts, asks, outlived, dropped>>
  BY DEF Takes, Named
<1>3. TypesOK'
  BY <1>1, <1>2 DEF ShmInv, TypesOK, serverVars
<1>4. /\ owners'[i] = owners[i] \cup {c} /\ name'[i] = c
      /\ \A j \in Channels : owners[j] \subseteq owners'[j]
      /\ \A j \in Channels \ {i} : owners'[j] = owners[j] /\ name'[j] = name[j] /\ raced'[j] = raced[j]
      /\ raced[i] \/ name[i] # NoClient => raced'[i]
  BY <1>1, <1>2 DEF ShmInv, TypesOK
<1>5. ASSUME NEW j \in Channels PROVE Owned(j)'
  <2>1. CASE j # i
    BY <1>2, <1>4, <2>1 DEF ShmInv, OwnersOK, Owned
  <2>2. CASE j = i
    <3>1. UNCHANGED outlived /\ name'[i] # NoClient /\ name'[i] \in owners'[i]
      BY <1>1, <1>2, <1>4
    <3>2. CASE name[i] # NoClient
      BY <1>4, <2>2, <3>1, <3>2 DEF Owned
    <3>3. CASE name[i] = NoClient
      <4>1. owners'[i] = {c} \/ outlived[i]
        BY <1>1, <1>4, <3>3 DEF ShmInv, OwnersOK, Owned
      <4> QED
        BY <2>2, <3>1, <4>1 DEF Owned
    <3> QED
      BY <3>2, <3>3
  <2> QED
    BY <2>1, <2>2
<1>6. ASSUME NEW d \in Clients PROVE Owns(d)'
  BY <1>2, <1>4 DEF ShmInv, OwnersOK, Owns, TypesOK
<1>7. \A j \in Channels : Sendable(owners[j]) \subseteq Sendable(owners'[j])
                       /\ Belonging(owners[j]) \subseteq Belonging(owners'[j])
  BY <1>4 DEF Sendable, Belonging
<1>8. RingsOK'
  <2>1. ASSUME NEW j \in Channels
        PROVE  up'[j] \in Seq(Sendable(owners'[j])) /\ down'[j] \in Seq(Belonging(owners'[j]))
    BY <1>2, <1>4, EmptySeq DEF ShmInv, RingsOK
  <2> QED
    BY <1>2, <2>1 DEF ShmInv, RingsOK
<1>9. HandOK'
  <2>1. UNCHANGED <<handling, msg>> /\ handling \in Channels \cup {None}
    BY <1>2 DEF serverVars, ShmInv, TypesOK
  <2>2. handling # None => msg \in Sendable(owners[handling])
    BY DEF ShmInv, HandOK
  <2>3. handling # None => msg \in Sendable(owners'[handling])
    BY ONLY <1>7, <2>1, <2>2
  <2> QED
    BY ONLY <2>1, <2>3 DEF HandOK, Sendable, Belonging
<1>10. Addressed \subseteq Addressed'
  BY <1>4 DEF Addressed, Requests
<1>11. QueuesOK'
  BY <1>2, <1>10, Larger DEF ShmInv, QueuesOK, serverVars
<1> QED
  BY <1>3, <1>5, <1>6, <1>8, <1>9, <1>11 DEF ShmInv, OwnersOK

\* The rings after one of each was changed.
LEMMA RingsKept ==
  ASSUME RingsOK, NEW i \in Channels, owners' = owners,
         NEW u \in Seq(Sendable(owners[i])), NEW d \in Seq(Belonging(owners[i])),
         up' = [up EXCEPT ![i] = u], down' = [down EXCEPT ![i] = d]
  PROVE  RingsOK'
BY DEF RingsOK

LEMMA RingsType ==
  ASSUME ShmInv, NEW i \in Channels
  PROVE  /\ up[i] \in Seq(Sendable(owners[i])) /\ down[i] \in Seq(Belonging(owners[i]))
         /\ [up EXCEPT ![i] = up[i]] = up /\ [down EXCEPT ![i] = down[i]] = down
BY DEF ShmInv, RingsOK

\* A step of a client that has a channel: the rings of the channel change.
LEMMA ClientKept ==
  ASSUME ShmInv, NEW c \in Clients, pc[c] \in {"reset", "login", "up"},
         NEW u \in Seq(Sendable(owners[at[c]])), NEW d \in Seq(Belonging(owners[at[c]])),
         up' = [up EXCEPT ![at[c]] = u], down' = [down EXCEPT ![at[c]] = d],
         NEW step \in {"login", "up"}, pc' = [pc EXCEPT ![c] = step] \/ UNCHANGED pc,
         idle' \in [Clients -> 0 .. Interval + 1], sendType' \in [Clients -> Types],
         outbox' \in [Clients -> Seq(Numbers)], waiting' \in [Clients -> SUBSET Numbers],
         mistyped' \in [Clients -> SUBSET Numbers], dropped' \subseteq Numbers,
         UNCHANGED <<tableVars, serverVars, at, starts, asks, history>>
  PROVE  ShmInv'
<1> USE DEF tableVars, serverVars, history
<1>1. at[c] \in Channels
  BY DEF ShmInv, TypesOK
<1>2. RingsOK'
  BY <1>1, RingsKept DEF ShmInv
<1>3. TypesOK'
  BY DEF ShmInv, TypesOK
<1>4. HandOK'
  BY DEF ShmInv, HandOK
<1>5. \A x \in Clients : pc'[x] \in {"reset", "login", "up"} => pc[x] \in {"reset", "login", "up"}
  BY DEF ShmInv, TypesOK
<1> QED
  BY <1>2, <1>3, <1>4, <1>5, Kept

LEMMA LogsInKeeps ==
  ASSUME ShmInv, NEW c \in Clients, LogsIn(c)
  PROVE  ShmInv'
<1>1. <<Login>> \in Seq(Sendable(owners[at[c]]))
  BY ControlMessages
<1>2. <<>> \in Seq(Belonging(owners[at[c]]))
  BY EmptySeq
<1>3. /\ idle' \in [Clients -> 0 .. Interval + 1] /\ sendType' \in [Clients -> Types]
      /\ outbox' \in [Clients -> Seq(Numbers)] /\ waiting' \in [Clients -> SUBSET Numbers]
      /\ mistyped' \in [Clients -> SUBSET Numbers] /\ dropped' \subseteq Numbers
  BY DEF ShmInv, TypesOK, LogsIn
<1> QED
  BY <1>1, <1>2, <1>3, ClientKept DEF LogsIn

LEMMA AwaitsAckKeeps ==
  ASSUME ShmInv, NEW c \in Clients, AwaitsAck(c)
  PROVE  ShmInv'
<1> DEFINE i == at[c]
<1>1. i \in Channels
  BY DEF ShmInv, TypesOK
<1>2. Tail(down[i]) \in Seq(Belonging(owners[i]))
  BY <1>1, RingsType, TailType DEF AwaitsAck
<1>3. Push(up[i], RingCap, ClientAck) \in Seq(Sendable(owners[i]))
  BY <1>1, RingsType, PushType, ControlMessages
<1>4. /\ idle' \in [Clients -> 0 .. Interval + 1] /\ sendType' \in [Clients -> Types]
      /\ outbox' \in [Clients -> Seq(Numbers)] /\ waiting' \in [Clients -> SUBSET Numbers]
      /\ mistyped' \in [Clients -> SUBSET Numbers] /\ dropped' \subseteq Numbers
  <2>1. idle' = [idle EXCEPT ![c] = 0] \/ idle' = idle
    BY DEF AwaitsAck
  <2>2. 0 \in 0 .. Interval + 1
    BY ShmAssumption
  <2> QED
    BY <2>1, <2>2 DEF ShmInv, TypesOK, AwaitsAck
<1>5. down' = [down EXCEPT ![i] = Tail(down[i])]
  BY DEF AwaitsAck
<1>6. CASE Head(down[i]).type = "server_ack"
  <2>1. up' = [up EXCEPT ![i] = Push(up[i], RingCap, ClientAck)] /\ pc' = [pc EXCEPT ![c] = "up"]
    BY <1>6 DEF AwaitsAck
  <2> QED
    BY <1>2, <1>3, <1>4, <1>5, <2>1, ClientKept DEF AwaitsAck
<1>7. CASE Head(down[i]).type # "server_ack"
  <2>1. up' = [up EXCEPT ![i] = up[i]] /\ UNCHANGED pc
    BY <1>1, <1>7, RingsType DEF AwaitsAck
  <2> QED
    BY <1>1, <1>2, <1>4, <1>5, <2>1, RingsType, ClientKept DEF AwaitsAck
<1> QED
  BY <1>6, <1>7

LEMMA HandleMsgKeeps ==
  ASSUME ShmInv, NEW c \in Clients, HandleMsg(c)
  PROVE  ShmInv'
<1> DEFINE i       == at[c]
           pops    == outbox[c] # <<>>
           request == Message(sendType[c], c, Head(outbox[c]))
           sends   == pops /\ Len(up[i]) < RingCap
           takes   == down[i] # <<>>
           idleNow == IF sends \/ takes THEN 0 ELSE idle[c]
           beats   == HeartBeatDue(idleNow)
           sent    == IF sends THEN Append(up[i], request) ELSE up[i]
           u       == IF beats THEN Push(sent, RingCap, HeartBeat) ELSE sent
           d       == IF takes THEN Tail(down[i]) ELSE down[i]
<1>1. i \in Channels /\ c # NoClient /\ c \in owners[i] /\ pc[c] = "up"
  BY ShmAssumption DEF ShmInv, TypesOK, OwnersOK, Owns, HandleMsg
<1>2. pops => Head(outbox[c]) \in Numbers /\ Tail(outbox[c]) \in Seq(Numbers)
  BY TailType DEF ShmInv, TypesOK
<1>2a. pops => request \in Sendable(owners[i])
  BY <1>1, <1>2 DEF ShmInv, TypesOK, Message, Messages, Sendable, Belonging
<1>3. sent \in Seq(Sendable(owners[i]))
  <2>1. up[i] \in Seq(Sendable(owners[i]))
    BY <1>1, RingsType
  <2>2. pops => Append(up[i], request) \in Seq(Sendable(owners[i]))
    BY <1>2a, <2>1
  <2> QED
    BY <2>1, <2>2
<1>4. u \in Seq(Sendable(owners[i]))
  BY <1>3, PushType, ControlMessages
<1>5. d \in Seq(Belonging(owners[i]))
  BY <1>1, RingsType, TailType
<1>6. up' = [up EXCEPT ![i] = u]
  BY DEF HandleMsg
<1>7. down' = [down EXCEPT ![i] = d]
  BY <1>1, RingsType DEF HandleMsg
<1>8. idle' \in [Clients -> 0 .. Interval + 1] /\ outbox' \in [Clients -> Seq(Numbers)]
  BY <1>2, ShmAssumption DEF ShmInv, TypesOK, HandleMsg
<1>9. sendType' \in [Clients -> Types]
  <2>1. takes => Head(down[i]).type \in Types
    <3>1. takes => Head(down[i]) \in Belonging(owners[i])
      BY <1>1, RingsType, TailType
    <3> QED
      BY <3>1 DEF Belonging, Messages
  <2> QED
    BY <2>1 DEF ShmInv, TypesOK, HandleMsg
<1>10. waiting' \in [Clients -> SUBSET Numbers] /\ dropped' \subseteq Numbers
  <2>1. AnsweredBy(c, Head(down[i])) \subseteq waiting[c] /\ waiting[c] \subseteq Numbers
    BY DEF AnsweredBy, ShmInv, TypesOK
  <2>2. pops => request.id \in Numbers
    BY <1>2 DEF Message
  <2>3. PICK full \in BOOLEAN :
          /\ waiting' = [waiting EXCEPT ![c] =
                IF full THEN @ ELSE @ \ (IF takes THEN AnsweredBy(c, Head(down[i])) ELSE {})]
          /\ dropped' = dropped \cup (IF pops /\ ~sends THEN {request.id} ELSE {})
                                \cup (IF full THEN (IF takes THEN AnsweredBy(c, Head(down[i])) ELSE {}) ELSE {})
    BY DEF HandleMsg
  <2>4. waiting \in [Clients -> SUBSET Numbers] /\ dropped \subseteq Numbers
    BY DEF ShmInv, TypesOK
  <2> HIDE DEF request, pops, takes, sends, i
  <2> QED
    BY ONLY <2>1, <2>2, <2>3, <2>4
<1>10a. mistyped' \in [Clients -> SUBSET Numbers]
  <2>1. pops => request.id \in Numbers
    BY <1>2 DEF Message
  <2>2. mistyped' = [mistyped EXCEPT ![c] = IF sends /\ sendType[c] # "data" THEN @ \cup {request.id} ELSE @]
    BY DEF HandleMsg
  <2> HIDE DEF request
  <2> QED
    BY <2>1, <2>2 DEF ShmInv, TypesOK
<1>11. UNCHANGED <<tableVars, serverVars, pc, at, starts, asks, history>>
  BY DEF HandleMsg
<1> HIDE DEF u, d, i
<1> QED
  BY <1>1, <1>4, <1>5, <1>6, <1>7, <1>8, <1>9, <1>10, <1>10a, <1>11, ClientKept DEF i

LEMMA AsksKeeps ==
  ASSUME ShmInv, NEW c \in Clients, Asks(c) \/ ClientEnds(c)
  PROVE  ShmInv'
<1> USE DEF tableVars, serverVars, history
<1>1. TypesOK'
  <2>1. CASE Asks(c)
    <3>1. asks' \in Numbers /\ asks' \in Nat
      BY <2>1, ShmAssumption DEF ShmInv, TypesOK, Asks, Spare, Numbers
    <3>2. Push(outbox[c], QueueCap, asks') \in Seq(Numbers)
      BY <3>1, PushType DEF ShmInv, TypesOK
    <3> QED
      BY <2>1, <3>1, <3>2 DEF ShmInv, TypesOK, Asks
  <2>2. CASE ClientEnds(c)
    <3>1. 0 \in 0 .. Interval + 1 /\ 0 \in Channels /\ "data" \in Types
      BY NoneIsNoChannel, ShmAssumption DEF Types
    <3> QED
      BY <2>2, <3>1, EmptySeq DEF ShmInv, TypesOK, ClientEnds
  <2> QED
    BY <2>1, <2>2
<1>2. OwnersOK'
  <2>1. UNCHANGED <<name, owners, raced, outlived>>
    BY DEF Asks, ClientEnds
  <2>2. ASSUME NEW j \in Channels PROVE Owned(j)'
    BY <2>1 DEF ShmInv, OwnersOK, Owned
  <2>3. ASSUME NEW d \in Clients PROVE Owns(d)'
    BY <2>1 DEF ShmInv, OwnersOK, Owns, TypesOK, Asks, ClientEnds
  <2> QED
    BY <2>2, <2>3 DEF OwnersOK
<1>3. RingsOK' /\ HandOK' /\ QueuesOK'
  BY DEF ShmInv, RingsOK, HandOK, QueuesOK, Addressed, Asks, ClientEnds
<1> QED
  BY <1>1, <1>2, <1>3 DEF ShmInv

LEMMA ServerPopsKeeps ==
  ASSUME ShmInv, NEW i \in Channels, ServerPops(i)
  PROVE  ShmInv'
<1> USE DEF clientVars, history
<1>1. Tail(up[i]) \in Seq(Sendable(owners[i])) /\ Head(up[i]) \in Sendable(owners[i])
  BY RingsType, TailType DEF ServerPops
<1>2. RingsOK'
  BY <1>1, RingsType, RingsKept DEF ServerPops, ShmInv
<1>3. TypesOK'
  <2>1. msg' \in Messages /\ 0 \in 0 .. Interval + 1
    BY <1>1, ShmAssumption DEF ServerPops, Sendable, Belonging
  <2> QED
    BY <2>1 DEF ServerPops, ShmInv, TypesOK
<1>4. HandOK'
  BY <1>1 DEF ServerPops, HandOK
<1> QED
  BY <1>2, <1>3, <1>4, Kept DEF ServerPops

LEMMA ServerHandlesKeeps ==
  ASSUME ShmInv, NEW i \in Channels, ServerHandles(i)
  PROVE  ShmInv'
<1> USE DEF clientVars, history
<1>1. i # None /\ handling = i /\ msg \in Sendable(owners[i])
  BY NoneIsNoChannel DEF ShmInv, HandOK, ServerHandles
<1>2. Reaction(down[i]) \in Seq(Belonging(owners[i]))
  <2>1. Push(down[i], RingCap, ServerAck) \in Seq(Belonging(owners[i]))
    BY RingsType, PushType, ControlMessages DEF Sendable
  <2>2. WithInitData(down[i]) \in Seq(Belonging(owners[i]))
    BY RingsType, InitDataType
  <2> QED
    BY <2>1, <2>2, RingsType DEF Reaction
<1>3. RingsOK'
  <2>1. down' = [down EXCEPT ![i] = Reaction(down[i])] /\ up' = [up EXCEPT ![i] = up[i]]
    BY RingsType DEF ServerHandles
  <2> QED
    BY <1>2, <2>1, RingsType, RingsKept DEF ServerHandles, ShmInv
<1>4. TypesOK'
  <2>1. dropped' \subseteq Numbers
    <3>1. msg.type = "data" => msg.id \in Numbers
      BY <1>1 DEF Sendable
    <3> QED
      BY <3>1 DEF ServerHandles, Lost, ShmInv, TypesOK
  <2>2. HeartBeat \in Messages
    BY DEF HeartBeat, Message, Messages, Types
  <2> QED
    BY <2>1, <2>2 DEF ServerHandles, ShmInv, TypesOK
<1>5. HandOK'
  BY DEF ServerHandles, HandOK
<1>6. QueuesOK'
  <2>1. msg.type = "data" => [channel |-> i, for |-> msg.for, id |-> msg.id] \in Addressed
    BY <1>1 DEF Sendable, Belonging, Messages, Addressed, Requests
  <2>2. requests' \in Seq(Addressed)
    BY <2>1, PushType DEF ServerHandles, ShmInv, QueuesOK
  <2> QED
    BY <2>2 DEF ServerHandles, ShmInv, QueuesOK, Addressed
<1>7. OwnersOK'
  BY DEF ServerHandles, ShmInv, OwnersOK, Owned, Owns
<1> QED
  BY <1>3, <1>4, <1>5, <1>6, <1>7 DEF ShmInv

LEMMA ServerDropsKeeps ==
  ASSUME ShmInv, NEW i \in Channels, ServerDrops(i)
  PROVE  ShmInv'
<1> USE DEF serverVars, clientVars, history
<1>1. TypesOK' /\ OwnersOK'
  BY DEF ShmInv, TypesOK, OwnersOK, Owned, Owns, ServerDrops
<1>2. RingsOK' /\ HandOK' /\ QueuesOK'
  BY DEF ShmInv, RingsOK, HandOK, QueuesOK, Addressed, ServerDrops
<1> QED
  BY <1>1, <1>2 DEF ShmInv

LEMMA ServerSendsKeeps ==
  ASSUME ShmInv, ServerSends
  PROVE  ShmInv'
<1> USE DEF clientVars, history
<1> DEFINE a == Head(answers)
<1>1. a \in Addressed /\ Tail(answers) \in Seq(Addressed)
  BY TailType DEF ShmInv, QueuesOK, ServerSends
<1>2. a.channel \in Channels /\ a.for \in owners[a.channel] /\ a.for \in Clients /\ a.id \in Numbers
  BY <1>1 DEF Addressed, Requests
<1>3. Push(down[a.channel], RingCap, Message("data", a.for, a.id)) \in Seq(Belonging(owners[a.channel]))
  <2>1. Message("data", a.for, a.id) \in Belonging(owners[a.channel])
    BY <1>2 DEF Belonging, Message, Messages, Types
  <2> QED
    BY <1>2, <2>1, RingsType, PushType
<1>4. RingsOK'
  <2>1. CASE UNCHANGED down
    BY <2>1 DEF ServerSends, ShmInv, RingsOK
  <2>2. CASE down' = [down EXCEPT ![a.channel] = Push(@, RingCap, Message("data", a.for, a.id))]
    <3>1. up' = [up EXCEPT ![a.channel] = up[a.channel]]
      BY <1>2, RingsType DEF ServerSends
    <3> QED
      BY <1>2, <1>3, <2>2, <3>1, RingsType, RingsKept DEF ServerSends, ShmInv
  <2> QED
    BY <2>1, <2>2 DEF ServerSends
<1>5. TypesOK'
  <2>1. age' = age \/ age' = [age EXCEPT ![a.channel] = 0]
    BY DEF ServerSends
  <2>2. 0 \in 0 .. Interval + 1
    BY ShmAssumption
  <2>3. dropped' \subseteq Numbers
    BY <1>2 DEF ServerSends, Lost, ShmInv, TypesOK
  <2> QED
    BY <2>1, <2>2, <2>3 DEF ServerSends, ShmInv, TypesOK
<1>6. OwnersOK' /\ HandOK' /\ QueuesOK'
  BY <1>1 DEF ServerSends, ShmInv, OwnersOK, Owned, Owns, HandOK, QueuesOK, Addressed
<1> QED
  BY <1>4, <1>5, <1>6 DEF ShmInv

LEMMA ServerAnswersKeeps ==
  ASSUME ShmInv, ServerAnswers
  PROVE  ShmInv'
<1> USE DEF tableVars, clientVars, history
<1>1. requests' \in Seq(Addressed) /\ answers' \in Seq(Addressed)
  BY TailType, PushType DEF ShmInv, QueuesOK, ServerAnswers, Answer
<1>2. QueuesOK'
  BY <1>1 DEF QueuesOK, Addressed, ServerAnswers
<1>3. TypesOK' /\ OwnersOK'
  <2>1. Head(requests) \in Addressed
    BY TailType DEF ShmInv, QueuesOK, ServerAnswers
  <2>2. dropped' \subseteq Numbers
    BY <2>1 DEF Addressed, Requests, ServerAnswers, Lost, ShmInv, TypesOK
  <2> QED
    BY <2>2 DEF ServerAnswers, ShmInv, TypesOK, OwnersOK, Owned, Owns
<1>4. RingsOK' /\ HandOK'
  BY DEF ServerAnswers, ShmInv, RingsOK, HandOK
<1> QED
  BY <1>2, <1>3, <1>4 DEF ShmInv

LEMMA ServerRestartsKeeps ==
  ASSUME ShmInv, ServerRestarts
  PROVE  ShmInv'
<1> USE DEF clientVars
<1>1. TypesOK'
  BY NoneIsNoChannel, ShmAssumption, ControlMessages
     DEF ServerRestarts, ShmInv, TypesOK, Users, HeartBeat, Message, Messages, Types
<1>2. ASSUME NEW i \in Channels PROVE Owned(i)'
  BY ShmAssumption DEF ServerRestarts, Owned
<1>3. ASSUME NEW c \in Clients PROVE Owns(c)'
  BY DEF ServerRestarts, Owns, Users, ShmInv, TypesOK
<1>4. RingsOK' /\ HandOK' /\ QueuesOK'
  BY EmptySeq DEF ServerRestarts, RingsOK, HandOK, QueuesOK
<1> QED
  BY <1>1, <1>2, <1>3, <1>4 DEF ShmInv, OwnersOK

LEMMA TickKeeps ==
  ASSUME ShmInv, Tick
  PROVE  ShmInv'
<1> USE DEF serverVars, history
<1>1. age' \in [Channels -> 0 .. Interval + 1]
  <2>1. \A i \in Channels : connected[i] => age[i] + 1 \in 0 .. Interval + 1
    BY ShmAssumption DEF Tick, TimedOut, ShmInv, TypesOK
  <2> QED
    BY <2>1 DEF Tick, ShmInv, TypesOK
<1>2. idle' \in [Clients -> 0 .. Interval + 1]
  <2>1. \A c \in Clients : pc[c] = "up" => idle[c] + 1 \in 0 .. Interval + 1
    BY ShmAssumption DEF Tick, HeartBeatDue, ShmInv, TypesOK
  <2> QED
    BY <2>1 DEF Tick, ShmInv, TypesOK
<1>3. TypesOK'
  BY <1>1, <1>2 DEF Tick, ShmInv, TypesOK
<1>4. OwnersOK' /\ RingsOK' /\ HandOK' /\ QueuesOK'
  BY DEF Tick, ShmInv, OwnersOK, Owned, Owns, RingsOK, HandOK, QueuesOK, Addressed
<1> QED
  BY <1>3, <1>4 DEF ShmInv

LEMMA ShmInvStep == ShmInv /\ [Next]_vars => ShmInv'
<1> SUFFICES ASSUME ShmInv, [Next]_vars PROVE ShmInv'
  OBVIOUS
<1>1. ASSUME NEW c \in Clients, ClientStep(c) PROVE ShmInv'
  BY <1>1, TakesKeeps, LogsInKeeps, AwaitsAckKeeps, HandleMsgKeeps DEF ClientStep
<1>2. ASSUME ServerStep PROVE ShmInv'
  BY <1>2, ServerPopsKeeps, ServerHandlesKeeps, ServerDropsKeeps, ServerSendsKeeps DEF ServerStep, ChannelStep
<1>3. CASE UNCHANGED vars
  BY <1>3 DEF vars, tableVars, serverVars, clientVars, history, ShmInv, TypesOK, OwnersOK, Owned, Owns,
              RingsOK, HandOK, QueuesOK, Addressed
<1> QED
  BY <1>1, <1>2, <1>3, StartsKeeps, AsksKeeps, ServerAnswersKeeps,
     ServerRestartsKeeps, TickKeeps DEF Next

LEMMA ShmAlways == Spec => []ShmInv
BY ShmInvInit, ShmInvStep, PTL DEF Spec

-----------------------------------------------------------------------------
(* What follows.                                                           *)

\* For any clients, channels and sizes: every variable keeps its type.
THEOREM ShmTypeOK == Spec => []TypeOK
<1>1. ASSUME ShmInv PROVE TypeOK
  <2>1. \A os : Belonging(os) \subseteq Messages /\ Sendable(os) \subseteq Messages
    BY DEF Sendable, Belonging
  <2>2. \A i \in Channels : up[i] \in Seq(Messages) /\ down[i] \in Seq(Messages)
    BY <1>1, <2>1, RingsType, Larger
  <2>3. up \in [Channels -> Seq(Messages)] /\ down \in [Channels -> Seq(Messages)]
    BY <1>1, <2>2 DEF ShmInv, RingsOK
  <2>4. Addressed \subseteq Requests
    BY DEF Addressed
  <2>5. requests \in Seq(Requests) /\ answers \in Seq(Requests)
    BY <1>1, <2>4, Larger DEF ShmInv, QueuesOK
  <2> QED
    BY <1>1, <2>3, <2>5 DEF ShmInv, TypesOK, TypeOK
<1> QED
  BY <1>1, ShmAlways, PTL

\* For any clients and channels: a channel has one client, unless two found it
\* empty at once or one of them outlived the server.
THEOREM OneClientAlways == Spec => []OneClientPerChannel
<1>1. ShmInv => OneClientPerChannel
  BY DEF ShmInv, OwnersOK, Owned, OneClientPerChannel
<1> QED
  BY <1>1, ShmAlways, PTL

\* For any clients, channels and sizes of the rings: what the server puts into
\* the channel of a client that has it alone answers this client's requests.
THEOREM AnswersReachAskerAlways == Spec => []AnswersReachAsker
<1>1. ASSUME ShmInv, NEW c \in Clients, Private(c), NEW m \in Contents(down[at[c]])
      PROVE  m.for \in {c, NoClient}
  <2>1. at[c] \in Channels /\ owners[at[c]] = {c}
    BY <1>1 DEF ShmInv, TypesOK, Private
  <2>2. m \in Belonging(owners[at[c]])
    <3>1. down[at[c]] \in Seq(Belonging(owners[at[c]]))
      BY <1>1, <2>1, RingsType
    <3>2. PICK n \in DOMAIN down[at[c]] : m = down[at[c]][n]
      BY <1>1 DEF Contents
    <3> QED
      BY <3>1, <3>2
  <2> QED
    BY <2>1, <2>2 DEF Belonging
<1>2. ShmInv => AnswersReachAsker
  BY <1>1 DEF AnswersReachAsker
<1> QED
  BY <1>2, ShmAlways, PTL

-----------------------------------------------------------------------------
(* The login of a first run.  A client that runs for the first time, alone *)
(* on a channel that no restart of the server went over, finds the channel *)
(* untouched.  So there is one login request, one acknowledgement of it,   *)
(* and once that was taken nothing but data comes down.                    *)

Using  == {"reset", "login", "up"}
Alone(c) == pc[c] \in Using /\ owners[at[c]] = {c} /\ ~outlived[at[c]]

NoLogins == {m \in Messages : m.type # "login"}
DataOnly == {m \in Messages : m.type = "data"}

Untouched(i) == up[i] = <<>> /\ down[i] = <<>> /\ handling # i /\ ~connected[i]

\* The one login request is in the ring, in the hand of the server, or
\* answered.
OneLogin(i) ==
  /\ ~connected[i]
  /\ \/ up[i] = <<Login>> /\ handling # i /\ down[i] = <<>>
     \/ up[i] = <<>> /\ handling = i /\ msg = Login /\ down[i] = <<>>
     \/ up[i] = <<>> /\ handling # i /\ down[i] \in {<<>>, <<ServerAck>>}

LoggedIn(i) ==
  /\ up[i] \in Seq(NoLogins) /\ down[i] \in Seq(DataOnly)
  /\ handling = i => msg \in NoLogins

FirstRun(c) ==
  starts[c] = 1 /\ Alone(c) =>
    /\ pc[c] = "reset" => Untouched(at[c])
    /\ pc[c] = "login" => OneLogin(at[c])
    /\ pc[c] = "up"    => LoggedIn(at[c]) /\ sendType[c] = "data" /\ mistyped[c] = {}

\* A client that has not come to take a channel has none.
NotYet(c) ==
  /\ starts[c] = 0 => pc[c] = "off"
  /\ starts[c] = 0 \/ (starts[c] = 1 /\ pc[c] = "take") => \A i \in Channels : c \notin owners[i]
  /\ pc[c] # "up" => sendType[c] = "data" /\ mistyped[c] = {}

LoginInv ==
  /\ \A i \in Channels : owners[i] = {} => Untouched(i)
  /\ \A c \in Clients : FirstRun(c) /\ NotYet(c)

LEMMA LoginInvInit == Init => LoginInv
BY NoneIsNoChannel DEF Init, LoginInv, Untouched, FirstRun, NotYet, Alone, Using

\* What a step leaves alone.
SameRings(i) ==
  up'[i] = up[i] /\ down'[i] = down[i] /\ connected'[i] = connected[i]
  /\ (handling' = i <=> handling = i) /\ (handling = i => msg' = msg)
SameClient(c) ==
  /\ pc'[c] = pc[c] /\ at'[c] = at[c] /\ starts'[c] = starts[c]
  /\ sendType'[c] = sendType[c] /\ mistyped'[c] = mistyped[c]

LEMMA SameRun ==
  ASSUME NEW c \in Clients, FirstRun(c), SameClient(c), Alone(c)' => Alone(c) /\ SameRings(at[c])
  PROVE  FirstRun(c)'
BY DEF FirstRun, SameClient, SameRings, Untouched, OneLogin, LoggedIn, NoLogins, DataOnly

LEMMA SameUntouched ==
  ASSUME NEW i, Untouched(i), SameRings(i)
  PROVE  Untouched(i)'
BY DEF Untouched, SameRings

\* A client that has a channel is one of its owners.
LEMMA UserOwns ==
  ASSUME ShmInv, NEW c \in Clients, pc[c] \in Using
  PROVE  at[c] \in Channels /\ c \in owners[at[c]]
BY DEF ShmInv, TypesOK, OwnersOK, Owns, Using

\* A step of client c that has a channel and changes its rings: what there is
\* to show of it is FirstRun(c)'.
LEMMA UserLogin ==
  ASSUME ShmInv, LoginInv, NEW c \in Clients, pc[c] \in Using, pc'[c] \in Using,
         NEW u, NEW d, up' = [up EXCEPT ![at[c]] = u], down' = [down EXCEPT ![at[c]] = d],
         \A e \in Clients \ {c} : SameClient(e),
         UNCHANGED <<tableVars, serverVars, at, starts, history>>,
         FirstRun(c)', NotYet(c)'
  PROVE  LoginInv'
<1> USE DEF tableVars, serverVars, history
<1>1. at[c] \in Channels /\ c \in owners[at[c]]
  BY UserOwns
<1>2. \A i \in Channels \ {at[c]} : SameRings(i)
  BY DEF SameRings, ShmInv, RingsOK
<1>3. ASSUME NEW e \in Clients PROVE FirstRun(e)' /\ NotYet(e)'
  <2>1. CASE e = c
    BY <2>1
  <2>2. CASE e # c
    <3>1. SameClient(e)
      BY <2>2
    <3>2. Alone(e)' => Alone(e) /\ at[e] \in Channels \ {at[c]}
      BY <1>1, <2>2, <3>1, UserOwns DEF Alone, SameClient
    <3>3. NotYet(e)'
      BY <3>1 DEF NotYet, LoginInv, SameClient
    <3> QED
      BY <1>2, <3>1, <3>2, <3>3, SameRun DEF LoginInv
  <2> QED
    BY <2>1, <2>2
<1>4. ASSUME NEW i \in Channels, owners'[i] = {} PROVE Untouched(i)'
  BY <1>1, <1>2, <1>4, SameUntouched DEF LoginInv
<1> QED
  BY <1>3, <1>4 DEF LoginInv

LEMMA StartsLogin ==
  ASSUME ShmInv, LoginInv, NEW c \in Clients, Starts(c)
  PROVE  LoginInv'
<1> USE DEF tableVars, serverVars, history
<1>1. PICK i \in Channels :
        /\ at' = [at EXCEPT ![c] = i]
        /\ pc' = [pc EXCEPT ![c] = IF name[i] = c THEN "reset" ELSE "take"]
  BY DEF Starts
<1>2. \A j \in Channels : SameRings(j)
  BY DEF Starts, SameRings
<1>3. ASSUME NEW e \in Clients PROVE FirstRun(e)' /\ NotYet(e)'
  <2>1. CASE e # c
    <3>1. SameClient(e)
      BY <1>1, <2>1 DEF Starts, SameClient, ShmInv, TypesOK
    <3>2. Alone(e)' => Alone(e) /\ at[e] \in Channels
      BY <3>1 DEF Starts, Alone, SameClient, ShmInv, TypesOK
    <3>3. NotYet(e)'
      BY <3>1 DEF Starts, NotYet, LoginInv, SameClient
    <3> QED
      BY <1>2, <3>1, <3>2, <3>3, SameRun DEF LoginInv
  <2>2. CASE e = c
    <3>1. starts'[c] = starts[c] + 1 /\ starts[c] \in Nat /\ pc[c] = "off"
      BY DEF Starts, ShmInv, TypesOK
    <3>2. starts[c] = 0 => \A j \in Channels : c \notin owners[j]
      BY DEF LoginInv, NotYet
    <3>3. name[i] = c => c \in owners[i]
      BY ShmAssumption DEF ShmInv, OwnersOK, Owned
    <3>4. starts'[c] = 1 => pc'[c] = "take"
      BY <1>1, <3>1, <3>2, <3>3 DEF ShmInv, TypesOK
    <3>5. FirstRun(c)'
      BY <3>4 DEF FirstRun, Alone, Using
    <3>6. NotYet(c)'
      BY <1>1, <3>1, <3>2 DEF NotYet, Starts, LoginInv, ShmInv, TypesOK
    <3> QED
      BY <2>2, <3>5, <3>6
  <2> QED
    BY <2>1, <2>2
<1>4. ASSUME NEW j \in Channels, owners'[j] = {} PROVE Untouched(j)'
  BY <1>2, <1>4, SameUntouched DEF LoginInv, Starts
<1> QED
  BY <1>3, <1>4 DEF LoginInv

LEMMA TakesLogin ==
  ASSUME ShmInv, LoginInv, NEW c \in Clients, Takes(c)
  PROVE  LoginInv'
<1> USE DEF tableVars, serverVars, history
<1> DEFINE i == at[c]
<1>1. /\ i \in Channels
      /\ owners' = [owners EXCEPT ![i] = @ \cup {c}]
      /\ up' = [up EXCEPT ![i] = <<>>] /\ down' = [down EXCEPT ![i] = <<>>]
      /\ pc' = [pc EXCEPT ![c] = "reset"] /\ pc[c] = "take"
      /\ UNCHANGED <<connected, serverVars, at, sendType, mistyped, starts, outlived>>
  BY DEF Takes, ShmInv, TypesOK
<1>2. owners'[i] = owners[i] \cup {c} /\ \A j \in Channels \ {i} : owners'[j] = owners[j]
  BY <1>1 DEF ShmInv, TypesOK
<1>3. \A j \in Channels \ {i} : SameRings(j)
  BY <1>1 DEF SameRings, ShmInv, RingsOK
<1>4. ASSUME NEW e \in Clients PROVE FirstRun(e)' /\ NotYet(e)'
  <2>1. CASE e # c
    <3>1. SameClient(e)
      BY <1>1, <2>1 DEF SameClient, ShmInv, TypesOK
    <3>2. Alone(e)' => Alone(e) /\ at[e] \in Channels \ {i}
      <4>1. SUFFICES ASSUME Alone(e)' PROVE Alone(e) /\ at[e] # i
        BY DEF ShmInv, TypesOK
      <4>2. owners'[at[e]] = {e} /\ pc[e] \in Using /\ ~outlived[at[e]]
        BY <1>1, <3>1, <4>1 DEF Alone, SameClient
      <4>3. at[e] # i
        BY <1>2, <2>1, <4>2
      <4> QED
        BY <1>2, <4>2, <4>3 DEF Alone, ShmInv, TypesOK
    <3>3. NotYet(e)'
      BY <1>1, <1>2, <2>1, <3>1 DEF NotYet, LoginInv, SameClient
    <3> QED
      BY <1>3, <3>1, <3>2, <3>3, SameRun DEF LoginInv
  <2>2. CASE e = c
    <3>1. pc'[c] = "reset" /\ at'[c] = i /\ starts'[c] = starts[c]
      BY <1>1 DEF ShmInv, TypesOK
    <3>2. starts[c] # 0
      BY <1>1 DEF LoginInv, NotYet
    <3>3. starts[c] = 1 => \A j \in Channels : c \notin owners[j]
      BY <1>1 DEF LoginInv, NotYet
    <3>4. FirstRun(c)'
      <4>1. SUFFICES ASSUME starts[c] = 1, owners'[i] = {c} PROVE Untouched(i)'
        BY <3>1 DEF FirstRun, Alone
      <4>2. owners[i] = {}
        BY <1>1, <1>2, <3>3, <4>1
      <4>3. Untouched(i)
        BY <1>1, <4>2 DEF LoginInv
      <4> QED
        BY <1>1, <4>3 DEF Untouched, ShmInv, RingsOK
    <3>5. NotYet(c)'
      BY <1>1, <3>1, <3>2 DEF NotYet, LoginInv
    <3> QED
      BY <2>2, <3>4, <3>5
  <2> QED
    BY <2>1, <2>2
<1>5. ASSUME NEW j \in Channels, owners'[j] = {} PROVE Untouched(j)'
  BY <1>2, <1>3, <1>5, SameUntouched DEF LoginInv
<1> QED
  BY <1>4, <1>5 DEF LoginInv

LEMMA LogsInLogin ==
  ASSUME ShmInv, LoginInv, NEW c \in Clients, LogsIn(c)
  PROVE  LoginInv'
<1> USE DEF tableVars, serverVars, history
<1>1. at[c] \in Channels /\ pc[c] = "reset" /\ pc'[c] = "login"
  BY DEF LogsIn, ShmInv, TypesOK
<1>2. up'[at[c]] = <<Login>> /\ down'[at[c]] = <<>>
  BY <1>1 DEF LogsIn, ShmInv, RingsOK
<1>3. FirstRun(c)'
  BY <1>1, <1>2 DEF LogsIn, LoginInv, FirstRun, Alone, Using, Untouched, OneLogin
<1>4. NotYet(c)'
  BY <1>1 DEF LogsIn, LoginInv, NotYet
<1>5. \A e \in Clients \ {c} : SameClient(e)
  BY DEF LogsIn, SameClient, ShmInv, TypesOK
<1> QED
  BY <1>1, <1>3, <1>4, <1>5, UserLogin DEF LogsIn, Using

LEMMA AwaitsAckLogin ==
  ASSUME ShmInv, LoginInv, NEW c \in Clients, AwaitsAck(c)
  PROVE  LoginInv'
<1> USE DEF tableVars, serverVars, history
<1> DEFINE i == at[c]
           acked == Head(down[i]).type = "server_ack"
           u == IF acked THEN Push(up[i], RingCap, ClientAck) ELSE up[i]
<1>1. i \in Channels /\ pc[c] = "login" /\ pc'[c] = (IF acked THEN "up" ELSE "login")
  BY DEF AwaitsAck, ShmInv, TypesOK
<1>2. down' = [down EXCEPT ![i] = Tail(down[i])] /\ down[i] # <<>>
  BY DEF AwaitsAck
<1>3. up' = [up EXCEPT ![i] = u]
  BY <1>1, RingsType DEF AwaitsAck
<1>4. up'[i] = u /\ down'[i] = Tail(down[i])
  BY <1>1, <1>2, <1>3 DEF ShmInv, RingsOK
<1>5. FirstRun(c)'
  <2>1. SUFFICES ASSUME starts[c] = 1, Alone(c)
                 PROVE  /\ pc'[c] = "login" => OneLogin(i)'
                        /\ pc'[c] = "up" => LoggedIn(i)' /\ sendType'[c] = "data" /\ mistyped'[c] = {}
    BY <1>1 DEF AwaitsAck, FirstRun, Alone, Using
  <2>2. OneLogin(i)
    BY <1>1, <2>1 DEF LoginInv, FirstRun
  <2>3. up[i] = <<>> /\ handling # i /\ down[i] = <<ServerAck>>
    BY <1>2, <2>2 DEF OneLogin
  <2>4. Head(down[i]) = ServerAck /\ Tail(down[i]) = <<>>
    BY <2>3
  <2>5. pc'[c] = "up"
    BY <1>1, <2>4 DEF ServerAck, Message
  <2>6. u \in Seq(NoLogins)
    <3>1. ClientAck \in NoLogins
      BY ControlMessages DEF Sendable, Belonging, NoLogins, ClientAck, Message
    <3>2. up[i] \in Seq(NoLogins)
      BY <2>3
    <3> QED
      BY <3>1, <3>2, PushType
  <2>7. LoggedIn(i)'
    BY <1>4, <2>3, <2>4, <2>6 DEF AwaitsAck, LoggedIn, NoLogins, DataOnly
  <2>8. sendType'[c] = "data" /\ mistyped'[c] = {}
    BY <1>1 DEF AwaitsAck, LoginInv, NotYet
  <2> QED
    BY <2>5, <2>7, <2>8
<1>6. NotYet(c)'
  BY <1>1 DEF AwaitsAck, LoginInv, NotYet
<1>7. \A e \in Clients \ {c} : SameClient(e)
  BY DEF AwaitsAck, SameClient, ShmInv, TypesOK
<1> HIDE DEF u, i
<1> QED
  BY <1>1, <1>2, <1>3, <1>5, <1>6, <1>7, UserLogin DEF AwaitsAck, Using, i

LEMMA HandleMsgLogin ==
  ASSUME ShmInv, LoginInv, NEW c \in Clients, HandleMsg(c)
  PROVE  LoginInv'
<1> USE DEF tableVars, serverVars, history
<1> DEFINE i       == at[c]
           pops    == outbox[c] # <<>>
           request == Message(sendType[c], c, Head(outbox[c]))
           sends   == pops /\ Len(up[i]) < RingCap
           takes   == down[i] # <<>>
           idleNow == IF sends \/ takes THEN 0 ELSE idle[c]
           beats   == HeartBeatDue(idleNow)
           sent    == IF sends THEN Append(up[i], request) ELSE up[i]
           u       == IF beats THEN Push(sent, RingCap, HeartBeat) ELSE sent
           d       == IF takes THEN Tail(down[i]) ELSE down[i]
<1>1. i \in Channels /\ pc[c] = "up" /\ UNCHANGED pc
  BY DEF ShmInv, TypesOK, HandleMsg
<1>2. up' = [up EXCEPT ![i] = u]
  BY DEF HandleMsg
<1>3. down' = [down EXCEPT ![i] = d]
  BY <1>1, RingsType DEF HandleMsg
<1>4. up'[i] = u /\ down'[i] = d
  BY <1>1, <1>2, <1>3 DEF ShmInv, RingsOK
<1>5. FirstRun(c)'
  <2>1. SUFFICES ASSUME starts[c] = 1, Alone(c)
                 PROVE  LoggedIn(i)' /\ sendType'[c] = "data" /\ mistyped'[c] = {}
    BY <1>1 DEF HandleMsg, FirstRun, Alone
  <2>2. LoggedIn(i) /\ sendType[c] = "data" /\ mistyped[c] = {}
    BY <1>1, <2>1 DEF LoginInv, FirstRun
  <2>3. (pops => request \in NoLogins) /\ HeartBeat \in NoLogins
    <3>1. pops => Head(outbox[c]) \in Numbers
      BY TailType DEF ShmInv, TypesOK
    <3> QED
      BY <2>2, <3>1, ControlMessages DEF Sendable, Belonging, NoLogins, HeartBeat, Message, Messages, Types
  <2>4. sent \in Seq(NoLogins)
    <3>1. up[i] \in Seq(NoLogins)
      BY <2>2 DEF LoggedIn
    <3>2. pops => Append(up[i], request) \in Seq(NoLogins)
      BY <2>3, <3>1
    <3> QED
      BY <3>1, <3>2
  <2>5. u \in Seq(NoLogins)
    BY <2>3, <2>4, PushType
  <2>6. d \in Seq(DataOnly) /\ takes => Head(down[i]) \in DataOnly
    BY <2>2, TailType DEF LoggedIn
  <2>7. d \in Seq(DataOnly)
    BY <2>2, TailType DEF LoggedIn
  <2>8. LoggedIn(i)'
    BY <1>4, <2>2, <2>5, <2>7 DEF HandleMsg, LoggedIn, NoLogins, DataOnly
  <2>9. sendType'[c] = "data"
    <3>1. sendType'[c] = IF takes THEN Head(down[i]).type ELSE sendType[c]
      BY DEF HandleMsg, ShmInv, TypesOK
    <3>2. takes => Head(down[i]).type = "data"
      BY <2>6, <2>7 DEF DataOnly
    <3> QED
      BY <2>2, <3>1, <3>2
  <2>10. mistyped'[c] = mistyped[c]
    BY <2>2 DEF HandleMsg, ShmInv, TypesOK
  <2> QED
    BY <2>2, <2>8, <2>9, <2>10
<1>6. NotYet(c)'
  BY <1>1 DEF HandleMsg, LoginInv, NotYet
<1>7. \A e \in Clients \ {c} : SameClient(e)
  BY DEF HandleMsg, SameClient, ShmInv, TypesOK
<1>8. UNCHANGED <<tableVars, serverVars, pc, at, starts, history>>
  BY DEF HandleMsg
<1> HIDE DEF u, d, i
<1> QED
  BY <1>1, <1>2, <1>3, <1>5, <1>6, <1>7, <1>8, UserLogin DEF Using, i

LEMMA AsksLogin ==
  ASSUME ShmInv, LoginInv, NEW c \in Clients, Asks(c) \/ ClientEnds(c)
  PROVE  LoginInv'
<1> USE DEF tableVars, serverVars, history
<1>1. \A i \in Channels : SameRings(i)
  BY DEF Asks, ClientEnds, SameRings
<1>2. ASSUME NEW e \in Clients PROVE FirstRun(e)' /\ NotYet(e)'
  <2>1. CASE e # c
    <3>1. SameClient(e)
      BY <2>1 DEF Asks, ClientEnds, SameClient, ShmInv, TypesOK
    <3>2. Alone(e)' => Alone(e) /\ at[e] \in Channels
      BY <3>1 DEF Asks, ClientEnds, Alone, SameClient, ShmInv, TypesOK
    <3>3. NotYet(e)'
      BY <3>1 DEF Asks, ClientEnds, NotYet, LoginInv, SameClient
    <3> QED
      BY <1>1, <3>1, <3>2, <3>3, SameRun DEF LoginInv
  <2>2. CASE Asks(c) /\ e = c
    <3>1. /\ pc' = pc /\ at' = at /\ starts' = starts /\ sendType' = sendType /\ UNCHANGED mistyped
          /\ pc[c] = "up" /\ UNCHANGED <<tableVars, up, down, serverVars, history>>
      BY <2>2 DEF Asks, ShmInv, TypesOK
    <3>2. FirstRun(c)'
      BY <3>1 DEF FirstRun, Alone, LoginInv, LoggedIn, NoLogins, DataOnly
    <3>3. NotYet(c)'
      BY <3>1 DEF NotYet, LoginInv
    <3> QED
      BY <2>2, <3>2, <3>3
  <2>3. CASE ClientEnds(c) /\ e = c
    <3>1. /\ pc'[c] = "off" /\ sendType'[c] = "data" /\ mistyped'[c] = {} /\ pc[c] # "off"
          /\ UNCHANGED <<starts, owners>>
      BY <2>3 DEF ClientEnds, ShmInv, TypesOK
    <3> QED
      BY <2>3, <3>1 DEF FirstRun, Alone, Using, NotYet, LoginInv
  <2> QED
    BY <2>1, <2>2, <2>3
<1>3. ASSUME NEW j \in Channels, owners'[j] = {} PROVE Untouched(j)'
  BY <1>1, <1>3, SameUntouched DEF LoginInv, Asks, ClientEnds
<1> QED
  BY <1>2, <1>3 DEF LoginInv

\* A step of the server at channel i: what there is to show is the channel of
\* a client in its first run.
LEMMA ServerLogin ==
  ASSUME ShmInv, LoginInv, NEW i \in Channels, UNCHANGED <<clientVars, history>>,
         \A j \in Channels \ {i} : SameRings(j),
         owners[i] # {},
         OneLogin(i) => OneLogin(i)', LoggedIn(i) => LoggedIn(i)', ~Untouched(i)
  PROVE  LoginInv'
<1> USE DEF clientVars, history
<1>1. ASSUME NEW c \in Clients PROVE FirstRun(c)' /\ NotYet(c)'
  <2>1. NotYet(c)'
    BY DEF NotYet, LoginInv
  <2>2. CASE at[c] = i
    <3>1. FirstRun(c)
      BY DEF LoginInv
    <3> QED
      BY <2>1, <2>2, <3>1 DEF FirstRun, Alone
  <2>3. CASE at[c] # i
    <3>1. at[c] \in Channels \ {i}
      BY <2>3 DEF ShmInv, TypesOK
    <3>2. SameClient(c) /\ SameRings(at[c]) /\ (Alone(c)' => Alone(c)) /\ FirstRun(c)
      BY <3>1 DEF SameClient, Alone, LoginInv
    <3> QED
      BY <2>1, <3>2, SameRun
  <2> QED
    BY <2>2, <2>3
<1>2. ASSUME NEW j \in Channels, owners'[j] = {} PROVE Untouched(j)'
  BY <1>2, SameUntouched DEF LoginInv
<1> QED
  BY <1>1, <1>2 DEF LoginInv

LEMMA ServerPopsLogin ==
  ASSUME ShmInv, LoginInv, NEW i \in Channels, ServerPops(i)
  PROVE  LoginInv'
<1>1. ~Untouched(i) /\ owners[i] # {}
  BY DEF ServerPops, Untouched, LoginInv
<1>2. /\ up'[i] = Tail(up[i]) /\ msg' = Head(up[i]) /\ handling' = i /\ handling = None
      /\ up[i] # <<>> /\ i # None /\ UNCHANGED <<down, connected>>
  BY NoneIsNoChannel DEF ServerPops, ShmInv, RingsOK
<1>3. \A j \in Channels \ {i} : SameRings(j)
  BY NoneIsNoChannel DEF ServerPops, SameRings, ShmInv, RingsOK
<1>4. OneLogin(i) => OneLogin(i)'
  <2>1. SUFFICES ASSUME OneLogin(i) PROVE OneLogin(i)'
    OBVIOUS
  <2>2. up[i] = <<Login>> /\ down[i] = <<>> /\ ~connected[i]
    BY <1>2, <2>1 DEF OneLogin
  <2>3. up'[i] = <<>> /\ msg' = Login
    BY <1>2, <2>2
  <2> QED
    BY <1>2, <2>2, <2>3 DEF OneLogin
<1>5. LoggedIn(i) => LoggedIn(i)'
  <2>1. ASSUME up[i] \in Seq(NoLogins)
        PROVE  Tail(up[i]) \in Seq(NoLogins) /\ Head(up[i]) \in NoLogins
    BY <1>2, <2>1, TailType
  <2> QED
    BY <1>2, <2>1 DEF LoggedIn, NoLogins, DataOnly
<1> QED
  BY <1>1, <1>3, <1>4, <1>5, ServerLogin DEF ServerPops

\* The initial data are data.
LEMMA InitDataOnly ==
  ASSUME NEW ring \in Seq(DataOnly)
  PROVE  WithInitData(ring) \in Seq(DataOnly)
<1>1. [type : {"data"}, for : {NoClient}, id : {0}] \subseteq DataOnly
  BY DEF DataOnly, Messages, Types
<1>2. InitData \in Seq(DataOnly)
  BY <1>1, InitDataAssumption, Larger
<1> DEFINE all == ring \o InitData
<1>3. all \in Seq(DataOnly)
  BY <1>2
<1>4. ASSUME Len(all) > RingCap PROVE SubSeq(all, 1, RingCap) \in Seq(DataOnly)
  BY <1>3, <1>4, ShmAssumption
<1> QED
  BY <1>3, <1>4, ShmAssumption DEF WithInitData

LEMMA ServerHandlesLogin ==
  ASSUME ShmInv, LoginInv, NEW i \in Channels, ServerHandles(i)
  PROVE  LoginInv'
<1>1. ~Untouched(i) /\ owners[i] # {}
  BY DEF ServerHandles, Untouched, LoginInv
<1>2. /\ down'[i] = Reaction(down[i]) /\ handling = i /\ handling' # i
      /\ connected'[i] = (connected[i] \/ Connects) /\ UNCHANGED up
  BY NoneIsNoChannel DEF ServerHandles, ShmInv, RingsOK, TypesOK
<1>3. \A j \in Channels \ {i} : SameRings(j)
  BY NoneIsNoChannel DEF ServerHandles, SameRings, ShmInv, RingsOK, TypesOK
<1>4. OneLogin(i) => OneLogin(i)'
  <2>1. SUFFICES ASSUME OneLogin(i) PROVE OneLogin(i)'
    OBVIOUS
  <2>2. up[i] = <<>> /\ msg = Login /\ down[i] = <<>> /\ ~connected[i]
    BY <1>2, <2>1 DEF OneLogin
  <2>3. msg.type = "login"
    BY <2>2 DEF Login, Message
  <2>4. ~connected'[i]
    BY <1>2, <2>2, <2>3 DEF Connects
  <2>5. down'[i] \in {<<>>, <<ServerAck>>}
    BY <1>2, <2>2, <2>3 DEF Reaction, Push
  <2> QED
    BY <1>2, <2>2, <2>4, <2>5 DEF OneLogin
<1>5. LoggedIn(i) => LoggedIn(i)'
  <2>1. SUFFICES ASSUME LoggedIn(i) PROVE LoggedIn(i)'
    OBVIOUS
  <2>2. msg.type # "login" /\ down[i] \in Seq(DataOnly)
    BY <1>2, <2>1 DEF LoggedIn, NoLogins
  <2>3. down'[i] \in Seq(DataOnly)
    BY <1>2, <2>2, InitDataOnly DEF Reaction
  <2> QED
    BY <1>2, <2>1, <2>3 DEF LoggedIn, NoLogins, DataOnly
<1> QED
  BY <1>1, <1>3, <1>4, <1>5, ServerLogin DEF ServerHandles

LEMMA ServerDropsLogin ==
  ASSUME ShmInv, LoginInv, NEW i \in Channels, ServerDrops(i)
  PROVE  LoginInv'
<1>1. ~Untouched(i) /\ owners[i] # {} /\ ~OneLogin(i)
  BY DEF ServerDrops, Untouched, LoginInv, OneLogin
<1>2. \A j \in Channels \ {i} : SameRings(j)
  BY DEF ServerDrops, serverVars, SameRings, ShmInv, TypesOK
<1>3. LoggedIn(i) => LoggedIn(i)'
  BY DEF ServerDrops, serverVars, LoggedIn, NoLogins, DataOnly
<1> QED
  BY <1>1, <1>2, <1>3, ServerLogin DEF ServerDrops

LEMMA ServerSendsLogin ==
  ASSUME ShmInv, LoginInv, ServerSends
  PROVE  LoginInv'
<1>1. Head(answers) \in Addressed
  BY TailType DEF ShmInv, QueuesOK, ServerSends
<1>2. PICK a \in Addressed : a = Head(answers)
  BY <1>1
<1>3. CASE UNCHANGED down
  <2>1. \A j \in Channels : SameRings(j)
    BY <1>3 DEF ServerSends, SameRings
  <2>2. ASSUME NEW c \in Clients PROVE FirstRun(c)' /\ NotYet(c)'
    <3>1. at[c] \in Channels
      BY DEF ShmInv, TypesOK
    <3> QED
      BY <2>1, <3>1, SameRun DEF ServerSends, clientVars, history, SameClient, Alone, LoginInv, NotYet
  <2>3. ASSUME NEW j \in Channels, owners'[j] = {} PROVE Untouched(j)'
    BY <2>1, <2>3, SameUntouched DEF LoginInv, ServerSends, history
  <2> QED
    BY <2>2, <2>3 DEF LoginInv
<1>4. CASE /\ down' = [down EXCEPT ![a.channel] = Push(@, RingCap, Message("data", a.for, a.id))]
            /\ connected[a.channel]
  <2>1. PICK i \in Channels : i = a.channel
    BY DEF Addressed, Requests
  <2>2. ~Untouched(i) /\ owners[i] # {} /\ ~OneLogin(i)
    BY <1>4, <2>1 DEF Untouched, LoginInv, OneLogin
  <2>3. \A j \in Channels \ {i} : SameRings(j)
    BY <1>4, <2>1 DEF ServerSends, SameRings, ShmInv, RingsOK
  <2>4. LoggedIn(i) => LoggedIn(i)'
    <3>1. down'[i] = Push(down[i], RingCap, Message("data", a.for, a.id))
      BY <1>4, <2>1 DEF ShmInv, RingsOK
    <3>2. Message("data", a.for, a.id) \in DataOnly
      BY DEF Addressed, Requests, DataOnly, Message, Messages, Types
    <3>3. down[i] \in Seq(DataOnly) => down'[i] \in Seq(DataOnly)
      BY <3>1, <3>2, PushType
    <3> QED
      BY <3>3 DEF ServerSends, LoggedIn, NoLogins, DataOnly
  <2> QED
    BY <2>2, <2>3, <2>4, ServerLogin DEF ServerSends
<1> QED
  BY <1>2, <1>3, <1>4 DEF ServerSends

LEMMA ServerRestartsLogin ==
  ASSUME ShmInv, LoginInv, ServerRestarts
  PROVE  LoginInv'
<1> USE DEF clientVars
<1>1. ASSUME NEW i \in Channels PROVE Untouched(i)'
  BY NoneIsNoChannel DEF ServerRestarts, Untouched
<1>2. ASSUME NEW c \in Clients PROVE FirstRun(c)' /\ NotYet(c)'
  <2>1. ~Alone(c)'
    <3>1. SUFFICES ASSUME pc[c] \in Using PROVE outlived'[at[c]]
      BY DEF ServerRestarts, Alone
    <3>2. at[c] \in Channels /\ c \in Users(at[c])
      BY <3>1 DEF ShmInv, TypesOK, Users, Using
    <3> QED
      BY <3>2 DEF ServerRestarts
  <2>2. NotYet(c)'
    BY DEF ServerRestarts, NotYet, LoginInv, Users
  <2> QED
    BY <2>1, <2>2 DEF FirstRun
<1> QED
  BY <1>1, <1>2 DEF LoginInv

\* Steps that change none of what LoginInv speaks of.
LEMMA NothingLogin ==
  ASSUME ShmInv, LoginInv, UNCHANGED <<name, connected, up, down, handling, msg, pc, at, sendType, mistyped, starts, history>>
  PROVE  LoginInv'
BY DEF LoginInv, FirstRun, NotYet, Alone, Untouched, OneLogin, LoggedIn, NoLogins, DataOnly, history

LEMMA LoginInvStep == ShmInv /\ LoginInv /\ [Next]_vars => LoginInv'
<1> SUFFICES ASSUME ShmInv, LoginInv, [Next]_vars PROVE LoginInv'
  OBVIOUS
<1>1. ASSUME NEW c \in Clients, ClientStep(c) PROVE LoginInv'
  BY <1>1, TakesLogin, LogsInLogin, AwaitsAckLogin, HandleMsgLogin DEF ClientStep
<1>2. ASSUME ServerStep PROVE LoginInv'
  BY <1>2, ServerPopsLogin, ServerHandlesLogin, ServerDropsLogin, ServerSendsLogin DEF ServerStep, ChannelStep
<1>3. CASE UNCHANGED vars
  BY <1>3, NothingLogin DEF vars, tableVars, serverVars, clientVars
<1>4. CASE ServerAnswers
  BY <1>4, NothingLogin DEF ServerAnswers, tableVars, clientVars
<1>5. CASE Tick
  BY <1>5, NothingLogin DEF Tick, serverVars
<1> QED
  BY <1>1, <1>2, <1>3, <1>4, <1>5, StartsLogin, AsksLogin, ServerRestartsLogin DEF Next

\* For any clients, channels and sizes: in its first run no request of a client
\* goes out as anything but a request, while the client is alone on its channel
\* and the server has not started again under it.
THEOREM RequestsKeepTypeAlways == Spec => []RequestsKeepType
<1>1. ShmInv /\ LoginInv => RequestsKeepType
  BY DEF LoginInv, FirstRun, RequestsKeepType, Private, Alone, Using
<1> QED
  BY <1>1, LoginInvInit, LoginInvStep, ShmInvInit, ShmInvStep, PTL DEF Spec

-----------------------------------------------------------------------------
(* The server and a client that is there.  The client is never idle for    *)
(* longer than the interval; the server heard of it no longer ago than it  *)
(* has been idle, unless something is on its way to the server; and the    *)
(* acknowledgement that connects it finds room in its ring.                *)

\* The server has it connected, or will when the acknowledgement comes, and
\* has no reason to drop it.
Heard(c) ==
  /\ connected[at[c]] \/ ClientAck \in Contents(up[at[c]]) \/ (handling = at[c] /\ msg = ClientAck)
  /\ up[at[c]] = <<>> => age[at[c]] <= idle[c] /\ (down[at[c]] # <<>> => age[at[c]] = 0)

Live(c) ==
  /\ pc[c] = "up" => idle[c] <= Interval
  /\ Alone(c) /\ pc[c] = "login" => Len(up[at[c]]) <= 1
  /\ Alone(c) /\ pc[c] = "up" => Heard(c)

LiveInv ==
  /\ \A i \in Channels : handling = i => age[i] = 0
  /\ \A c \in Clients : Live(c)

LEMMA LiveInvInit == Init => LiveInv
BY NoneIsNoChannel, ShmAssumption DEF Init, LiveInv, Live, Alone, Using

\* The step leaves channel i, and the clock of client c, alone.
SameChannel(i) == SameRings(i) /\ age'[i] = age[i]
SameClock(c)   == pc'[c] = pc[c] /\ at'[c] = at[c] /\ idle'[c] = idle[c]

LEMMA SameLive ==
  ASSUME NEW c \in Clients, Live(c), SameClock(c), Alone(c)' => Alone(c) /\ SameChannel(at[c])
  PROVE  Live(c)'
BY DEF Live, Heard, SameClock, SameChannel, SameRings

LEMMA SameHand ==
  ASSUME NEW i, handling = i => age[i] = 0, SameChannel(i)
  PROVE  handling' = i => age'[i] = 0
BY DEF SameChannel, SameRings

\* A step of client c that has a channel and changes its rings: what there is
\* to show of it is Live(c)'.
LEMMA UserLive ==
  ASSUME ShmInv, LiveInv, NEW c \in Clients, pc[c] \in Using,
         NEW u, NEW d, up' = [up EXCEPT ![at[c]] = u], down' = [down EXCEPT ![at[c]] = d],
         \A e \in Clients \ {c} : SameClock(e),
         UNCHANGED <<tableVars, serverVars, at, history>>, Live(c)'
  PROVE  LiveInv'
<1> USE DEF tableVars, serverVars, history
<1>1. at[c] \in Channels /\ c \in owners[at[c]]
  BY UserOwns
<1>2. \A i \in Channels \ {at[c]} : SameChannel(i)
  BY DEF SameChannel, SameRings, ShmInv, RingsOK
<1>3. ASSUME NEW e \in Clients, e # c PROVE Live(e)'
  <2>1. SameClock(e) /\ Live(e)
    BY <1>3 DEF LiveInv
  <2>2. Alone(e)' => Alone(e) /\ at[e] \in Channels \ {at[c]}
    BY <1>1, <1>3, <2>1, UserOwns DEF Alone, SameClock
  <2> QED
    BY <1>2, <2>1, <2>2, SameLive
<1> QED
  BY <1>3 DEF LiveInv

LEMMA StartsLive ==
  ASSUME ShmInv, LiveInv, NEW c \in Clients, Starts(c)
  PROVE  LiveInv'
<1> USE DEF tableVars, serverVars, history
<1>1. PICK i \in Channels :
        /\ at' = [at EXCEPT ![c] = i]
        /\ pc' = [pc EXCEPT ![c] = IF name[i] = c THEN "reset" ELSE "take"]
  BY DEF Starts
<1>2. \A j \in Channels : SameChannel(j)
  BY DEF Starts, SameChannel, SameRings
<1>3. ASSUME NEW e \in Clients PROVE Live(e)'
  <2>1. CASE e # c
    <3>1. SameClock(e) /\ Live(e)
      BY <1>1, <2>1 DEF Starts, SameClock, LiveInv, ShmInv, TypesOK
    <3>2. Alone(e)' => Alone(e) /\ at[e] \in Channels
      BY <3>1 DEF Starts, Alone, SameClock, ShmInv, TypesOK
    <3> QED
      BY <1>2, <3>1, <3>2, SameLive
  <2>2. CASE e = c
    BY <1>1, <2>2 DEF Live, ShmInv, TypesOK
  <2> QED
    BY <2>1, <2>2
<1> QED
  BY <1>3 DEF LiveInv, Starts

LEMMA TakesLive ==
  ASSUME ShmInv, LiveInv, NEW c \in Clients, Takes(c)
  PROVE  LiveInv'
<1> USE DEF tableVars, serverVars, history
<1>1. PICK i \in Channels : i = at[c]
  BY DEF ShmInv, TypesOK
<1>2. /\ owners' = [owners EXCEPT ![i] = @ \cup {c}]
      /\ up' = [up EXCEPT ![i] = <<>>] /\ down' = [down EXCEPT ![i] = <<>>]
      /\ pc' = [pc EXCEPT ![c] = "reset"]
      /\ UNCHANGED <<connected, age, serverVars, at, idle, outlived>>
  BY <1>1 DEF Takes
<1>3. owners'[i] = owners[i] \cup {c} /\ \A j \in Channels \ {i} : owners'[j] = owners[j]
  BY <1>2 DEF ShmInv, TypesOK
<1>4. \A j \in Channels \ {i} : SameChannel(j)
  BY <1>2 DEF SameChannel, SameRings, ShmInv, RingsOK
<1>5. ASSUME NEW e \in Clients PROVE Live(e)'
  <2>1. CASE e # c
    <3>1. SameClock(e) /\ Live(e)
      BY <1>2, <2>1 DEF SameClock, LiveInv, ShmInv, TypesOK
    <3>2. Alone(e)' => Alone(e) /\ at[e] \in Channels \ {i}
      <4>1. SUFFICES ASSUME Alone(e)' PROVE Alone(e) /\ at[e] # i
        BY DEF ShmInv, TypesOK
      <4>2. owners'[at[e]] = {e} /\ pc[e] \in Using /\ ~outlived[at[e]]
        BY <1>2, <3>1, <4>1 DEF Alone, SameClock
      <4>3. at[e] # i
        BY <1>3, <2>1, <4>2
      <4> QED
        BY <1>3, <4>2, <4>3 DEF Alone, ShmInv, TypesOK
    <3> QED
      BY <1>4, <3>1, <3>2, SameLive
  <2>2. CASE e = c
    BY <1>2, <2>2 DEF Live, ShmInv, TypesOK
  <2> QED
    BY <2>1, <2>2
<1> QED
  BY <1>2, <1>5 DEF LiveInv

LEMMA LogsInLive ==
  ASSUME ShmInv, LiveInv, NEW c \in Clients, LogsIn(c)
  PROVE  LiveInv'
<1>1. at[c] \in Channels /\ pc[c] = "reset" /\ pc'[c] = "login"
  BY DEF LogsIn, ShmInv, TypesOK
<1>2. up'[at[c]] = <<Login>>
  BY <1>1 DEF LogsIn, ShmInv, RingsOK
<1>3. Live(c)'
  <2>1. at' = at
    BY DEF LogsIn
  <2>2. Len(up'[at[c]]) = 1
    BY <1>2
  <2> QED
    BY <1>1, <2>1, <2>2 DEF Live
<1>4. \A e \in Clients \ {c} : SameClock(e)
  BY DEF LogsIn, SameClock, ShmInv, TypesOK
<1> QED
  BY <1>1, <1>3, <1>4, UserLive DEF LogsIn, Using

LEMMA PushedIsIn ==
  ASSUME NEW S, NEW q \in Seq(S), NEW m \in S, NEW cap \in Nat, Len(q) < cap
  PROVE  Push(q, cap, m) # <<>> /\ m \in Contents(Push(q, cap, m))
<1>1. Push(q, cap, m) = Append(q, m)
  BY DEF Push
<1>2. Append(q, m)[Len(q) + 1] = m /\ Len(q) + 1 \in DOMAIN Append(q, m) /\ Append(q, m) # <<>>
  OBVIOUS
<1> QED
  BY <1>1, <1>2 DEF Contents

LEMMA PushKeeps ==
  ASSUME NEW S, NEW q \in Seq(S), NEW m \in S, NEW cap \in Nat
  PROVE  /\ Contents(q) \subseteq Contents(Push(q, cap, m))
         /\ cap > 0 => Push(q, cap, m) # <<>>
BY DEF Push, Contents

LEMMA TailKeeps ==
  ASSUME NEW S, NEW q \in Seq(S), q # <<>>
  PROVE  /\ Len(Tail(q)) = Len(q) - 1 /\ Len(q) \in Nat
         /\ \A m \in Contents(q) : m = Head(q) \/ m \in Contents(Tail(q))
<1>1. Len(Tail(q)) = Len(q) - 1 /\ Len(q) \in Nat
  OBVIOUS
<1>2. ASSUME NEW n \in DOMAIN q, n # 1 PROVE q[n] = Tail(q)[n - 1] /\ n - 1 \in DOMAIN Tail(q)
  BY <1>2
<1>3. q[1] = Head(q)
  OBVIOUS
<1> QED
  BY <1>1, <1>2, <1>3 DEF Contents

LEMMA AwaitsAckLive ==
  ASSUME RingCap >= 2, ShmInv, LiveInv, NEW c \in Clients, AwaitsAck(c)
  PROVE  LiveInv'
<1> USE DEF tableVars, serverVars, history
<1>1. PICK i \in Channels : i = at[c]
  BY DEF ShmInv, TypesOK
<1> DEFINE acked == Head(down[i]).type = "server_ack"
           u == IF acked THEN Push(up[i], RingCap, ClientAck) ELSE up[i]
<1>2. pc[c] = "login" /\ pc'[c] = (IF acked THEN "up" ELSE "login") /\ UNCHANGED at
  BY <1>1 DEF AwaitsAck, ShmInv, TypesOK
<1>3. down' = [down EXCEPT ![i] = Tail(down[i])]
  BY <1>1 DEF AwaitsAck
<1>4. up' = [up EXCEPT ![i] = u]
  BY <1>1, RingsType DEF AwaitsAck
<1>5. up'[i] = u
  BY <1>4 DEF ShmInv, RingsOK
<1>6. Live(c)'
  <2>1. Alone(c)' => Alone(c) /\ Len(up[i]) <= 1
    BY <1>1, <1>2 DEF AwaitsAck, Alone, Using, LiveInv, Live
  <2>2. CASE acked
    <3>1. idle'[c] = 0 /\ pc'[c] = "up"
      BY <1>1, <1>2, <2>2 DEF AwaitsAck, ShmInv, TypesOK
    <3>2. Alone(c)' => up'[i] # <<>> /\ ClientAck \in Contents(up'[i])
      BY <1>5, <2>1, <2>2, RingsType, ControlMessages, PushedIsIn, ShmAssumption
    <3> QED
      BY <1>1, <1>2, <3>1, <3>2, ShmAssumption DEF Live, Heard, Contents
  <2>3. CASE ~acked
    BY <1>1, <1>2, <1>5, <2>1, <2>3 DEF Live
  <2> QED
    BY <2>2, <2>3
<1>7. \A e \in Clients \ {c} : SameClock(e)
  BY DEF AwaitsAck, SameClock, ShmInv, TypesOK
<1> HIDE DEF u
<1> QED
  BY <1>1, <1>2, <1>3, <1>4, <1>6, <1>7, UserLive DEF AwaitsAck, Using

LEMMA HandleMsgLive ==
  ASSUME RingCap >= 2, ShmInv, LiveInv, NEW c \in Clients, HandleMsg(c)
  PROVE  LiveInv'
<1> USE DEF tableVars, serverVars, history
<1>1. PICK i \in Channels : i = at[c]
  BY DEF ShmInv, TypesOK
<1> DEFINE pops    == outbox[c] # <<>>
           request == Message(sendType[c], c, Head(outbox[c]))
           sends   == pops /\ Len(up[i]) < RingCap
           takes   == down[i] # <<>>
           idleNow == IF sends \/ takes THEN 0 ELSE idle[c]
           beats   == HeartBeatDue(idleNow)
           sent    == IF sends THEN Append(up[i], request) ELSE up[i]
           u       == IF beats THEN Push(sent, RingCap, HeartBeat) ELSE sent
           d       == IF takes THEN Tail(down[i]) ELSE down[i]
<1>2. pc[c] = "up" /\ UNCHANGED <<tableVars, serverVars, pc, at, history>>
  BY DEF HandleMsg
<1>3. up' = [up EXCEPT ![i] = u]
  BY <1>1 DEF HandleMsg
<1>4. down' = [down EXCEPT ![i] = d]
  BY <1>1, RingsType DEF HandleMsg
<1>5. up'[i] = u /\ down'[i] = d
  BY <1>3, <1>4 DEF ShmInv, RingsOK
<1>6. Live(c)'
  <2>1. idle'[c] = (IF beats THEN 0 ELSE idleNow) /\ idle[c] <= Interval /\ idle[c] \in Nat
    BY <1>1, <1>2, ShmAssumption DEF HandleMsg, LiveInv, Live, ShmInv, TypesOK
  <2>2. idle'[c] <= Interval /\ idle'[c] \in Nat
    BY <2>1, ShmAssumption
  <2>3. SUFFICES ASSUME Alone(c) PROVE Heard(c)'
    BY <1>1, <1>2, <2>2 DEF Live, Alone
  <2>4. Heard(c)
    BY <1>2, <2>3 DEF LiveInv, Live
  <2>5. up[i] \in Seq(Messages) /\ HeartBeat \in Messages /\ (pops => request \in Messages)
    <3>1. up[i] \in Seq(Sendable(owners[i])) /\ Sendable(owners[i]) \subseteq Messages
      BY RingsType DEF Sendable, Belonging
    <3>2. HeartBeat \in Messages /\ (pops => request \in Messages)
      <4>1. pops => Head(outbox[c]) \in Numbers
        BY TailType DEF ShmInv, TypesOK
      <4> QED
        BY <4>1 DEF HeartBeat, Message, Messages, Types, ShmInv, TypesOK
    <3> QED
      BY <3>1, <3>2, Larger
  <2>6. /\ sent \in Seq(Messages) /\ Contents(up[i]) \subseteq Contents(sent)
        /\ sends => sent # <<>>
    <3>1. CASE sends
      BY <2>5, <3>1 DEF Contents
    <3>2. CASE ~sends
      BY <2>5, <3>2
    <3> QED
      BY <3>1, <3>2
  <2>7. Contents(sent) \subseteq Contents(u) /\ (beats => u # <<>>) /\ (~beats => u = sent)
    <3>1. RingCap \in Nat /\ RingCap > 0
      BY ShmAssumption
    <3>2. /\ Contents(sent) \subseteq Contents(Push(sent, RingCap, HeartBeat))
          /\ Push(sent, RingCap, HeartBeat) # <<>>
      BY <2>5, <2>6, <3>1, PushKeeps
    <3> HIDE DEF sent
    <3> QED
      BY <3>2
  <2>8. ClientAck \in Contents(up[i]) => ClientAck \in Contents(up'[i])
    BY <1>5, <2>6, <2>7
  <2>9. ASSUME up'[i] = <<>> PROVE age'[i] <= idle'[c] /\ (down'[i] # <<>> => age'[i] = 0)
    <3>1. ~beats /\ ~sends /\ up[i] = <<>>
      <4>1. ~beats
        BY <1>5, <2>7, <2>9
      <4>2. sent = <<>>
        BY <1>5, <2>7, <2>9, <4>1
      <4>3. ~sends
        BY <2>6, <4>2
      <4> QED
        BY <4>1, <4>2, <4>3
    <3>2. age[i] <= idle[c] /\ (down[i] # <<>> => age[i] = 0) /\ age'[i] = age[i]
      BY <1>1, <1>2, <2>4, <3>1 DEF Heard
    <3>3. CASE takes
      <4>1. age[i] = 0
        BY <3>2, <3>3
      <4> QED
        BY <2>2, <3>2, <4>1
    <3>4. CASE ~takes
      BY <1>5, <2>1, <3>1, <3>2, <3>4
    <3> QED
      BY <3>3, <3>4
  <2> HIDE DEF pops, request, sends, takes, idleNow, beats, sent, u, d
  <2>10. connected'[i] \/ ClientAck \in Contents(up'[i]) \/ (handling' = i /\ msg' = ClientAck)
    BY <1>1, <1>2, <2>4, <2>8 DEF Heard
  <2> QED
    BY <1>1, <1>2, <2>9, <2>10 DEF Heard, Contents
<1>7. \A e \in Clients \ {c} : SameClock(e)
  BY DEF HandleMsg, SameClock, ShmInv, TypesOK
<1> HIDE DEF pops, request, sends, takes, idleNow, beats, sent, u, d
<1> QED
  BY <1>1, <1>2, <1>3, <1>4, <1>6, <1>7, UserLive DEF Using

LEMMA AsksLive ==
  ASSUME ShmInv, LiveInv, NEW c \in Clients, Asks(c) \/ ClientEnds(c)
  PROVE  LiveInv'
<1> USE DEF tableVars, serverVars, history
<1>1. \A i \in Channels : SameChannel(i)
  BY DEF Asks, ClientEnds, SameChannel, SameRings
<1>2. ASSUME NEW e \in Clients PROVE Live(e)'
  <2>1. CASE e # c \/ Asks(c)
    <3>1. SameClock(e) /\ Live(e)
      BY <2>1 DEF Asks, ClientEnds, SameClock, LiveInv, ShmInv, TypesOK
    <3>2. Alone(e)' => Alone(e) /\ at[e] \in Channels
      BY <3>1 DEF Asks, ClientEnds, Alone, SameClock, ShmInv, TypesOK
    <3> QED
      BY <1>1, <3>1, <3>2, SameLive
  <2>2. CASE ClientEnds(c) /\ e = c
    BY <2>2 DEF ClientEnds, Live, Alone, Using, ShmInv, TypesOK
  <2> QED
    BY <2>1, <2>2
<1> QED
  BY <1>1, <1>2, SameHand DEF LiveInv

\* A step of the server at channel i: what there is to show is the channel of
\* the client that has it alone.
LEMMA ServerLive ==
  ASSUME ShmInv, LiveInv, NEW i \in Channels, UNCHANGED <<clientVars, history>>,
         \A j \in Channels \ {i} : SameChannel(j),
         handling' = i => age'[i] = 0,
         \A c \in Clients : at[c] = i /\ Alone(c) => Live(c)'
  PROVE  LiveInv'
<1> USE DEF clientVars, history
<1>1. ASSUME NEW c \in Clients PROVE Live(c)'
  <2>1. SameClock(c) /\ Live(c) /\ at[c] \in Channels
    BY DEF SameClock, LiveInv, ShmInv, TypesOK
  <2>2. CASE at[c] = i /\ Alone(c)
    BY <2>2
  <2>3. CASE ~(at[c] = i /\ Alone(c))
    BY <2>1, <2>3, SameLive DEF Alone
  <2> QED
    BY <2>2, <2>3
<1>2. ASSUME NEW j \in Channels, handling' = j PROVE age'[j] = 0
  BY <1>2, SameHand DEF LiveInv
<1> QED
  BY <1>1, <1>2 DEF LiveInv

LEMMA ServerPopsLive ==
  ASSUME ShmInv, LiveInv, NEW i \in Channels, ServerPops(i)
  PROVE  LiveInv'
<1>1. /\ up'[i] = Tail(up[i]) /\ msg' = Head(up[i]) /\ handling' = i /\ handling = None
      /\ up[i] # <<>> /\ i # None /\ age'[i] = 0 /\ UNCHANGED <<down, connected>>
  BY NoneIsNoChannel DEF ServerPops, ShmInv, RingsOK, TypesOK
<1>2. \A j \in Channels \ {i} : SameChannel(j)
  BY NoneIsNoChannel DEF ServerPops, SameChannel, SameRings, ShmInv, RingsOK, TypesOK
<1>3. ASSUME NEW c \in Clients, at[c] = i, Alone(c) PROVE Live(c)'
  <2>1. /\ Len(Tail(up[i])) = Len(up[i]) - 1 /\ Len(up[i]) \in Nat
        /\ \A m \in Contents(up[i]) : m = Head(up[i]) \/ m \in Contents(Tail(up[i]))
    BY <1>1, RingsType, TailKeeps
  <2>2. Live(c) /\ idle[c] \in Nat
    BY ShmAssumption DEF LiveInv, ShmInv, TypesOK
  <2>3. pc[c] = "up" => Heard(c)'
    <3>1. SUFFICES ASSUME pc[c] = "up" PROVE Heard(c)'
      OBVIOUS
    <3>2. connected[i] \/ ClientAck \in Contents(up[i])
      BY <1>1, <1>3, <2>2, <3>1 DEF Live, Heard
    <3>3. connected'[i] \/ ClientAck \in Contents(up'[i]) \/ (handling' = i /\ msg' = ClientAck)
      BY <1>1, <2>1, <3>2
    <3> QED
      BY <1>1, <1>3, <2>2, <3>3 DEF Heard, ServerPops, clientVars, Contents
  <2> QED
    BY <1>1, <1>3, <2>1, <2>2, <2>3 DEF Live, ServerPops, clientVars, history, Alone
<1> QED
  BY <1>1, <1>2, <1>3, ServerLive DEF ServerPops

LEMMA ServerHandlesLive ==
  ASSUME ShmInv, LiveInv, NEW i \in Channels, ServerHandles(i)
  PROVE  LiveInv'
<1>1. /\ handling = i /\ handling' # i /\ age[i] = 0
      /\ connected'[i] = (connected[i] \/ Connects) /\ UNCHANGED <<up, age>>
  BY NoneIsNoChannel DEF ServerHandles, LiveInv, ShmInv, TypesOK
<1>2. \A j \in Channels \ {i} : SameChannel(j)
  BY NoneIsNoChannel DEF ServerHandles, SameChannel, SameRings, ShmInv, RingsOK, TypesOK
<1>3. ASSUME NEW c \in Clients, at[c] = i, Alone(c) PROVE Live(c)'
  <2>1. Live(c) /\ idle[c] \in Nat
    BY ShmAssumption DEF LiveInv, ShmInv, TypesOK
  <2>2. pc[c] = "up" => Heard(c)'
    <3>1. SUFFICES ASSUME pc[c] = "up" PROVE Heard(c)'
      OBVIOUS
    <3>2. connected[i] \/ ClientAck \in Contents(up[i]) \/ msg = ClientAck
      BY <1>1, <1>3, <2>1, <3>1 DEF Live, Heard
    <3>3. connected'[i] \/ ClientAck \in Contents(up'[i])
      <4>1. ClientAck \in Contents(up[i]) => ClientAck \in Contents(up'[i])
        BY <1>1
      <4>2. connected[i] \/ Connects => connected'[i]
        BY <1>1
      <4>3. msg = ClientAck => Connects
        BY DEF Connects, ClientAck, Message
      <4> QED
        BY <3>2, <4>1, <4>2, <4>3
    <3>4. idle'[c] = idle[c] /\ at'[c] = i
      BY <1>3 DEF ServerHandles, clientVars
    <3> QED
      BY <1>1, <2>1, <3>3, <3>4 DEF Heard, Contents
  <2> QED
    BY <1>1, <1>3, <2>1, <2>2 DEF Live, ServerHandles, clientVars, history, Alone
<1> QED
  BY <1>1, <1>2, <1>3, ServerLive DEF ServerHandles

LEMMA ServerDropsLive ==
  ASSUME ShmInv, LiveInv, NEW i \in Channels, ServerDrops(i)
  PROVE  LiveInv'
<1>1. /\ handling # i /\ age[i] > Interval /\ age[i] \in Nat /\ up[i] = <<>>
      /\ UNCHANGED <<up, down, age, handling, msg>>
  BY NoneIsNoChannel, ShmAssumption DEF ServerDrops, serverVars, TimedOut, ShmInv, TypesOK
<1>2. \A j \in Channels \ {i} : SameChannel(j)
  BY DEF ServerDrops, serverVars, SameChannel, SameRings, ShmInv, TypesOK
<1>3. ASSUME NEW c \in Clients, at[c] = i, Alone(c) PROVE Live(c)'
  <2>1. Live(c) /\ idle[c] \in Nat
    BY ShmAssumption DEF LiveInv, ShmInv, TypesOK
  <2>2. pc[c] # "up"
    BY <1>1, <1>3, <2>1, ShmAssumption DEF Live, Heard
  <2> QED
    BY <1>1, <1>3, <2>1, <2>2 DEF Live, ServerDrops, clientVars, history, Alone
<1> QED
  BY <1>1, <1>2, <1>3, ServerLive DEF ServerDrops

LEMMA ServerSendsLive ==
  ASSUME ShmInv, LiveInv, ServerSends
  PROVE  LiveInv'
<1>1. PICK a \in Addressed : a = Head(answers)
  BY TailType DEF ShmInv, QueuesOK, ServerSends
<1>2. PICK i \in Channels : i = a.channel
  BY DEF Addressed, Requests
<1>3. \/ UNCHANGED <<down, age>>
      \/ \E ring : down' = [down EXCEPT ![i] = ring] /\ age' = [age EXCEPT ![i] = 0]
  <2>1. [down EXCEPT ![i] = down[i]] = down
    BY RingsType
  <2> QED
    BY <1>1, <1>2, <2>1 DEF ServerSends, Push
<1>4. \A j \in Channels \ {i} : SameChannel(j)
  BY <1>3 DEF ServerSends, SameChannel, SameRings, ShmInv, RingsOK, TypesOK
<1>5. handling' # i
  BY NoneIsNoChannel DEF ServerSends
<1>6. (down'[i] = down[i] /\ age'[i] = age[i]) \/ age'[i] = 0
  BY <1>3 DEF ShmInv, TypesOK
<1>7. ASSUME NEW c \in Clients, at[c] = i, Alone(c) PROVE Live(c)'
  <2>1. Live(c) /\ idle[c] \in Nat
    BY ShmAssumption DEF LiveInv, ShmInv, TypesOK
  <2>2. UNCHANGED <<connected, up, handling, msg, pc, at, idle>>
    BY DEF ServerSends, clientVars
  <2>3. pc[c] = "up" => Heard(c)'
    BY <1>6, <1>7, <2>1, <2>2 DEF Live, Heard, Contents
  <2> QED
    BY <1>7, <2>1, <2>2, <2>3 DEF Live, ServerSends, history, Alone
<1> QED
  BY <1>4, <1>5, <1>7, ServerLive DEF ServerSends

LEMMA ServerRestartsLive ==
  ASSUME ShmInv, LiveInv, ServerRestarts
  PROVE  LiveInv'
<1> USE DEF clientVars
<1>1. ASSUME NEW c \in Clients PROVE Live(c)'
  <2>1. ~Alone(c)'
    <3>1. SUFFICES ASSUME pc[c] \in Using PROVE outlived'[at[c]]
      BY DEF ServerRestarts, Alone
    <3>2. at[c] \in Channels /\ c \in Users(at[c])
      BY <3>1 DEF ShmInv, TypesOK, Users, Using
    <3> QED
      BY <3>2 DEF ServerRestarts
  <2> QED
    BY <2>1 DEF Live, LiveInv, ServerRestarts
<1> QED
  BY <1>1, NoneIsNoChannel DEF LiveInv, ServerRestarts

\* Time passes only when nothing is on its way and no heartbeat is due.
LEMMA TickLive ==
  ASSUME Margin >= 1, ShmInv, LiveInv, Tick
  PROVE  LiveInv'
<1>1. UNCHANGED <<connected, up, down, handling, msg, pc, at, history>>
  BY DEF Tick, serverVars
<1>2. ASSUME NEW c \in Clients PROVE Live(c)'
  <2>1. at[c] \in Channels /\ idle[c] \in Nat /\ age[at[c]] \in Nat
    BY ShmAssumption DEF ShmInv, TypesOK
  <2>2. age'[at[c]] \in {age[at[c]], age[at[c]] + 1}
    BY <2>1 DEF Tick
  <2>3. CASE pc[c] = "up"
    <3>1. idle'[c] = idle[c] + 1 /\ idle[c] <= Interval - Margin /\ down[at[c]] = <<>>
      BY <2>1, <2>3, ShmAssumption DEF Tick, HeartBeatDue
    <3>2. Alone(c) => Heard(c)
      BY <2>3 DEF LiveInv, Live
    <3>3. Alone(c) => Heard(c)'
      BY <1>1, <2>1, <2>2, <3>1, <3>2 DEF Heard, Contents
    <3> QED
      BY <1>1, <2>1, <2>3, <3>1, <3>3, ShmAssumption DEF Live, Alone, history
  <2>4. CASE pc[c] # "up"
    BY <1>1, <2>4 DEF Live, Alone, history, LiveInv
  <2> QED
    BY <2>3, <2>4
<1>3. \A i \in Channels : handling' # i
  BY NoneIsNoChannel, <1>1 DEF Tick
<1> QED
  BY <1>2, <1>3 DEF LiveInv

LEMMA NothingLive ==
  ASSUME LiveInv, UNCHANGED <<connected, age, up, down, handling, msg, pc, at, idle, history>>
  PROVE  LiveInv'
BY DEF LiveInv, Live, Heard, Alone, Contents, history

LEMMA LiveInvStep ==
  ASSUME RingCap >= 2, Margin >= 1
  PROVE  ShmInv /\ LiveInv /\ [Next]_vars => LiveInv'
<1> SUFFICES ASSUME ShmInv, LiveInv, [Next]_vars PROVE LiveInv'
  OBVIOUS
<1>1. ASSUME NEW c \in Clients, ClientStep(c) PROVE LiveInv'
  BY <1>1, TakesLive, LogsInLive, AwaitsAckLive, HandleMsgLive DEF ClientStep
<1>2. ASSUME ServerStep PROVE LiveInv'
  BY <1>2, ServerPopsLive, ServerHandlesLive, ServerDropsLive, ServerSendsLive DEF ServerStep, ChannelStep
<1>3. CASE UNCHANGED vars
  BY <1>3, NothingLive DEF vars, tableVars, serverVars, clientVars
<1>4. CASE ServerAnswers
  BY <1>4, NothingLive DEF ServerAnswers, tableVars, clientVars
<1> QED
  BY <1>1, <1>2, <1>3, <1>4, StartsLive, AsksLive, ServerRestartsLive, TickLive DEF Next

\* For any clients, channels and intervals: the server never gives up a client
\* that is there and has its channel to itself, if the heartbeat is due at least
\* a tick before the interval ends and a ring holds the two messages of a login.
THEOREM LiveStaysConnectedAlways ==
  ASSUME RingCap >= 2, Margin >= 1
  PROVE  Spec => []LiveStaysConnected
<1>1. ShmInv /\ LiveInv => LiveStaysConnected
  BY DEF LiveInv, Live, Heard, LiveStaysConnected, Private, Alone, Using
<1>2. ShmInv /\ LiveInv /\ [Next]_vars => LiveInv'
  BY LiveInvStep
<1> QED
  BY <1>1, <1>2, LiveInvInit, ShmInvInit, ShmInvStep, PTL DEF Spec

=============================================================================
