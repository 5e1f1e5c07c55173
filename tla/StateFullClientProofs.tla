----------------------- MODULE StateFullClientProofs -----------------------
(***************************************************************************)
(* What StateFullClient keeps for every set of requests, every number of   *)
(* connection attempts and every setting of autoReconnect.  The argument   *)
(* has two halves that need each other only through the types: where the   *)
(* one attempt under way and the one connection are (ConnInv), and who     *)
(* still owes an answer to each request (CallInv).                         *)
(***************************************************************************)
EXTENDS StateFullClient, FiniteSetTheorems, TLAPS

-----------------------------------------------------------------------------
(* The inductive invariant *)

\* An attempt that keeps openingStateFullConnection set.
Holds(c) == attempt[c] \in Live \cup {"vetoed", "stuck"}

\* At most one attempt holds the flag, and the flag is set when one does.
OneAttempt ==
    /\ \A c, d \in Conns : Holds(c) /\ Holds(d) => c = d
    /\ opening <=> \E c \in Conns : Holds(c)

\* There is no connection while an attempt has not got its socket, and this.ws is the one
\* that is being connected.
AttemptOwnsSocket ==
    \A c \in Conns :
        /\ attempt[c] \in {"before", "connecting", "vetoed", "stuck"} => socket = None
        /\ attempt[c] = "connecting" => ws = c

\* A link that is not closed belongs to an attempt that got its socket and to the
\* connection the client holds.
LinkIsHeld ==
    \A c \in Conns : link[c] \in {"open", "down"} =>
        socket = c /\ ws = c /\ attempt[c] \in {"notifying", "done"}

ConnInv == OneAttempt /\ AttemptOwnsSocket /\ LinkIsHeld

\* Who owes request i an answer: nobody before it is made, the pending invoke, or the queue
\* of a connect(); every other request has got its answer, once.
Owed(i) ==
    /\ message[i] = "idle" => settled[i] = 0 /\ i \notin pendingInvokes
    /\ message[i] = "queued" <=> i \in pendingSockets
    /\ i \in pendingInvokes => settled[i] = 0
    /\ i \in pendingSockets /\ kind[i] = "connect" => settled[i] = 0
    /\ message[i] # "idle" /\ i \notin pendingInvokes
         /\ ~(i \in pendingSockets /\ kind[i] = "connect") => settled[i] = 1
    /\ OverFetch(i) => message[i] \in {"idle", "fetching", "unanswered", "over"}
    /\ OverFetch(i) /\ i \in pendingInvokes => message[i] \in {"fetching", "unanswered"}

CallInv == \A i \in Calls : Owed(i)

IInv == TypeOK /\ ConnInv /\ CallInv /\ DisconnectIsFinal

-----------------------------------------------------------------------------
(* Types *)

\* Every request has one of the five kinds.
LEMMA KindOfCall == TypeOK => kind \in [Calls -> CallKinds]
  BY ClientAssumption DEF TypeOK

\* The number of an attempt is never that of no connection.
LEMMA NoneIsNoConn == None \notin Conns
  BY ClientAssumption DEF None, Conns

\* What settling promises leaves is of its type.
LEMMA SettleType ==
    ASSUME TypeOK, NEW S,
           NEW a \in {"none", "answer", "reject", "timedOut", "shutdown", "undefined", "connected"},
           Settle(S, a)
    PROVE  /\ settled' \in [Calls -> Nat]
           /\ answer' \in [Calls -> {"none", "answer", "reject", "timedOut", "shutdown",
                                     "undefined", "connected"}]
  BY DEF TypeOK, Settle

\* The queue may be served, refused or emptied by a step: the types stay.
LEMMA RejectSocketsType ==
    ASSUME TypeOK, RejectSockets
    PROVE  /\ pendingSockets' = {} /\ pendingInvokes' \subseteq pendingInvokes
           /\ message' \in [Calls -> {"idle", "queued", "sent", "lost", "refused", "fetching", "unanswered", "over"}]
           /\ carrier' \in [Calls -> Conns \cup {None}]
           /\ settled' \in [Calls -> Nat]
           /\ answer' \in [Calls -> {"none", "answer", "reject", "timedOut", "shutdown",
                                     "undefined", "connected"}]
  BY SettleType DEF TypeOK, RejectSockets

\* Serving requests keeps the types as well.
LEMMA TransmitType ==
    ASSUME TypeOK, NEW S \in SUBSET Calls, Transmit(S)
    PROVE  /\ message' \in [Calls -> {"idle", "queued", "sent", "lost", "refused", "fetching", "unanswered", "over"}]
           /\ carrier' \in [Calls -> Conns \cup {None}]
           /\ settled' \in [Calls -> Nat]
           /\ answer' \in [Calls -> {"none", "answer", "reject", "timedOut", "shutdown",
                                     "undefined", "connected"}]
  BY SettleType DEF TypeOK, Transmit

\* Refusing the queue gives every connect() and every queued invoke that is still pending
\* its answer.
LEMMA RejectSocketsOwed ==
    ASSUME TypeOK, CallInv, RejectSockets, kind' = kind
    PROVE  CallInv'
<1> SUFFICES ASSUME NEW j \in Calls PROVE Owed(j)'
  BY DEF CallInv
<1>1. Owed(j) /\ kind[j] \in CallKinds
  BY KindOfCall DEF CallInv
<1> QED
  BY <1>1 DEF TypeOK, RejectSockets, Settle, Owed, OverFetch, HasTimer, CallKinds

\* Serving the queue, or one connect(), does too.
LEMMA TransmitOwed ==
    ASSUME TypeOK, CallInv, NEW S \in SUBSET Calls, Transmit(S),
           kind' = kind, pendingInvokes' = pendingInvokes, pendingSockets' = pendingSockets \ S,
           \A i \in S : i \in pendingSockets \/ (kind[i] = "connect" /\ message[i] = "idle")
    PROVE  CallInv'
<1> SUFFICES ASSUME NEW j \in Calls PROVE Owed(j)'
  BY DEF CallInv
<1>1. Owed(j) /\ kind[j] \in CallKinds
  BY KindOfCall DEF CallInv
<1>2. CASE j \notin S
  <2>1. message'[j] = message[j] /\ settled'[j] = settled[j]
    BY <1>2 DEF Transmit, Settle
  <2> QED
    BY <1>1, <1>2, <2>1 DEF Owed, OverFetch
<1>3. CASE j \in S /\ kind[j] = "connect"
  <2>1. message'[j] = "over" /\ settled'[j] = settled[j] + 1
    BY <1>3 DEF Transmit, Settle
  <2>2. settled[j] = 0 /\ j \notin pendingInvokes
    BY <1>1, <1>3 DEF Owed, TypeOK, Waits, HasTimer, OverFetch
  <2> QED
    BY <1>3, <2>1, <2>2 DEF Owed, OverFetch
<1>4. CASE j \in S /\ kind[j] # "connect"
  <2>1. message'[j] \in {"sent", "lost"} /\ settled'[j] = settled[j]
    BY <1>4 DEF Transmit, Settle
  <2>2. j \in pendingSockets
    BY <1>4
  <2> QED
    BY <1>1, <1>4, <2>1, <2>2 DEF Owed, OverFetch
<1> QED
  BY <1>2, <1>3, <1>4

\* Completing pending invokes settles each of them and nobody else.
LEMMA CompleteOwed ==
    ASSUME TypeOK, CallInv, NEW i \in Calls, NEW a, Complete({i}, a),
           kind' = kind, pendingSockets' = pendingSockets,
           \/ message' = message /\ HasTimer(i)
           \/ message' = [message EXCEPT ![i] = "over"] /\ message[i] \in {"sent", "fetching"}
    PROVE  CallInv'
<1> SUFFICES ASSUME NEW j \in Calls PROVE Owed(j)'
  BY DEF CallInv
<1>1. Owed(j) /\ kind[j] \in CallKinds
  BY KindOfCall DEF CallInv
<1> QED
  BY <1>1 DEF TypeOK, Complete, Settle, Owed, OverFetch, HasTimer, CallKinds

-----------------------------------------------------------------------------
(* Connections *)

\* What the attempts and the connection depend on stays.
LEMMA ConnUnchanged ==
    ASSUME ConnInv, UNCHANGED connVars
    PROVE  ConnInv'
  BY DEF ConnInv, connVars, OneAttempt, Holds, AttemptOwnsSocket, LinkIsHeld

\* A new attempt begins when no other holds the flag and there is no connection.
LEMMA BeginAttemptConn ==
    ASSUME TypeOK, ConnInv, NEW c \in NextConn, BeginAttempt(c), ~opening, socket = None
    PROVE  ConnInv'
<1>1. c \in Conns /\ attempt[c] = "unused"
  BY DEF NextConn, Fresh
<1>2. attempt' = [attempt EXCEPT ![c] = "before"] /\ opening' = TRUE
      /\ socket' = None /\ ws' = ws /\ link' = link /\ attempt \in [Conns -> Live \cup {"unused", "vetoed", "stuck", "failed", "done"}]
  BY DEF BeginAttempt, TypeOK
<1>3. \A d \in Conns : ~Holds(d)
  BY DEF ConnInv, OneAttempt
<1>4. \A d \in Conns : Holds(d)' <=> d = c
  BY <1>1, <1>2, <1>3 DEF Holds, Live
<1>5. OneAttempt'
  BY <1>1, <1>2, <1>4 DEF OneAttempt
<1>6. AttemptOwnsSocket'
  BY <1>1, <1>2 DEF AttemptOwnsSocket, ConnInv
<1>7. LinkIsHeld'
  BY <1>1, <1>2 DEF LinkIsHeld, ConnInv
<1> QED
  BY <1>5, <1>6, <1>7 DEF ConnInv

\* Shutting down closes the link of the connection, the only one that can be up.
LEMMA ShutdownConn ==
    ASSUME TypeOK, ConnInv, NEW rearm, Shutdown(rearm), UNCHANGED <<opening, attempt>>
    PROVE  ConnInv' /\ socket' = None
<1>1. socket' = None /\ attempt' = attempt /\ opening' = opening
  BY DEF Shutdown
<1>2. OneAttempt'
  BY <1>1 DEF ConnInv, OneAttempt, Holds
<1>3. AttemptOwnsSocket'
  BY <1>1 DEF ConnInv, AttemptOwnsSocket, Shutdown
<1>4. LinkIsHeld'
  BY <1>1, NoneIsNoConn DEF ConnInv, LinkIsHeld, Shutdown, TypeOK
<1> QED
  BY <1>1, <1>2, <1>3, <1>4 DEF ConnInv

-----------------------------------------------------------------------------
(* The inductive invariant holds *)

\* It holds before the first request.
LEMMA InitIInv == Init => IInv
<1> SUFFICES ASSUME Init PROVE IInv
  OBVIOUS
<1>1. TypeOK
  <2>1. disconnects \in 0..MaxDisconnects /\ pauses \in 0..MaxPauses
        /\ settled \in [Calls -> Nat]
    BY ClientAssumption DEF Init
  <2>2. roseProcessingAllowed \in BOOLEAN /\ opening \in BOOLEAN /\ reconnectTimer \in BOOLEAN
        /\ quiet \in BOOLEAN
    BY Zenon DEF Init
  <2> QED
    BY <2>1, <2>2 DEF Init, TypeOK
<1>2. ConnInv
  BY NoneIsNoConn DEF Init, ConnInv, OneAttempt, Holds, Live, AttemptOwnsSocket, LinkIsHeld
<1>3. CallInv
  BY DEF Init, CallInv, Owed
<1>4. DisconnectIsFinal
  BY DEF Init, DisconnectIsFinal
<1> QED
  BY <1>1, <1>2, <1>3, <1>4 DEF IInv

\* connect(): told at once, or queued.
LEMMA ConnectStep ==
    ASSUME NEW i \in Calls, IInv, Connect(i)
    PROVE  IInv'
<1> USE DEF IInv
<1>1. TypeOK'
  <2>1. CASE socket # None
    BY <2>1, TransmitType DEF Connect, TypeOK, connVars, Waits, HasTimer, OverFetch
  <2>2. CASE socket = None
    <3>1. UNCHANGED <<kind, roseProcessingAllowed, reconnectTimer, pendingInvokes, disconnects,
                      pauses, settled, answer, carrier>>
          /\ quiet' = FALSE
      BY <2>2 DEF Connect, Enqueue
    <3>2. pendingSockets' = pendingSockets \cup {i} /\ message' = [message EXCEPT ![i] = "queued"]
      BY <2>2 DEF Connect, Enqueue
    <3>3. UNCHANGED <<connVars, lost>> \/ \E c \in NextConn : BeginAttempt(c)
      BY <2>2 DEF Connect, Enqueue
    <3>4. /\ socket' = socket /\ ws' = ws /\ link' = link /\ opening' \in BOOLEAN
          /\ attempt' \in [Conns -> Live \cup {"unused", "vetoed", "stuck", "failed", "done"}]
          /\ lost' \in {"no", "idle", "notifying"}
      <4>1. CASE UNCHANGED <<connVars, lost>>
        BY <4>1 DEF connVars, TypeOK
      <4>2. CASE \E c \in NextConn : BeginAttempt(c)
        BY <4>2 DEF BeginAttempt, NextConn, Fresh, TypeOK, Live
      <4> QED
        BY <3>3, <4>1, <4>2
    <3> QED
      BY <3>1, <3>2, <3>4 DEF TypeOK, Waits, HasTimer, OverFetch
  <2> QED
    BY <2>1, <2>2
<1>2. ConnInv'
  <2>1. CASE UNCHANGED connVars
    BY <2>1, ConnUnchanged
  <2>2. CASE socket = None /\ ~opening /\ \E c \in NextConn : BeginAttempt(c)
    BY <2>2, BeginAttemptConn
  <2> QED
    BY <2>1, <2>2 DEF Connect, Enqueue
<1>3. CallInv'
  <2>1. CASE socket # None
    <3>1. /\ Transmit({i}) /\ kind' = kind /\ pendingInvokes' = pendingInvokes
          /\ pendingSockets' = pendingSockets /\ kind[i] = "connect" /\ message[i] = "idle"
      BY <2>1 DEF Connect
    <3>2. i \notin pendingSockets
      BY <3>1 DEF CallInv, Owed
    <3> QED
      BY <3>1, <3>2, TransmitOwed
  <2>2. CASE socket = None
    <3> SUFFICES ASSUME NEW j \in Calls PROVE Owed(j)'
      BY DEF CallInv
    <3>1. Owed(j) /\ kind[j] \in CallKinds
      BY KindOfCall DEF CallInv
    <3> QED
      BY <2>2, <3>1 DEF Connect, Enqueue, Owed, OverFetch, TypeOK
  <2> QED
    BY <2>1, <2>2
<1>4. DisconnectIsFinal'
  BY DEF Connect, DisconnectIsFinal, connVars, LiveAttempts
<1> QED
  BY <1>1, <1>2, <1>3, <1>4

\* sendInvoke while the gate is shut.
LEMMA InvokeRefusedStep ==
    ASSUME NEW i \in Calls, IInv, InvokeRefused(i)
    PROVE  IInv'
<1> USE DEF IInv
<1>1. TypeOK'
  BY SettleType DEF InvokeRefused, TypeOK, connVars, Waits, HasTimer, OverFetch
<1>2. ConnInv'
  BY ConnUnchanged DEF InvokeRefused
<1>3. CallInv'
  <2> SUFFICES ASSUME NEW j \in Calls PROVE Owed(j)'
    BY DEF CallInv
  <2>1. Owed(j) /\ Owed(i) /\ kind[j] \in CallKinds
    BY KindOfCall DEF CallInv
  <2> QED
    BY <2>1 DEF InvokeRefused, Settle, Owed, OverFetch, TypeOK
<1>4. DisconnectIsFinal'
  BY DEF InvokeRefused, DisconnectIsFinal, connVars, LiveAttempts
<1> QED
  BY <1>1, <1>2, <1>3, <1>4

\* sendInvoke.
LEMMA SendInvokeStep ==
    ASSUME NEW i \in Calls, IInv, SendInvoke(i)
    PROVE  IInv'
<1> USE DEF IInv
<1>1. TypeOK'
  <2>1. /\ settled' \in [Calls -> Nat]
        /\ answer' \in [Calls -> {"none", "answer", "reject", "timedOut", "shutdown",
                                  "undefined", "connected"}]
    BY SettleType DEF SendInvoke
  <2>2. pendingInvokes' \subseteq {j \in Calls : Waits(j)'}
    BY DEF SendInvoke, TypeOK, Waits, HasTimer, OverFetch
  <2>3. /\ kind' \in Kinds /\ roseProcessingAllowed' \in BOOLEAN /\ reconnectTimer' \in BOOLEAN
        /\ disconnects' \in 0..MaxDisconnects /\ pauses' \in 0..MaxPauses
    BY DEF SendInvoke, TypeOK
  <2>4. message' \in [Calls -> {"idle", "queued", "sent", "lost", "refused", "fetching", "unanswered", "over"}]
        /\ carrier' \in [Calls -> Conns \cup {None}] /\ pendingSockets' \subseteq Calls
    BY DEF SendInvoke, Enqueue, TypeOK
  <2>5. CASE UNCHANGED <<connVars, quiet, lost>>
    BY <2>1, <2>2, <2>3, <2>4, <2>5 DEF TypeOK, connVars
  <2>6. CASE Enqueue(i) /\ quiet' = FALSE
    <3>1. CASE UNCHANGED <<connVars, lost>>
      BY <2>1, <2>2, <2>3, <2>4, <2>6, <3>1 DEF TypeOK, connVars
    <3>2. CASE \E c \in NextConn : BeginAttempt(c)
      BY ZenonT(60), <2>1, <2>2, <2>3, <2>4, <2>6, <3>2 DEF TypeOK, BeginAttempt, NextConn, Fresh,
         Live
    <3> QED
      BY <2>6, <3>1, <3>2 DEF Enqueue
  <2> QED
    BY <2>5, <2>6 DEF SendInvoke
<1>2. ConnInv'
  <2>1. CASE UNCHANGED connVars
    BY <2>1, ConnUnchanged
  <2>2. CASE socket = None /\ ~opening /\ \E c \in NextConn : BeginAttempt(c)
    BY <2>2, BeginAttemptConn
  <2> QED
    BY <2>1, <2>2 DEF SendInvoke, Enqueue
<1>3. CallInv'
  <2> SUFFICES ASSUME NEW j \in Calls PROVE Owed(j)'
    BY DEF CallInv
  <2>1. Owed(j) /\ Owed(i) /\ kind[j] \in CallKinds
    BY KindOfCall DEF CallInv
  <2> QED
    BY <2>1 DEF SendInvoke, Enqueue, Settle, Owed, TypeOK, Waits, HasTimer, OverFetch, CallKinds
<1>4. DisconnectIsFinal'
  BY DEF SendInvoke, DisconnectIsFinal, connVars, LiveAttempts
<1> QED
  BY <1>1, <1>2, <1>3, <1>4

\* onBeforeConnect lets the attempt go on.
LEMMA BeforeConnectOkStep ==
    ASSUME NEW c \in Conns, IInv, BeforeConnectOk(c)
    PROVE  IInv'
<1> USE DEF IInv
<1>1. TypeOK'
  BY DEF BeforeConnectOk, TypeOK, Live, callVars, connVars, Waits, HasTimer, OverFetch
<1>2. ConnInv'
  <2> USE DEF ConnInv, Holds, Live, TypeOK
  <2>1. OneAttempt'
    BY DEF BeforeConnectOk, OneAttempt
  <2>2. AttemptOwnsSocket'
    BY DEF BeforeConnectOk, OneAttempt, AttemptOwnsSocket
  <2>3. LinkIsHeld'
    BY NoneIsNoConn DEF BeforeConnectOk, OneAttempt, AttemptOwnsSocket, LinkIsHeld
  <2> QED
    BY <2>1, <2>2, <2>3
<1>3. CallInv'
  BY DEF BeforeConnectOk, CallInv, Owed, OverFetch, callVars
<1>4. DisconnectIsFinal'
  BY DEF BeforeConnectOk, DisconnectIsFinal, LiveAttempts, Live, connVars
<1> QED
  BY <1>1, <1>2, <1>3, <1>4

\* There is no socket for it: the flag stays set.
LEMMA NoConnectionSocketStep ==
    ASSUME NEW c \in Conns, IInv, NoConnectionSocket(c)
    PROVE  IInv'
<1> USE DEF IInv
<1>1. TypeOK'
  BY DEF NoConnectionSocket, TypeOK, Live, callVars, connVars, Waits, HasTimer, OverFetch
<1>2. ConnInv'
  <2> USE DEF ConnInv, Holds, Live, TypeOK
  <2>1. OneAttempt'
    BY DEF NoConnectionSocket, OneAttempt
  <2>2. AttemptOwnsSocket'
    BY DEF NoConnectionSocket, OneAttempt, AttemptOwnsSocket
  <2>3. LinkIsHeld'
    BY NoneIsNoConn DEF NoConnectionSocket, OneAttempt, AttemptOwnsSocket, LinkIsHeld
  <2> QED
    BY <2>1, <2>2, <2>3
<1>3. CallInv'
  BY DEF NoConnectionSocket, CallInv, Owed, OverFetch, callVars
<1>4. DisconnectIsFinal'
  BY DEF NoConnectionSocket, DisconnectIsFinal, LiveAttempts, Live, connVars
<1> QED
  BY <1>1, <1>2, <1>3, <1>4

\* onBeforeConnect refuses it: the flag stays set.
LEMMA BeforeConnectVetoStep ==
    ASSUME NEW c \in Conns, IInv, BeforeConnectVeto(c)
    PROVE  IInv'
<1> USE DEF IInv
<1>1. TypeOK'
  BY DEF BeforeConnectVeto, TypeOK, Live, callVars, connVars, Waits, HasTimer, OverFetch
<1>2. ConnInv'
  <2> USE DEF ConnInv, Holds, Live, TypeOK
  <2>1. OneAttempt'
    BY DEF BeforeConnectVeto, OneAttempt
  <2>2. AttemptOwnsSocket'
    BY DEF BeforeConnectVeto, OneAttempt, AttemptOwnsSocket
  <2>3. LinkIsHeld'
    BY NoneIsNoConn DEF BeforeConnectVeto, OneAttempt, AttemptOwnsSocket, LinkIsHeld
  <2> QED
    BY <2>1, <2>2, <2>3
<1>3. CallInv'
  BY DEF BeforeConnectVeto, CallInv, Owed, OverFetch, callVars
<1>4. DisconnectIsFinal'
  BY DEF BeforeConnectVeto, DisconnectIsFinal, LiveAttempts, Live, connVars
<1> QED
  BY <1>1, <1>2, <1>3, <1>4

\* The socket is open.
LEMMA ConnectedStep ==
    ASSUME NEW c \in Conns, IInv, Connected(c)
    PROVE  IInv'
<1> USE DEF IInv
<1>1. TypeOK'
  BY DEF Connected, TypeOK, Live, callVars, connVars, Waits, HasTimer, OverFetch
<1>2. ConnInv'
  <2> USE DEF ConnInv, Holds, Live, TypeOK
  <2>1. OneAttempt'
    BY DEF Connected, OneAttempt
  <2>2. AttemptOwnsSocket'
    BY DEF Connected, OneAttempt, AttemptOwnsSocket
  <2>3. LinkIsHeld'
    BY NoneIsNoConn DEF Connected, OneAttempt, AttemptOwnsSocket, LinkIsHeld
  <2> QED
    BY <2>1, <2>2, <2>3
<1>3. CallInv'
  BY DEF Connected, CallInv, Owed, OverFetch, callVars
<1>4. DisconnectIsFinal'
  BY DEF Connected, DisconnectIsFinal, LiveAttempts, Live, connVars
<1> QED
  BY <1>1, <1>2, <1>3, <1>4

\* The peer or the network ends the connection.
LEMMA LinkDropsStep ==
    ASSUME NEW c \in Conns, IInv, LinkDrops(c)
    PROVE  IInv'
<1> USE DEF IInv
<1>1. TypeOK'
  BY DEF LinkDrops, TypeOK, Live, callVars, connVars, Waits, HasTimer, OverFetch
<1>2. ConnInv'
  <2> USE DEF ConnInv, Holds, Live, TypeOK
  <2>1. OneAttempt'
    BY DEF LinkDrops, OneAttempt
  <2>2. AttemptOwnsSocket'
    BY DEF LinkDrops, OneAttempt, AttemptOwnsSocket
  <2>3. LinkIsHeld'
    BY NoneIsNoConn DEF LinkDrops, OneAttempt, AttemptOwnsSocket, LinkIsHeld
  <2> QED
    BY <2>1, <2>2, <2>3
<1>3. CallInv'
  BY DEF LinkDrops, CallInv, Owed, OverFetch, callVars
<1>4. DisconnectIsFinal'
  BY DEF LinkDrops, DisconnectIsFinal, LiveAttempts, Live, connVars
<1> QED
  BY <1>1, <1>2, <1>3, <1>4

\* The attempt is over and the queue is served.
LEMMA NotifiedStep ==
    ASSUME NEW c \in Conns, IInv, Notified(c)
    PROVE  IInv'
<1> USE DEF IInv
<1>1. TypeOK'
  BY TransmitType DEF Notified, TypeOK, Live, Waits, HasTimer, OverFetch
<1>2. ConnInv'
  <2> USE DEF ConnInv, Holds, Live, TypeOK
  <2>1. OneAttempt'
    BY DEF Notified, OneAttempt
  <2>2. AttemptOwnsSocket'
    BY DEF Notified, OneAttempt, AttemptOwnsSocket
  <2>3. LinkIsHeld'
    BY NoneIsNoConn DEF Notified, OneAttempt, AttemptOwnsSocket, LinkIsHeld
  <2> QED
    BY <2>1, <2>2, <2>3
<1>3. CallInv'
  <2>1. pendingSockets \subseteq Calls /\ Transmit(pendingSockets) /\ kind' = kind
        /\ pendingInvokes' = pendingInvokes /\ pendingSockets' = pendingSockets \ pendingSockets
    BY DEF Notified, TypeOK
  <2>2. pendingSockets \in SUBSET Calls
    BY <2>1
  <2>3. \A i \in pendingSockets : i \in pendingSockets \/ (kind[i] = "connect" /\ message[i] = "idle")
    OBVIOUS
  <2>4. TypeOK /\ CallInv
    OBVIOUS
  <2> HIDE DEF IInv
  <2> QED
    BY <2>1, <2>2, <2>3, <2>4, TransmitOwed, Zenon
<1>4. DisconnectIsFinal'
  BY DEF Notified, DisconnectIsFinal, LiveAttempts, Live, connVars
<1> QED
  BY <1>1, <1>2, <1>3, <1>4

\* The connection could not be opened.
LEMMA ConnectFailsStep ==
    ASSUME NEW c \in Conns, IInv, ConnectFails(c)
    PROVE  IInv'
<1> USE DEF IInv
<1>1. TypeOK'
  <2>1. reconnectTimer' \in BOOLEAN /\ opening' \in BOOLEAN
    BY Zenon DEF ConnectFails
  <2> QED
    BY <2>1, RejectSocketsType DEF ConnectFails, TypeOK, Live, Waits, HasTimer, OverFetch
<1>2. ConnInv'
  <2> USE DEF ConnInv, Holds, Live, TypeOK
  <2>1. OneAttempt'
    BY DEF ConnectFails, OneAttempt
  <2>2. AttemptOwnsSocket'
    BY DEF ConnectFails, OneAttempt, AttemptOwnsSocket
  <2>3. LinkIsHeld'
    BY NoneIsNoConn DEF ConnectFails, OneAttempt, AttemptOwnsSocket, LinkIsHeld
  <2> QED
    BY <2>1, <2>2, <2>3
<1>3. CallInv'
  BY RejectSocketsOwed DEF ConnectFails
<1>4. DisconnectIsFinal'
  BY DEF ConnectFails, DisconnectIsFinal, LiveAttempts, Live, connVars
<1> QED
  BY <1>1, <1>2, <1>3, <1>4

\* disconnect().
LEMMA DisconnectStep ==
    ASSUME IInv, Disconnect
    PROVE  IInv'
<1> USE DEF IInv
<1>1. TypeOK'
  <2>1. quiet' \in BOOLEAN /\ reconnectTimer' \in BOOLEAN
    BY Zenon DEF Disconnect, Shutdown
  <2>2. RejectSockets /\ disconnects' \in 0..MaxDisconnects
    BY ClientAssumption DEF Disconnect, Shutdown, TypeOK
  <2> QED
    BY <2>1, <2>2, RejectSocketsType DEF Disconnect, Shutdown, TypeOK, Waits, HasTimer, OverFetch
<1>2. ConnInv'
  BY ShutdownConn DEF Disconnect
<1>3. CallInv'
  BY RejectSocketsOwed DEF Disconnect, Shutdown
<1>4. DisconnectIsFinal'
  <2>1. socket' = None /\ ~reconnectTimer' /\ attempt' = attempt
    BY DEF Disconnect, Shutdown
  <2>2. quiet' => LiveAttempts = {}
    BY Zenon DEF Disconnect
  <2> QED
    BY <2>1, <2>2 DEF DisconnectIsFinal, LiveAttempts
<1> QED
  BY <1>1, <1>2, <1>3, <1>4

\* The drop of the connection is reported.
LEMMA SocketClosedStep ==
    ASSUME NEW c \in Conns, IInv, SocketClosed(c)
    PROVE  IInv'
<1> USE DEF IInv
<1>1. TypeOK'
  <2>1. RejectSockets /\ reconnectTimer' \in BOOLEAN
    BY ClientAssumption, Zenon DEF SocketClosed, Shutdown
  <2>2. disconnects' \in 0..MaxDisconnects
    BY ClientAssumption DEF SocketClosed, TypeOK
  <2> QED
    BY <2>1, <2>2, RejectSocketsType DEF SocketClosed, Shutdown, TypeOK, Waits, HasTimer, OverFetch
<1>2. ConnInv'
  BY ShutdownConn DEF SocketClosed
<1>3. CallInv'
  BY RejectSocketsOwed DEF SocketClosed, Shutdown
<1>4. DisconnectIsFinal'
  <2>1. socket = c /\ quiet' = quiet
    BY DEF SocketClosed, ConnInv, LinkIsHeld
  <2> QED
    BY <2>1, NoneIsNoConn DEF DisconnectIsFinal
<1> QED
  BY <1>1, <1>2, <1>3, <1>4

\* The reconnect timer fires.
LEMMA ReconnectTimerStep ==
    ASSUME IInv, ReconnectTimer
    PROVE  IInv'
<1> USE DEF IInv
<1>1. TypeOK'
  <2>1. CASE UNCHANGED <<connVars, lost>>
    BY <2>1 DEF ReconnectTimer, TypeOK, callVars, connVars, Waits, HasTimer, OverFetch
  <2>2. CASE \E c \in NextConn : BeginAttempt(c)
    BY <2>2 DEF ReconnectTimer, TypeOK, callVars, connVars, Waits, HasTimer, OverFetch,
       BeginAttempt, NextConn, Fresh, Live
  <2> QED
    BY <2>1, <2>2 DEF ReconnectTimer
<1>2. ConnInv'
  <2>1. CASE UNCHANGED connVars
    BY <2>1, ConnUnchanged
  <2>2. CASE socket = None /\ ~opening /\ \E c \in NextConn : BeginAttempt(c)
    BY <2>2, BeginAttemptConn
  <2> QED
    BY <2>1, <2>2 DEF ReconnectTimer
<1>3. CallInv'
  BY DEF ReconnectTimer, CallInv, Owed, OverFetch, callVars
<1>4. DisconnectIsFinal'
  BY DEF ReconnectTimer, DisconnectIsFinal, LiveAttempts, Live, connVars
<1> QED
  BY <1>1, <1>2, <1>3, <1>4

\* The server answers.
LEMMA AnswerStep ==
    ASSUME NEW i \in Calls, IInv, Answer(i)
    PROVE  IInv'
<1> USE DEF IInv
<1>1. TypeOK'
  BY SettleType DEF Answer, Complete, TypeOK, connVars, Waits, HasTimer, OverFetch
<1>2. ConnInv'
  BY ConnUnchanged DEF Answer
<1>3. CallInv'
  BY CompleteOwed DEF Answer
<1>4. DisconnectIsFinal'
  BY DEF Answer, DisconnectIsFinal, LiveAttempts, Live, connVars
<1> QED
  BY <1>1, <1>2, <1>3, <1>4

\* A fetch ends.
LEMMA FetchEndsStep ==
    ASSUME NEW i \in Calls, IInv, FetchEnds(i)
    PROVE  IInv'
<1> USE DEF IInv
<1>1. TypeOK'
  BY SettleType DEF FetchEnds, Complete, TypeOK, connVars, Waits, HasTimer, OverFetch
<1>2. ConnInv'
  BY ConnUnchanged DEF FetchEnds
<1>3. CallInv'
  <2>1. CASE message' = [message EXCEPT ![i] = "over"] /\ \E a \in {"answer", "reject"} : Complete({i}, a)
    BY <2>1, CompleteOwed DEF FetchEnds
  <2>2. CASE message' = [message EXCEPT ![i] = "unanswered"]
             /\ UNCHANGED <<pendingInvokes, settled, answer>>
    <3> SUFFICES ASSUME NEW j \in Calls PROVE Owed(j)'
      BY DEF CallInv
    <3>1. Owed(j) /\ kind[j] \in CallKinds /\ message[i] = "fetching"
      BY KindOfCall DEF CallInv, FetchEnds
    <3> QED
      BY <2>2, <3>1 DEF FetchEnds, Owed, OverFetch, TypeOK
  <2> QED
    BY <2>1, <2>2 DEF FetchEnds
<1>4. DisconnectIsFinal'
  BY DEF FetchEnds, DisconnectIsFinal, LiveAttempts, Live, connVars
<1> QED
  BY <1>1, <1>2, <1>3, <1>4

\* The timer of an invoke fires.
LEMMA InvokeTimeoutStep ==
    ASSUME NEW i \in Calls, IInv, InvokeTimeout(i)
    PROVE  IInv'
<1> USE DEF IInv
<1>1. TypeOK'
  BY SettleType DEF InvokeTimeout, Complete, TypeOK, connVars, Waits, HasTimer, OverFetch
<1>2. ConnInv'
  BY ConnUnchanged DEF InvokeTimeout
<1>3. CallInv'
  BY CompleteOwed DEF InvokeTimeout
<1>4. DisconnectIsFinal'
  BY DEF InvokeTimeout, DisconnectIsFinal, LiveAttempts, Live, connVars
<1> QED
  BY <1>1, <1>2, <1>3, <1>4

\* pauseRoseProcessing.
LEMMA PauseStep ==
    ASSUME IInv, PauseRoseProcessing
    PROVE  IInv'
<1> USE DEF IInv
<1>1. TypeOK'
  <2>1. pauses' \in 0..MaxPauses
    BY ClientAssumption DEF PauseRoseProcessing, TypeOK
  <2> QED
    BY <2>1, SettleType DEF PauseRoseProcessing, TypeOK, connVars, Waits, HasTimer, OverFetch
<1>2. ConnInv'
  BY ConnUnchanged DEF PauseRoseProcessing
<1>3. CallInv'
  <2> SUFFICES ASSUME NEW j \in Calls PROVE Owed(j)'
    BY DEF CallInv
  <2>1. Owed(j) /\ kind[j] \in CallKinds
    BY KindOfCall DEF CallInv
  <2> QED
    BY <2>1 DEF PauseRoseProcessing, Settle, Owed, TypeOK, Waits, HasTimer, OverFetch
<1>4. DisconnectIsFinal'
  BY DEF PauseRoseProcessing, DisconnectIsFinal, LiveAttempts, Live, connVars
<1> QED
  BY <1>1, <1>2, <1>3, <1>4

\* resumeRoseProcessing.
LEMMA ResumeStep ==
    ASSUME IInv, ResumeRoseProcessing
    PROVE  IInv'
<1> USE DEF IInv
<1>1. TypeOK'
  BY DEF ResumeRoseProcessing, TypeOK, Live, callVars, connVars, Waits, HasTimer, OverFetch
<1>2. ConnInv'
  BY ConnUnchanged DEF ResumeRoseProcessing
<1>3. CallInv'
  BY DEF ResumeRoseProcessing, CallInv, Owed, OverFetch, callVars
<1>4. DisconnectIsFinal'
  BY DEF ResumeRoseProcessing, DisconnectIsFinal, LiveAttempts, Live, connVars
<1> QED
  BY <1>1, <1>2, <1>3, <1>4

\* A step that leaves everything alone.
LEMMA StutterStep ==
    ASSUME IInv, UNCHANGED vars
    PROVE  IInv'
<1> USE DEF IInv
<1>1. TypeOK'
  BY DEF vars, TypeOK, callVars, connVars, Waits, HasTimer, OverFetch
<1>2. ConnInv'
  BY ConnUnchanged DEF vars
<1>3. CallInv'
  BY DEF vars, CallInv, Owed, OverFetch, callVars
<1>4. DisconnectIsFinal'
  BY DEF vars, DisconnectIsFinal, LiveAttempts, Live, connVars
<1> QED
  BY <1>1, <1>2, <1>3, <1>4

\* The invariant is inductive.
LEMMA IInvInvariant == Spec => []IInv
<1>1. ASSUME IInv, [Next]_vars PROVE IInv'
  <2>1. ASSUME NEW c \in Conns, OfConn(c) PROVE IInv'
    BY <1>1, <2>1, BeforeConnectOkStep, BeforeConnectVetoStep, NoConnectionSocketStep,
       ConnectedStep, NotifiedStep, ConnectFailsStep, LinkDropsStep, SocketClosedStep, Zenon DEF
       OfConn
  <2>2. ASSUME NEW i \in Calls, OfCall(i) PROVE IInv'
    BY <1>1, <2>2, ConnectStep, InvokeRefusedStep, SendInvokeStep, AnswerStep, FetchEndsStep,
       InvokeTimeoutStep, Zenon DEF OfCall
  <2>3. ASSUME OfSession PROVE IInv'
    BY <1>1, <2>3, DisconnectStep, ReconnectTimerStep, PauseStep, ResumeStep, Zenon DEF OfSession
  <2> QED
    BY <1>1, <2>1, <2>2, <2>3, StutterStep, Zenon DEF Next
<1> QED
  BY InitIInv, <1>1, PTL DEF Spec

-----------------------------------------------------------------------------
(* Theorems *)

\* Every variable keeps its type, and only invokes that wait are pending.
THEOREM TypeCorrect == Spec => []TypeOK
<1>1. IInv => TypeOK
  BY DEF IInv
<1> QED
  BY IInvInvariant, <1>1, PTL

\* No promise is settled twice and none is forgotten, for any number of requests of any
\* kinds and however drops, timers, answers, disconnects and pauses interleave.
THEOREM NobodyIsForgotten == Spec => []NoForgottenCaller
<1>1. IInv => NoForgottenCaller
  <2> SUFFICES ASSUME IInv, NEW i \in Calls
               PROVE  /\ settled[i] <= 1
                      /\ message[i] # "idle" /\ settled[i] = 0 =>
                           \/ HasTimer(i) /\ i \in pendingInvokes
                           \/ kind[i] = "rest" /\ i \in pendingInvokes
                                /\ message[i] \in {"fetching", "unanswered"}
                           \/ kind[i] = "connect" /\ i \in pendingSockets
    BY DEF NoForgottenCaller
  <2>1. Owed(i) /\ (i \in pendingInvokes => Waits(i))
    BY DEF IInv, CallInv, TypeOK
  <2> QED
    BY <2>1 DEF Owed, Waits, HasTimer, OverFetch
<1> QED
  BY IInvInvariant, <1>1, PTL

\* Attempts do not overtake each other and no connection is left that nobody can close, for
\* any number of attempts.
THEOREM FlightIsSingle == Spec => []SingleFlight
<1>1. IInv => SingleFlight
  <2> SUFFICES ASSUME IInv PROVE SingleFlight
    OBVIOUS
  <2>1. OneAttempt /\ LinkIsHeld
    BY DEF IInv, ConnInv
  <2>2. Cardinality(LiveAttempts) <= 1
    <3>1. CASE LiveAttempts = {}
      BY <3>1, FS_EmptySet
    <3>2. ASSUME NEW c \in LiveAttempts PROVE Cardinality(LiveAttempts) <= 1
      <4>1. LiveAttempts = {c}
        BY <2>1 DEF OneAttempt, Holds, LiveAttempts
      <4>2. Cardinality(LiveAttempts) = 1
        BY <4>1, FS_Singleton, Zenon
      <4> QED
        BY <4>2
    <3> QED
      BY <3>1, <3>2
  <2> QED
    BY <2>1, <2>2 DEF SingleFlight, OneAttempt, Holds, LinkIsHeld
<1> QED
  BY IInvInvariant, <1>1, PTL

\* After disconnect() of an idle client nothing connects by itself, whatever the setting of
\* autoReconnect.
THEOREM DisconnectStaysFinal == Spec => []DisconnectIsFinal
<1>1. IInv => DisconnectIsFinal
  BY DEF IInv
<1> QED
  BY IInvInvariant, <1>1, PTL

=============================================================================
