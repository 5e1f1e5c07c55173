-------------------------- MODULE StateFullClient --------------------------
(***************************************************************************)
(* The TypeScript ROSE client: TSASN1Client over TSASN1Base, with the      *)
(* socket of TSASN1NodeClient.                                             *)
(*                                                                         *)
(* One JavaScript thread runs everything, so an action is what runs        *)
(* between two returns to the event loop.  The interleaving that matters   *)
(* is at the awaits: a connection attempt is suspended in onBeforeConnect, *)
(* then until the socket reports, then in onClientConnected, and requests, *)
(* disconnects, drops and timers come in between.  A promise that is       *)
(* resolved runs its continuation before the next event, so the send that  *)
(* follows a resolved getConnection is part of the action.                 *)
(***************************************************************************)
EXTENDS Naturals, FiniteSets

CONSTANTS
    Calls,          \* requests of the application: connect() or one sendInvoke
    Kinds,          \* what the requests may be: a subset of [Calls -> CallKinds]
    MaxConns,       \* bound: connection attempts
    AutoReconnect,  \* autoReconnect
    MaxDisconnects, \* bound: calls of disconnect()
    MaxPauses       \* bound: calls of pauseRoseProcessing()

\* "connect" is connect(); "wait" a sendInvoke with a timeout; "nowait" one whose
\* timeout is 0, which answers undefined at once; "rest" one over fetch whose timeout
\* is 0, "timedRest" one over fetch with a timeout.
CallKinds == {"connect", "wait", "nowait", "rest", "timedRest"}

\* Connections are numbered in the order their attempts begin.
Conns == 1..MaxConns
None == 0

ASSUME ClientAssumption ==
    /\ Kinds \subseteq [Calls -> CallKinds]
    /\ AutoReconnect \in BOOLEAN
    /\ MaxDisconnects \in Nat /\ MaxPauses \in Nat
    /\ MaxConns \in Nat

VARIABLES
    kind,           \* the requests of this behaviour, chosen once from Kinds
    roseProcessingAllowed,
    socket,         \* this.socket: the established connection, or None
    ws,             \* this.ws of the node client: what send and close act on
    opening,        \* openingStateFullConnection
    attempt,        \* where createStateFullConnection is for each attempt
    link,           \* the network under each attempt
    pendingSockets, \* requests waiting for the connection
    reconnectTimer, \* reconnectTimeout is set
    pendingInvokes,
    message,        \* where the payload of a call is
    carrier,        \* the connection the payload went out on
    settled,        \* how often the promise of a call was settled
    answer,         \* what it was settled with
    disconnects, pauses,
    quiet,          \* history: disconnected while idle, outside onClientDisconnected, nothing asked since
    lost            \* history: a connection was dropped and no attempt began since

connVars == <<socket, ws, opening, attempt, link>>
callVars == <<pendingInvokes, message, carrier, settled, answer>>
vars == <<kind, roseProcessingAllowed, connVars, pendingSockets, reconnectTimer,
          callVars, disconnects, pauses, quiet, lost>>

Live == {"before", "connecting", "notifying"}
LiveAttempts == {c \in Conns : attempt[c] \in Live}
Fresh == {c \in Conns : attempt[c] = "unused"}
NextConn == {c \in Fresh : \A d \in Fresh : c <= d}
HasTimer(i) == kind[i] \in {"wait", "timedRest"}
OverFetch(i) == kind[i] \in {"rest", "timedRest"}
Waits(i) == HasTimer(i) \/ OverFetch(i)

TypeOK ==
    /\ kind \in Kinds
    /\ roseProcessingAllowed \in BOOLEAN
    /\ socket \in Conns \cup {None} /\ ws \in Conns \cup {None}
    /\ opening \in BOOLEAN /\ reconnectTimer \in BOOLEAN
    /\ attempt \in [Conns -> Live \cup {"unused", "vetoed", "stuck", "failed", "done"}]
    /\ link \in [Conns -> {"none", "open", "down", "closed"}]
    /\ pendingSockets \subseteq Calls /\ pendingInvokes \subseteq {i \in Calls : Waits(i)}
    /\ message \in [Calls -> {"idle", "queued", "sent", "lost", "refused", "fetching", "unanswered", "over"}]
    /\ carrier \in [Calls -> Conns \cup {None}]
    /\ settled \in [Calls -> Nat]
    /\ answer \in [Calls -> {"none", "answer", "reject", "timedOut", "shutdown", "undefined", "connected"}]
    /\ disconnects \in 0..MaxDisconnects /\ pauses \in 0..MaxPauses
    /\ quiet \in BOOLEAN /\ lost \in {"no", "idle", "notifying"}

Init ==
    /\ kind \in Kinds
    /\ roseProcessingAllowed = TRUE
    /\ socket = None /\ ws = None /\ opening = FALSE
    /\ attempt = [c \in Conns |-> "unused"] /\ link = [c \in Conns |-> "none"]
    /\ pendingSockets = {} /\ reconnectTimer = FALSE /\ pendingInvokes = {}
    /\ message = [i \in Calls |-> "idle"] /\ carrier = [i \in Calls |-> None]
    /\ settled = [i \in Calls |-> 0] /\ answer = [i \in Calls |-> "none"]
    /\ disconnects = 0 /\ pauses = 0 /\ quiet = FALSE /\ lost = "no"

-----------------------------------------------------------------------------
(* Settling promises.                                                      *)

\* PendingInvoke.completed_*: the calls of S are resolved with a.
Settle(S, a) ==
    /\ settled' = [i \in Calls |-> IF i \in S THEN settled[i] + 1 ELSE settled[i]]
    /\ answer' = [i \in Calls |-> IF i \in S THEN a ELSE answer[i]]

\* onROSEResult, onROSEReject, onROSEError and onROSETimeout: look the invoke up,
\* take it out of the list, complete it.  An id that is not in the list is ignored.
Complete(S, a) ==
    /\ pendingInvokes' = pendingInvokes \ S
    /\ Settle(S \cap pendingInvokes, a)

\* Mutant: the queue is emptied and nobody is told.
RejectSocketsSilently ==
    /\ pendingSockets' = {}
    /\ message' = [i \in Calls |-> IF i \in pendingSockets THEN "refused" ELSE message[i]]
    /\ UNCHANGED <<pendingInvokes, carrier, settled, answer>>

\* PendingSockets.reject: the continuation of a queued invoke answers it with a
\* local reject, that of connect() resolves false.
RejectSockets ==
    LET told == pendingSockets \cap (pendingInvokes \cup {i \in Calls : kind[i] = "connect"})
    IN  /\ pendingSockets' = {}
        /\ pendingInvokes' = pendingInvokes \ pendingSockets
        /\ Settle(told, "reject")
        /\ message' = [i \in Calls |-> IF i \in pendingSockets THEN "refused" ELSE message[i]]
        /\ UNCHANGED carrier

\* PendingSockets.resolve and the continuations: connect() is told, an invoke is
\* written with send, which acts on this.ws and not on the socket it was given:
\* nothing is written when this.ws is unset, a link that is down loses the message.
Transmit(S) ==
    LET told == {i \in S : kind[i] = "connect"}
        out == S \ told
        goes == ws # None /\ link[ws] = "open"
    IN  /\ Settle(told, "connected")
        /\ message' = [i \in Calls |->
                         IF i \in told THEN "over"
                         ELSE IF i \in out THEN IF goes THEN "sent" ELSE "lost"
                         ELSE message[i]]
        /\ carrier' = [i \in Calls |-> IF i \in out /\ goes THEN ws ELSE carrier[i]]

-----------------------------------------------------------------------------
(* Requests.                                                               *)

\* createStateFullConnection up to the await of fire_OnBeforeConnect.
BeginAttempt(c) ==
    /\ opening' = TRUE
    /\ attempt' = [attempt EXCEPT ![c] = "before"]
    /\ lost' = "no"
    /\ UNCHANGED <<socket, ws, link>>

\* Mutant: every request starts an attempt of its own.
EnqueueAndConnect(i) ==
    /\ pendingSockets' = pendingSockets \cup {i}
    /\ message' = [message EXCEPT ![i] = "queued"]
    /\ \E c \in NextConn : BeginAttempt(c)
    /\ UNCHANGED carrier

\* getConnection for a request without a socket: queue it, and start an attempt
\* unless one is in progress.
Enqueue(i) ==
    /\ pendingSockets' = pendingSockets \cup {i}
    /\ message' = [message EXCEPT ![i] = "queued"]
    /\ IF opening
         THEN UNCHANGED <<connVars, lost>>
         ELSE \E c \in NextConn : BeginAttempt(c)
    /\ UNCHANGED carrier

\* connect()
Connect(i) ==
    /\ kind[i] = "connect" /\ message[i] = "idle"
    /\ \/ /\ socket # None
          /\ Transmit({i})
          /\ UNCHANGED <<connVars, pendingSockets, quiet, lost>>
       \/ /\ socket = None
          /\ Enqueue(i)
          /\ quiet' = FALSE
          /\ UNCHANGED <<settled, answer>>
    /\ UNCHANGED <<kind, roseProcessingAllowed, reconnectTimer, pendingInvokes, disconnects, pauses>>

\* sendInvoke while the gate is shut: a local reject, nothing is registered.
InvokeRefused(i) ==
    /\ kind[i] # "connect" /\ message[i] = "idle"
    /\ ~roseProcessingAllowed
    /\ Settle({i}, "shutdown")
    /\ message' = [message EXCEPT ![i] = "over"]
    /\ UNCHANGED <<kind, roseProcessingAllowed, connVars, pendingSockets, reconnectTimer,
                   pendingInvokes, carrier, disconnects, pauses, quiet, lost>>

\* Mutant: an invoke that waits for nothing is registered too.
SendInvokeRegistersAll(i) ==
    /\ kind[i] # "connect" /\ message[i] = "idle"
    /\ roseProcessingAllowed
    /\ pendingInvokes' = pendingInvokes \cup {i}
    /\ Settle(IF Waits(i) THEN {} ELSE {i}, "undefined")
    /\ message' = [message EXCEPT ![i] = IF OverFetch(i) THEN "fetching" ELSE "lost"]
    /\ UNCHANGED <<kind, roseProcessingAllowed, connVars, pendingSockets, reconnectTimer,
                   carrier, disconnects, pauses, quiet, lost>>

\* sendInvoke: register the pending invoke if there is something to wait for, hand
\* the payload to fetch or to the connection, answer undefined otherwise.
SendInvoke(i) ==
    /\ kind[i] # "connect" /\ message[i] = "idle"
    /\ roseProcessingAllowed
    /\ pendingInvokes' = IF Waits(i) THEN pendingInvokes \cup {i} ELSE pendingInvokes
    /\ Settle(IF Waits(i) THEN {} ELSE {i}, "undefined")
    /\ \/ /\ OverFetch(i)
          /\ message' = [message EXCEPT ![i] = "fetching"]
          /\ UNCHANGED <<connVars, pendingSockets, carrier, quiet, lost>>
       \/ /\ ~OverFetch(i) /\ socket # None
          /\ LET goes == ws # None /\ link[ws] = "open"
             IN  /\ message' = [message EXCEPT ![i] = IF goes THEN "sent" ELSE "lost"]
                 /\ carrier' = [carrier EXCEPT ![i] = IF goes THEN ws ELSE None]
          /\ UNCHANGED <<connVars, pendingSockets, quiet, lost>>
       \/ /\ ~OverFetch(i) /\ socket = None
          /\ Enqueue(i)
          /\ quiet' = FALSE
    /\ UNCHANGED <<kind, roseProcessingAllowed, reconnectTimer, disconnects, pauses>>

-----------------------------------------------------------------------------
(* The connection attempt.                                                 *)

\* onBeforeConnect answered true and getConnectionSocket creates the socket.
BeforeConnectOk(c) ==
    /\ attempt[c] = "before"
    /\ attempt' = [attempt EXCEPT ![c] = "connecting"]
    /\ ws' = c
    /\ UNCHANGED <<kind, roseProcessingAllowed, socket, opening, link, pendingSockets,
                   reconnectTimer, callVars, disconnects, pauses, quiet, lost>>

\* onBeforeConnect answered false: the exception leaves createStateFullConnection,
\* both callers only catch it.
BeforeConnectVeto(c) ==
    /\ attempt[c] = "before"
    /\ attempt' = [attempt EXCEPT ![c] = "vetoed"]
    /\ UNCHANGED <<kind, roseProcessingAllowed, socket, ws, opening, link, pendingSockets,
                   reconnectTimer, callVars, disconnects, pauses, quiet, lost>>

\* onBeforeConnect answered true and getConnectionSocket throws (the target is no URL)
\* or has no socket for the connection mode: that exception is only logged as well.
NoConnectionSocket(c) ==
    /\ attempt[c] = "before"
    /\ attempt' = [attempt EXCEPT ![c] = "stuck"]
    /\ UNCHANGED <<kind, roseProcessingAllowed, socket, ws, opening, link, pendingSockets,
                   reconnectTimer, callVars, disconnects, pauses, quiet, lost>>

\* onSocketConnected, up to the await of onClientConnected.
Connected(c) ==
    /\ attempt[c] = "connecting"
    /\ attempt' = [attempt EXCEPT ![c] = "notifying"]
    /\ link' = [link EXCEPT ![c] = "open"]
    /\ socket' = c
    /\ UNCHANGED <<kind, roseProcessingAllowed, ws, opening, pendingSockets, reconnectTimer,
                   callVars, disconnects, pauses, quiet, lost>>

\* Mutant: the attempt is over and the queue is left for the next one.
NotifiedKeepsQueue(c) ==
    /\ attempt[c] = "notifying"
    /\ attempt' = [attempt EXCEPT ![c] = "done"]
    /\ opening' = FALSE
    /\ UNCHANGED <<kind, roseProcessingAllowed, socket, ws, link, reconnectTimer, pendingSockets,
                   callVars, disconnects, pauses, quiet, lost>>

\* The finally of fire_OnConnected: serve the queue, the attempt is over.
Notified(c) ==
    /\ attempt[c] = "notifying"
    /\ attempt' = [attempt EXCEPT ![c] = "done"]
    /\ opening' = FALSE
    /\ Transmit(pendingSockets)
    /\ pendingSockets' = {}
    /\ UNCHANGED <<kind, roseProcessingAllowed, socket, ws, link, reconnectTimer,
                   pendingInvokes, disconnects, pauses, quiet, lost>>

\* onSocketClose of the attempt: the connection could not be opened.
ConnectFails(c) ==
    /\ attempt[c] = "connecting"
    /\ attempt' = [attempt EXCEPT ![c] = "failed"]
    /\ link' = [link EXCEPT ![c] = "closed"]
    /\ RejectSockets
    /\ reconnectTimer' = (reconnectTimer \/ AutoReconnect)
    /\ opening' = FALSE
    /\ UNCHANGED <<kind, roseProcessingAllowed, socket, ws, disconnects, pauses, quiet, lost>>

\* Mutant: a timer that runs is not cleared.
ShutdownKeepsTimer(rearm) ==
    /\ reconnectTimer' = (reconnectTimer \/ rearm)
    /\ IF socket # None /\ ws # None
         THEN link' = [link EXCEPT ![ws] = "closed"] /\ ws' = None
         ELSE UNCHANGED <<link, ws>>
    /\ socket' = None
    /\ RejectSockets

\* Mutant: the timer is cleared after it was armed.
ShutdownForgetsRearm(rearm) ==
    /\ reconnectTimer' = FALSE
    /\ IF socket # None /\ ws # None
         THEN link' = [link EXCEPT ![ws] = "closed"] /\ ws' = None
         ELSE UNCHANGED <<link, ws>>
    /\ socket' = None
    /\ RejectSockets

\* shutdown: clear the timer, close this.ws if there is a socket, reject the queue.
\* rearm is the setReconnectTimeout its caller does next.
Shutdown(rearm) ==
    /\ reconnectTimer' = rearm
    /\ IF socket # None /\ ws # None
         THEN /\ link' = [link EXCEPT ![ws] = "closed"]
              /\ ws' = None
         ELSE UNCHANGED <<link, ws>>
    /\ socket' = None
    /\ RejectSockets

\* disconnect()
Disconnect ==
    /\ disconnects < MaxDisconnects
    /\ disconnects' = disconnects + 1
    /\ Shutdown(FALSE)
    /\ quiet' = (LiveAttempts = {})
    /\ lost' = "no"
    /\ UNCHANGED <<kind, roseProcessingAllowed, opening, attempt, pauses>>

\* The peer or the network ends the connection; the event is not delivered yet.
\* Bound: only while an attempt is left to reconnect with.
LinkDrops(c) ==
    /\ link[c] = "open" /\ Fresh # {}
    /\ link' = [link EXCEPT ![c] = "down"]
    /\ UNCHANGED <<kind, roseProcessingAllowed, socket, ws, opening, attempt, pendingSockets,
                   reconnectTimer, callVars, disconnects, pauses, quiet, lost>>

\* onSocketClose of the established connection.  close() removed the listeners of a
\* socket the client closed itself.  The first onClientDisconnected runs up to its first
\* await before the shutdown and setReconnectTimeout: a disconnect() in there shuts down
\* first and is then undone by the timer.  (What else a callback may do before its first
\* await, it does while the socket still looks connected, as in an action before this one.)
SocketClosed(c) ==
    /\ link[c] = "down" /\ ws = c
    /\ disconnects' \in {disconnects, disconnects + 1} /\ disconnects' <= MaxDisconnects
    /\ Shutdown(AutoReconnect)
    /\ lost' = IF attempt[c] = "notifying" THEN "notifying" ELSE "idle"
    /\ UNCHANGED <<kind, roseProcessingAllowed, opening, attempt, pauses, quiet>>

\* The reconnect timer calls clientReconnect.
ReconnectTimer ==
    /\ reconnectTimer
    /\ reconnectTimer' = FALSE
    /\ IF socket # None \/ opening
         THEN UNCHANGED <<connVars, lost>>
         ELSE \E c \in NextConn : BeginAttempt(c)
    /\ UNCHANGED <<kind, roseProcessingAllowed, pendingSockets, callVars, disconnects, pauses, quiet>>

-----------------------------------------------------------------------------
(* Answers, deadlines, the processing gate.                                *)

\* A message of the server answers call i: onSocketMessage, receive, onROSEResult.
Answer(i) ==
    /\ message[i] = "sent" /\ carrier[i] = socket /\ socket # None /\ link[socket] = "open"
    /\ message' = [message EXCEPT ![i] = "over"]
    /\ Complete({i}, "answer")
    /\ UNCHANGED <<kind, roseProcessingAllowed, connVars, pendingSockets, reconnectTimer,
                   carrier, disconnects, pauses, quiet, lost>>

\* The fetch of a REST call ends with a response (receive), or fails (a local reject).
\* A response that does not decode, or a reject with the invokedID 0, completes nothing:
\* receive returns without an exception and the pending invoke stays.
FetchEnds(i) ==
    /\ message[i] = "fetching"
    /\ \/ /\ message' = [message EXCEPT ![i] = "over"]
          /\ \E a \in {"answer", "reject"} : Complete({i}, a)
       \/ /\ message' = [message EXCEPT ![i] = "unanswered"]
          /\ UNCHANGED <<pendingInvokes, settled, answer>>
    /\ UNCHANGED <<kind, roseProcessingAllowed, connVars, pendingSockets, reconnectTimer,
                   carrier, disconnects, pauses, quiet, lost>>

\* The timer of the invoke: onROSETimeout.
InvokeTimeout(i) ==
    /\ HasTimer(i) /\ i \in pendingInvokes
    /\ Complete({i}, "timedOut")
    /\ UNCHANGED <<kind, roseProcessingAllowed, connVars, pendingSockets, reconnectTimer,
                   message, carrier, disconnects, pauses, quiet, lost>>

\* pauseRoseProcessing: shut the gate, complete what is pending.
PauseRoseProcessing ==
    /\ pauses < MaxPauses
    /\ pauses' = pauses + 1
    /\ roseProcessingAllowed' = FALSE
    /\ Settle(pendingInvokes, "shutdown")
    /\ pendingInvokes' = {}
    /\ UNCHANGED <<kind, connVars, pendingSockets, reconnectTimer, message, carrier, disconnects, quiet, lost>>

\* resumeRoseProcessing
ResumeRoseProcessing ==
    /\ ~roseProcessingAllowed
    /\ roseProcessingAllowed' = TRUE
    /\ UNCHANGED <<kind, connVars, pendingSockets, reconnectTimer, callVars, disconnects, pauses, quiet, lost>>

-----------------------------------------------------------------------------
OfConn(c) ==
    \/ BeforeConnectOk(c) \/ BeforeConnectVeto(c) \/ NoConnectionSocket(c)
    \/ Connected(c) \/ Notified(c) \/ ConnectFails(c) \/ LinkDrops(c) \/ SocketClosed(c)
OfCall(i) ==
    \/ Connect(i) \/ InvokeRefused(i) \/ SendInvoke(i)
    \/ Answer(i) \/ FetchEnds(i) \/ InvokeTimeout(i)
OfSession == Disconnect \/ ReconnectTimer \/ PauseRoseProcessing \/ ResumeRoseProcessing

Next ==
    \/ \E c \in Conns : OfConn(c)
    \/ \E i \in Calls : OfCall(i)
    \/ OfSession

\* The event loop runs timers and the continuations of callbacks that return; a
\* socket that is connecting reports one way or the other; a drop is reported.
Fairness ==
    /\ \A c \in Conns :
         /\ WF_vars(BeforeConnectOk(c) \/ BeforeConnectVeto(c) \/ NoConnectionSocket(c))
         /\ WF_vars(Connected(c) \/ ConnectFails(c))
         /\ WF_vars(Notified(c))
         /\ WF_vars(SocketClosed(c))
    /\ \A i \in Calls : WF_vars(InvokeTimeout(i)) /\ WF_vars(FetchEnds(i))
    /\ WF_vars(ReconnectTimer)

Spec == Init /\ [][Next]_vars /\ Fairness

-----------------------------------------------------------------------------
(* Properties.                                                             *)

\* Nobody is forgotten and nobody is told twice: the promise of a request is settled
\* at most once, whichever of the answer, the invoke timer, the failed or shut down
\* connection and pauseRoseProcessing come first, and a request that was made and is
\* not settled still has something that will settle it: an invoke is in pendingInvokes
\* with its timer or its fetch running, a connect() is in pendingSockets.  The one caller
\* the code leaves alone is named: a fetch without a timer whose response completed
\* nothing stays pending, and only pauseRoseProcessing settles it.
NoForgottenCaller ==
    \A i \in Calls :
        /\ settled[i] <= 1
        /\ message[i] # "idle" /\ settled[i] = 0 =>
             \/ HasTimer(i) /\ i \in pendingInvokes
             \/ kind[i] = "rest" /\ i \in pendingInvokes /\ message[i] \in {"fetching", "unanswered"}
             \/ kind[i] = "connect" /\ i \in pendingSockets

\* Single flight: at most one attempt is under way, and the flag that getConnection
\* and clientReconnect look at says so; the exceptions are the veto and the attempt that
\* gets no socket, after which the flag stays set.  A connection that is up is the one the
\* client holds, and send and close of the socket act on it: a second attempt that
\* overtakes the first would leave a connection nobody can close.
SingleFlight ==
    /\ Cardinality(LiveAttempts) <= 1
    /\ opening <=> \E c \in Conns : attempt[c] \in Live \cup {"vetoed", "stuck"}
    /\ \A c \in Conns : link[c] \in {"open", "down"} => socket = c /\ ws = c

\* disconnect() of a client that is not connecting is final: no timer is armed and
\* no attempt begins until the application asks for a connection again.  A disconnect()
\* that onClientDisconnected makes on a drop is not: the timer is armed after it.
DisconnectIsFinal == quiet => ~reconnectTimer /\ LiveAttempts = {} /\ socket = None

\* A request for a connection is served or refused, whichever of requests, timers, drops,
\* disconnects and failures fall into the awaits of the attempt, unless that attempt was
\* vetoed or got no socket: then nothing serves the queue but a disconnect().
RequestsEnd ==
    \A i \in Calls : (i \in pendingSockets)
        ~> (i \notin pendingSockets \/ \E c \in Conns : attempt[c] \in {"vetoed", "stuck"})

\* With autoReconnect, a connection dropped after its onClientConnected callbacks
\* ended is followed by a new attempt, also when onClientDisconnected disconnects, unless
\* the application disconnects later.
Reconnects == AutoReconnect => (lost = "idle" ~> lost = "no")

\* What the comment of fire_OnBeforeConnect says: "Returning false will terminate the connect
\* attempt and also terminate pending invokes which have been queued"; that of
\* onBeforeConnect adds "(and all pending connect request)".
VetoTerminatesRequests ==
    \A i \in Calls : (i \in pendingSockets /\ \E c \in Conns : attempt[c] = "vetoed")
        ~> i \notin pendingSockets
=============================================================================
