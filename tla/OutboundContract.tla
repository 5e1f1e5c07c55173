-------------------------- MODULE OutboundContract --------------------------
(***************************************************************************)
(* What SnaccROSEBase promises the application for an outbound call:       *)
(* a call is accepted or refused, only by an open session accepted, and    *)
(* one that asks for a result is told one code at most, which what has     *)
(* happened until then justifies, and which stays.                         *)
(***************************************************************************)
EXTENDS Integers, Sequences

CONSTANTS Calls, Asks, Answers

VARIABLES
  ask,    \* what each call asks for
  begun,  \* the calls that were made
  told,   \* what each call was told: its return value or the argument of its callback
  peer,   \* of each call: none, sent, or the peer's answer
  open,   \* the session takes calls
  closed, \* the session was paused or destroyed at some time
  due     \* the calls whose time is up

vars == <<ask, begun, told, peer, open, closed, due>>

Init ==
  /\ ask \in Asks
  /\ begun = {} /\ told = [c \in Calls |-> <<>>] /\ peer = [c \in Calls |-> "none"]
  /\ open = TRUE /\ closed = FALSE /\ due = {}

\* The caller waits for a result, or has given a callback.
Asked(c) == ask[c].how = "sync" \/ (ask[c].how = "async" /\ ask[c].timeout # 0)

\* What each code rests on.
Justified(c, r) ==
  \/ r = "NOERROR" /\ (peer[c] = "result" \/ ask[c].timeout = 0)
  \/ r = "ERROR_VALUE" /\ peer[c] = "error"
  \/ r = "REJECT" /\ peer[c] = "reject"
  \/ r = "DECODE_FAILED" /\ peer[c] = "garbled"
  \/ r = "TIMEOUT" /\ c \in due
  \/ r = "SHUTDOWN" /\ closed
  \/ r = "TRANSPORTFAILED" /\ peer[c] = "none"

Accept(c) ==
  /\ c \notin begun /\ open /\ ~ask[c].blocked
  /\ begun' = begun \cup {c}
  /\ UNCHANGED <<ask, told, peer, open, closed, due>>

Refuse(c, r) ==
  /\ c \notin begun
  /\ (r = "SHUTDOWN" /\ ~open) \/ (r = "REMOTENOTCAPABLE" /\ ask[c].blocked)
  /\ begun' = begun \cup {c}
  /\ told' = IF Asked(c) THEN [told EXCEPT ![c] = <<r>>] ELSE told
  /\ UNCHANGED <<ask, peer, open, closed, due>>

\* The session never sends an operation that it blocks.
Transmit(c) ==
  /\ c \in begun /\ ~ask[c].blocked /\ peer[c] = "none"
  /\ peer' = [peer EXCEPT ![c] = "sent"]
  /\ UNCHANGED <<ask, begun, told, open, closed, due>>

Answer(c, k) ==
  /\ peer[c] = "sent" /\ peer' = [peer EXCEPT ![c] = k]
  /\ UNCHANGED <<ask, begun, told, open, closed, due>>

Tell(c, r) ==
  /\ c \in begun /\ Asked(c) /\ told[c] = <<>> /\ Justified(c, r)
  /\ told' = [told EXCEPT ![c] = <<r>>]
  /\ UNCHANGED <<ask, begun, peer, open, closed, due>>

\* Time passes; it is never up for a call without a deadline.
Expire ==
  /\ \E cs \in SUBSET {c \in begun : ask[c].timeout > 0} : due' = due \cup cs
  /\ UNCHANGED <<ask, begun, told, peer, open, closed>>

Close == open' = FALSE /\ closed' = TRUE /\ UNCHANGED <<ask, begun, told, peer, due>>
Reopen == open' = TRUE /\ UNCHANGED <<ask, begun, told, peer, closed, due>>

Next ==
  \/ \E c \in Calls : Accept(c) \/ Transmit(c)
  \/ \E c \in Calls, r \in {"SHUTDOWN", "REMOTENOTCAPABLE"} : Refuse(c, r)
  \/ \E c \in Calls, k \in Answers : Answer(c, k)
  \/ \E c \in Calls : \E r \in {"NOERROR", "ERROR_VALUE", "REJECT", "DECODE_FAILED", "TIMEOUT",
                                "SHUTDOWN", "TRANSPORTFAILED"} : Tell(c, r)
  \/ Expire
  \/ Close
  \/ Reopen

Spec == Init /\ [][Next]_vars
=============================================================================
