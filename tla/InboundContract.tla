--------------------------- MODULE InboundContract ---------------------------
(***************************************************************************)
(* What a stub promises for an inbound invoke, whichever thread runs it:   *)
(* it is refused or its handler runs once, and it ends once.  Only an open *)
(* session lets an invoke in.  A session that closes is closed only when   *)
(* the pools have left the last handler they started or were about to      *)
(* start, so no handler starts on a pool thread of a closed session.  An   *)
(* invoke that the socket thread has let in is not waited for: its handler *)
(* may start, and run, on a closed session.                                *)
(***************************************************************************)
EXTENDS Sequences

CONSTANTS Items, Stubs, StubOf

VARIABLES
  phase,   \* of each invoke: new, waiting, admitted, running, ended
  how,     \* of each invoke: how it ended, once it has
  onPool,  \* the invokes that a pool thread has let in and not left
  session  \* of each stub: open, closing, closed

vars == <<phase, how, onPool, session>>

Init ==
  /\ phase = [i \in Items |-> "new"] /\ how = [i \in Items |-> <<>>] /\ onPool = {}
  /\ session = [s \in Stubs |-> "open"]

Move(i, from, to) ==
  /\ phase[i] = from /\ phase' = [phase EXCEPT ![i] = to]
  /\ UNCHANGED <<how, session>>

Arrive(i) == Move(i, "new", "waiting") /\ UNCHANGED onPool

Admit(i) ==
  /\ session[StubOf[i]] = "open"
  /\ Move(i, "waiting", "admitted")
  /\ onPool' \in {onPool, onPool \cup {i}}

Start(i) ==
  /\ i \in onPool => session[StubOf[i]] # "closed"
  /\ Move(i, "admitted", "running") /\ UNCHANGED onPool

Finish(is, h) ==
  /\ phase' = [i \in Items |-> IF i \in is THEN "ended" ELSE phase[i]]
  /\ how' = [i \in Items |-> IF i \in is THEN <<h>> ELSE how[i]]
  /\ onPool' = onPool \ is
  /\ UNCHANGED session

Return(i) ==
  /\ phase[i] = "running"
  /\ \E h \in {"replied", "dropped", "threw"} : Finish({i}, h)

\* Invokes of one stub that are refused together: a closing session refuses all that wait.
Refuse(s) ==
  \E is \in SUBSET {i \in Items : StubOf[i] = s /\ phase[i] = "waiting"},
     h \in {"shutdown", "queueFull", "expired"} : Finish(is, h)

Switch(s, from, to) ==
  /\ session[s] = from /\ session' = [session EXCEPT ![s] = to]
  /\ UNCHANGED <<phase, how, onPool>>

Close(s) == Switch(s, "open", "closing") \/ Switch(s, "closed", "closing")
Closed(s) == (\A i \in onPool : StubOf[i] # s) /\ Switch(s, "closing", "closed")
Reopen(s) == Switch(s, "closed", "open")

Next ==
  \/ \E i \in Items : Arrive(i) \/ Admit(i) \/ Start(i) \/ Return(i)
  \/ \E s \in Stubs : Refuse(s) \/ Close(s) \/ Closed(s) \/ Reopen(s)

Spec == Init /\ [][Next]_vars
=============================================================================
