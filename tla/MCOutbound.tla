----------------------------- MODULE MCOutbound -----------------------------
(* Small instances of OutboundInvoke. *)
EXTENDS OutboundInvoke, TLC

Ask(how, timeout) == [how |-> how, timeout |-> timeout, blocked |-> FALSE]
Blocked == [how |-> "async", timeout |-> 1, blocked |-> TRUE]

\* Two calls, each of any kind: with and without a deadline, fire-and-forget,
\* an event, and an operation the session blocks.
AnyKind ==
  {Ask("sync", 1), Ask("sync", 0), Ask("async", 1), Ask("async", 0), Ask("event", 0), Blocked}
AnyPair == [Calls -> AnyKind]

\* Two waiting calls, an event next to one, an asynchronous call next to a
\* blocked one, and two asynchronous calls that share the watchdog.
Pairs ==
  {"c1" :> Ask("sync", 1)  @@ "c2" :> Ask("sync", -1),
   "c1" :> Ask("event", 0) @@ "c2" :> Ask("sync", -1),
   "c1" :> Ask("async", 1) @@ "c2" :> Blocked,
   "c1" :> Ask("async", 1) @@ "c2" :> Ask("async", 1)}

\* Synchronous calls with and without a deadline.
AllSync == [Calls -> {Ask("sync", 1), Ask("sync", -1)}]

\* One pause, and none when both calls are asynchronous and are made: a pause
\* meets one asynchronous call in every place all the same.
PauseUnlessShared ==
  [a \in Asks |-> IF \A c \in Calls : a[c].how = "async" /\ ~a[c].blocked THEN 0 ELSE 1]

Symmetry == Permutations(Calls)
=============================================================================
