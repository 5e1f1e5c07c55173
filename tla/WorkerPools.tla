---------------------------- MODULE WorkerPools ----------------------------
(***************************************************************************)
(* The named worker pools of SnaccWorkerPools.cpp and the inbound half of  *)
(* SnaccROSEBase that uses them: a socket thread per stub hands an invoke  *)
(* to the pool or runs it itself, pool threads run handlers, a stub is     *)
(* paused, resumed and destroyed, the owner configures the pool and shuts  *)
(* it down.                                                                *)
(*                                                                         *)
(* One pool name is modelled.  A pool is a generation: Configure shuts the *)
(* current one down and installs the next, and threads that still hold the *)
(* old shared_ptr keep seeing the old state.  Pools of different names     *)
(* share nothing but the in-flight counts.  One step is one region under a *)
(* mutex, or one call of the application.  A condition variable is         *)
(* modelled by its waiters: notify moves them from "wait" to "woken".  The *)
(* deque of a pool is the set of its items with the ticket each drew when  *)
(* it was pushed: the front is the item with the smallest ticket.          *)
(***************************************************************************)
EXTENDS Integers, FiniteSets, Sequences

CONSTANTS
  Items,        \* the inbound invokes that may arrive
  Stubs,        \* the SnaccROSEBase objects that borrow the registry
  StubOf,       \* the stub an item arrives on
  Pooled,       \* items whose operation the configuration assigns to the pool
  Deadlined,    \* items that carry a positive timeout
  Workers,      \* names for the pool threads
  MaxConfigs,   \* bound on Configure calls: the generations are 1 .. MaxConfigs
  MaxThreads, MaxElements, \* limits of the pool, MaxElements = 0 is no limit
  IdleShrinks,  \* idleTimeout > 0
  RetireWorker, \* faultPolicy
  Faults,       \* a handler may throw
  MaxPauses,    \* bound on the pauses of each stub
  SerialShutdown \* the owner never shuts down while a stub drains, nor the reverse

Pools == 1 .. MaxConfigs
NoPool == 0
NoItem == "none"

ASSUME PoolAssumption ==
  /\ StubOf \in [Items -> Stubs]
  /\ Pooled \subseteq Items /\ Deadlined \subseteq Items /\ NoItem \notin Items
  /\ MaxConfigs \in Nat /\ MaxThreads \in Nat \ {0} /\ MaxElements \in Nat /\ MaxPauses \in Nat
  /\ {IdleShrinks, RetireWorker, Faults, SerialShutdown} \subseteq BOOLEAN
ASSUME WorkersAssumption == IsFiniteSet(Workers) /\ MaxThreads <= Cardinality(Workers)

VARIABLES
  current,   \* the generation in the registry maps, or NoPool
  configs,   \* generations installed so far
  stopping, queue, running, idle, live, \* per generation: SnaccWorkerPoolState
  ticket, tickets, \* per item: its place in the order of pushes; pushes so far
  wpool, wpc, witem, \* per thread: its generation, where it is, its WorkItem
  inflight,  \* per stub: handlers popped and not returned
  gate,      \* per stub: m_bProcessingAllowed
  ctl, pauses, \* per stub: the thread that pauses or destroys it
  rpc, ritem, rpool, \* per stub: the socket thread
  opc, opool, oitems, again, \* the owner inside Shutdown, called by Configure or not
  arrived,   \* items received so far
  ends       \* per item: how it ended; a second entry would be a second completion

fifoVars  == <<ticket, tickets>>
poolVars  == <<stopping, queue, running, idle, live, fifoVars>>
wVars     == <<wpool, wpc, witem>>
stubVars  == <<gate, ctl, pauses>>
recvVars  == <<rpc, ritem, rpool, arrived>>
ownerVars == <<current, configs, opc, opool, oitems, again>>
vars == <<poolVars, wVars, inflight, stubVars, recvVars, ownerVars, ends>>

-----------------------------------------------------------------------------
(* State *)

Init ==
  /\ current = NoPool /\ configs = 0
  /\ stopping = [p \in Pools |-> FALSE] /\ queue = [p \in Pools |-> {}]
  /\ ticket = [i \in Items |-> 0] /\ tickets = 0
  /\ running = [p \in Pools |-> 0] /\ idle = [p \in Pools |-> 0] /\ live = [p \in Pools |-> 0]
  /\ wpool = [w \in Workers |-> NoPool] /\ wpc = [w \in Workers |-> "none"]
  /\ witem = [w \in Workers |-> NoItem]
  /\ inflight = [s \in Stubs |-> 0]
  /\ gate = [s \in Stubs |-> TRUE] /\ ctl = [s \in Stubs |-> "open"]
  /\ pauses = [s \in Stubs |-> 0]
  /\ rpc = [s \in Stubs |-> "idle"] /\ ritem = [s \in Stubs |-> NoItem]
  /\ rpool = [s \in Stubs |-> NoPool]
  /\ opc = "idle" /\ opool = NoPool /\ oitems = {} /\ again = FALSE
  /\ arrived = {} /\ ends = [i \in Items |-> <<>>]

\* A waiting thread is counted idle until it holds the mutex again.
Waiting == {"wait", "waitfor"}
Woken == {"woken", "wokenfor", "timedout"}
Inside == {"popped", "cleared", "handler", "reply", "faulted", "left"}

End(i, how) == ends' = [ends EXCEPT ![i] = Append(@, how)]
First(is) == CHOOSE i \in is : \A j \in is : ticket[i] <= ticket[j]
Threads(p) == {w \in Workers : wpool[w] = p}
MayStart == {w \in Workers : wpc[w] = "none"}

\* The condition both waits of WorkerMain test.
WorkOrStop(p) == stopping[p] \/ queue[p] # {}

\* Mutants of the two notifications: nobody is woken.
NotifyNone(p, at) == at
NotifyNobody(p, at) == {at}

NotifyAll(p, at) ==
  [w \in Workers |-> IF wpool[w] # p THEN at[w]
                     ELSE IF at[w] = "wait" THEN "woken"
                     ELSE IF at[w] = "waitfor" THEN "wokenfor" ELSE at[w]]

\* What notify_one may make of the places at of the threads.
NotifyOne(p, at) ==
  LET blocked == {w \in Workers : wpool[w] = p /\ at[w] \in Waiting} IN
  IF blocked = {} THEN {at}
  ELSE {[at EXCEPT ![w] = IF @ = "wait" THEN "woken" ELSE "wokenfor"] : w \in blocked}

\* EnsureWorker, with the counters as the caller's critical section left them:
\* start a thread only when none is counted idle, the cap allows it and there
\* is work.
NeedsWorker(p, q, l) == ~stopping[p] /\ l < MaxThreads /\ idle[p] = 0 /\ q # {}

-----------------------------------------------------------------------------
(* The pool threads: WorkerMain *)

\* Lock, find nothing to do, block.  Above the floor the wait has a time limit.
WorkerWait(w) ==
  LET p == wpool[w] IN
  /\ wpc[w] \in {"start", "woken", "wokenfor"} /\ ~WorkOrStop(p)
  /\ idle' = [idle EXCEPT ![p] = IF wpc[w] = "start" THEN @ + 1 ELSE @]
  /\ wpc' = [wpc EXCEPT ![w] =
               IF @ = "start" THEN IF live[p] > 1 /\ IdleShrinks THEN "waitfor" ELSE "wait"
               ELSE IF @ = "woken" THEN "wait" ELSE "waitfor"]
  /\ UNCHANGED <<fifoVars, stopping, queue, running, live, wpool, witem, inflight, stubVars,
                 recvVars, ownerVars, ends>>

WorkerTimeout(w) ==
  /\ wpc[w] \in {"waitfor", "wokenfor"}
  /\ wpc' = [wpc EXCEPT ![w] = "timedout"]
  /\ UNCHANGED <<poolVars, wpool, witem, inflight, stubVars, recvVars, ownerVars, ends>>

\* The thread holds the mutex and its wait is over.
Awake(w) ==
  \/ wpc[w] = "timedout"
  \/ wpc[w] \in {"start", "woken", "wokenfor"} /\ WorkOrStop(wpool[w])

\* Mutant: a thread that did not wait is taken off the idle ones too.
IdleAlwaysDecremented(w) == idle[wpool[w]] - 1

\* idleWorkers once the wait is over.
IdleAfter(w) == idle[wpool[w]] - (IF wpc[w] = "start" THEN 0 ELSE 1)

\* Shutdown with nothing left to run.
WorkerStop(w) ==
  LET p == wpool[w] IN
  /\ Awake(w) /\ stopping[p] /\ queue[p] = {}
  /\ idle' = [idle EXCEPT ![p] = IdleAfter(w)] /\ live' = [live EXCEPT ![p] = @ - 1]
  /\ wpc' = NotifyAll(p, [wpc EXCEPT ![w] = "none"]) /\ wpool' = [wpool EXCEPT ![w] = NoPool]
  /\ UNCHANGED <<fifoVars, stopping, queue, running, witem, inflight, stubVars, recvVars,
                 ownerVars, ends>>

\* Mutants: the floor thread leaves too, or a thread leaves uncounted.
FloorExits(w) ==
  LET p == wpool[w] IN
  /\ Awake(w) /\ ~stopping[p] /\ queue[p] = {}
  /\ idle' = [idle EXCEPT ![p] = IdleAfter(w)] /\ live' = [live EXCEPT ![p] = @ - 1]
  /\ wpc' = [wpc EXCEPT ![w] = "none"] /\ wpool' = [wpool EXCEPT ![w] = NoPool]
  /\ UNCHANGED <<fifoVars, stopping, queue, running, witem, inflight, stubVars, recvVars,
                 ownerVars, ends>>
ExitUncounted(w) ==
  LET p == wpool[w] IN
  /\ Awake(w) /\ ~stopping[p] /\ queue[p] = {} /\ live[p] > 1
  /\ idle' = [idle EXCEPT ![p] = IdleAfter(w)]
  /\ wpc' = [wpc EXCEPT ![w] = "none"] /\ wpool' = [wpool EXCEPT ![w] = NoPool]
  /\ UNCHANGED <<fifoVars, stopping, queue, running, live, witem, inflight, stubVars, recvVars,
                 ownerVars, ends>>

\* The idle time is over: leave, unless this is the floor thread.
ExitIdleWorker(w) ==
  LET p == wpool[w] IN
  /\ Awake(w) /\ ~stopping[p] /\ queue[p] = {}
  /\ idle' = [idle EXCEPT ![p] = IdleAfter(w)]
  /\ IF live[p] > 1
     THEN /\ live' = [live EXCEPT ![p] = @ - 1]
          /\ wpc' = [wpc EXCEPT ![w] = "none"] /\ wpool' = [wpool EXCEPT ![w] = NoPool]
     ELSE wpc' = [wpc EXCEPT ![w] = "start"] /\ UNCHANGED <<live, wpool>>
  /\ UNCHANGED <<fifoVars, stopping, queue, running, witem, inflight, stubVars, recvVars,
                 ownerVars, ends>>

\* Take the front item and count it for its stub under the same lock.
WorkerPop(w) ==
  LET p == wpool[w]
      i == First(queue[p]) IN
  /\ Awake(w) /\ queue[p] # {}
  /\ idle' = [idle EXCEPT ![p] = IdleAfter(w)] /\ running' = [running EXCEPT ![p] = @ + 1]
  /\ queue' = [queue EXCEPT ![p] = @ \ {i}]
  /\ witem' = [witem EXCEPT ![w] = i] /\ wpc' = [wpc EXCEPT ![w] = "popped"]
  /\ inflight' = [inflight EXCEPT ![StubOf[i]] = @ + 1]
  /\ UNCHANGED <<fifoVars, stopping, live, wpool, stubVars, recvVars, ownerVars, ends>>

\* Reject or drop without the handler ...
WorkerRefuse(w) ==
  LET i == witem[w] IN
  /\ wpc[w] = "popped"
  /\ \/ (stopping[wpool[w]] \/ ~gate[StubOf[i]]) /\ End(i, "shutdown")
     \/ ~stopping[wpool[w]] /\ gate[StubOf[i]] /\ i \in Deadlined /\ End(i, "expired")
  /\ wpc' = [wpc EXCEPT ![w] = "left"]
  /\ UNCHANGED <<poolVars, wpool, witem, inflight, stubVars, recvVars, ownerVars>>

\* Mutant: the session is not looked at.
RunUnchecked(w) ==
  /\ wpc[w] = "popped" /\ ~stopping[wpool[w]] /\ wpc' = [wpc EXCEPT ![w] = "cleared"]
  /\ UNCHANGED <<poolVars, wpool, witem, inflight, stubVars, recvVars, ownerVars, ends>>

\* ... or run it: first the checks, of the pool's thread and of OnInvokeMessage, ...
WorkerRun(w) ==
  /\ wpc[w] = "popped" /\ ~stopping[wpool[w]] /\ gate[StubOf[witem[w]]]
  /\ wpc' = [wpc EXCEPT ![w] = "cleared"]
  /\ UNCHANGED <<poolVars, wpool, witem, inflight, stubVars, recvVars, ownerVars, ends>>

\* ... then the call of the handler, whatever the gate says by now.
WorkerStart(w) ==
  /\ wpc[w] = "cleared" /\ wpc' = [wpc EXCEPT ![w] = "handler"]
  /\ UNCHANGED <<poolVars, wpool, witem, inflight, stubVars, recvVars, ownerVars, ends>>

\* The handler returned.  A session closed meanwhile, or a stopping pool, drops the reply.
WorkerReturn(w) ==
  LET i == witem[w] IN
  /\ wpc[w] = "handler"
  /\ IF gate[StubOf[i]] /\ ~stopping[wpool[w]]
     THEN wpc' = [wpc EXCEPT ![w] = "reply"] /\ UNCHANGED ends
     ELSE wpc' = [wpc EXCEPT ![w] = "left"] /\ End(i, "dropped")
  /\ UNCHANGED <<poolVars, wpool, witem, inflight, stubVars, recvVars, ownerVars>>

WorkerReply(w) ==
  /\ wpc[w] = "reply"
  /\ wpc' = [wpc EXCEPT ![w] = "left"] /\ End(witem[w], "replied")
  /\ UNCHANGED <<poolVars, wpool, witem, inflight, stubVars, recvVars, ownerVars>>

\* The handler threw something that is not a SnaccException: no reply.
WorkerThrow(w) ==
  /\ Faults /\ wpc[w] = "handler"
  /\ wpc' = [wpc EXCEPT ![w] = IF RetireWorker THEN "faulted" ELSE "left"]
  /\ End(witem[w], "threw")
  /\ UNCHANGED <<poolVars, wpool, witem, inflight, stubVars, recvVars, ownerVars>>

\* NoteInflight(stub, -1).
WorkerLeave(w) ==
  /\ wpc[w] \in {"left", "faulted"}
  /\ wpc' = [wpc EXCEPT ![w] = IF @ = "left" THEN "relock" ELSE "retire"]
  /\ witem' = [witem EXCEPT ![w] = NoItem]
  /\ inflight' = [inflight EXCEPT ![StubOf[witem[w]]] = @ - 1]
  /\ UNCHANGED <<poolVars, wpool, stubVars, recvVars, ownerVars, ends>>

WorkerAgain(w) ==
  /\ wpc[w] = "relock"
  /\ running' = [running EXCEPT ![wpool[w]] = @ - 1]
  /\ wpc' = [wpc EXCEPT ![w] = "start"]
  /\ UNCHANGED <<fifoVars, stopping, queue, idle, live, wpool, witem, inflight, stubVars,
                 recvVars, ownerVars, ends>>

\* This thread ends.  EnsureWorker starts a replacement when there is work, a
\* thread that takes this one's name here.
WorkerRetire(w) ==
  LET p == wpool[w]
      replaced == NeedsWorker(p, queue[p], live[p] - 1) IN
  /\ wpc[w] = "retire"
  /\ running' = [running EXCEPT ![p] = @ - 1]
  /\ live' = [live EXCEPT ![p] = IF replaced THEN @ ELSE @ - 1]
  /\ wpc' = [wpc EXCEPT ![w] = IF replaced THEN "start" ELSE "none"]
  /\ wpool' = [wpool EXCEPT ![w] = IF replaced THEN p ELSE NoPool]
  /\ UNCHANGED <<fifoVars, stopping, queue, idle, witem, inflight, stubVars, recvVars,
                 ownerVars, ends>>

-----------------------------------------------------------------------------
(* The socket thread of a stub: OnInvokeMessage and Enqueue *)

\* ResolveWorkerPool and the registry lookup of Enqueue: the two look in the
\* same registry and either failing leaves the invoke on this thread.
Receive(i) ==
  LET s == StubOf[i] IN
  /\ i \notin arrived /\ rpc[s] = "idle" /\ ctl[s] \notin {"destroy", "drained", "dead"}
  /\ arrived' = arrived \cup {i} /\ ritem' = [ritem EXCEPT ![s] = i]
  /\ rpc' = [rpc EXCEPT ![s] = IF i \in Pooled /\ current # NoPool THEN "push" ELSE "inline"]
  /\ rpool' = [rpool EXCEPT ![s] = current]
  /\ UNCHANGED <<poolVars, wVars, inflight, stubVars, ownerVars, ends>>

\* Mutant: items inside a handler do not count.
FullByQueue(p) == MaxElements > 0 /\ Cardinality(queue[p]) >= MaxElements

\* The depth check of Enqueue.
Full(p) == MaxElements > 0 /\ Cardinality(queue[p]) + running[p] >= MaxElements

Idle(s) == rpc' = [rpc EXCEPT ![s] = "idle"] /\ ritem' = [ritem EXCEPT ![s] = NoItem]

\* The pool refuses: it stops, or it is full.
EnqueueRefused(s) ==
  LET p == rpool[s] IN
  /\ rpc[s] = "push"
  /\ stopping[p] \/ Full(p)
  /\ End(ritem[s], IF stopping[p] THEN "shutdown" ELSE "queueFull")
  /\ Idle(s)
  /\ UNCHANGED <<poolVars, wVars, inflight, stubVars, rpool, arrived, ownerVars>>

\* Append, start a thread when every one is busy, wake one waiter.
Enqueue(s) ==
  LET p == rpool[s]
      q == queue[p] \cup {ritem[s]} IN
  /\ rpc[s] = "push" /\ ~stopping[p] /\ ~Full(p)
  /\ queue' = [queue EXCEPT ![p] = q]
  /\ ticket' = [ticket EXCEPT ![ritem[s]] = tickets + 1] /\ tickets' = tickets + 1
  /\ IF NeedsWorker(p, q, live[p])
     THEN /\ live' = [live EXCEPT ![p] = @ + 1]
          /\ \E w \in MayStart : /\ wpc' = [wpc EXCEPT ![w] = "start"]
                                 /\ wpool' = [wpool EXCEPT ![w] = p]
     ELSE /\ wpc' \in NotifyOne(p, wpc)
          /\ UNCHANGED <<live, wpool>>
  /\ Idle(s)
  /\ UNCHANGED <<stopping, running, idle, witem, inflight, stubVars, rpool, arrived, ownerVars,
                 ends>>

\* The invoke runs on the socket thread: a closed session rejects it.
InlineRefuse(s) ==
  /\ rpc[s] = "inline" /\ ~gate[s]
  /\ End(ritem[s], "shutdown") /\ Idle(s)
  /\ UNCHANGED <<poolVars, wVars, inflight, stubVars, rpool, arrived, ownerVars>>

InlineRun(s) ==
  /\ rpc[s] = "inline" /\ gate[s]
  /\ rpc' = [rpc EXCEPT ![s] = "cleared"]
  /\ UNCHANGED <<poolVars, wVars, inflight, stubVars, ritem, rpool, arrived, ownerVars, ends>>

\* No pause waits for this thread: the session may have closed since the check.
InlineStart(s) ==
  /\ rpc[s] = "cleared" /\ rpc' = [rpc EXCEPT ![s] = "handler"]
  /\ UNCHANGED <<poolVars, wVars, inflight, stubVars, ritem, rpool, arrived, ownerVars, ends>>

InlineReturn(s) ==
  /\ rpc[s] = "handler" /\ gate[s]
  /\ rpc' = [rpc EXCEPT ![s] = "reply"]
  /\ UNCHANGED <<poolVars, wVars, inflight, stubVars, ritem, rpool, arrived, ownerVars, ends>>

\* The reply goes out, or there is none: the session closed, or the handler threw.
InlineEnd(s, how) ==
  /\ \/ rpc[s] = "reply" /\ how = "replied"
     \/ rpc[s] = "handler" /\ ~gate[s] /\ how = "dropped"
     \/ rpc[s] = "handler" /\ Faults /\ how = "threw"
  /\ End(ritem[s], how) /\ Idle(s)
  /\ UNCHANGED <<poolVars, wVars, inflight, stubVars, rpool, arrived, ownerVars>>

-----------------------------------------------------------------------------
(* Pause, resume and destroy a stub: RejectQueuedAndWait *)

DrainAllowed == SerialShutdown => opc = "idle"

PauseRoseProcessing(s) ==
  /\ ctl[s] \in {"open", "closed"} /\ pauses[s] < MaxPauses /\ DrainAllowed
  /\ gate' = [gate EXCEPT ![s] = FALSE] /\ ctl' = [ctl EXCEPT ![s] = "pause"]
  /\ pauses' = [pauses EXCEPT ![s] = @ + 1]
  /\ UNCHANGED <<poolVars, wVars, inflight, recvVars, ownerVars, ends>>

\* The destructor pauses too.  The socket thread must have left the stub.
Destroy(s) ==
  /\ ctl[s] \in {"open", "closed"} /\ rpc[s] = "idle" /\ DrainAllowed
  /\ gate' = [gate EXCEPT ![s] = FALSE] /\ ctl' = [ctl EXCEPT ![s] = "destroy"]
  /\ UNCHANGED <<poolVars, wVars, inflight, pauses, recvVars, ownerVars, ends>>

\* Mutant: the queue is left alone.
RejectNothing(s) ==
  /\ ctl[s] \in {"pause", "destroy"}
  /\ ctl' = [ctl EXCEPT ![s] = IF @ = "pause" THEN "paused" ELSE "drained"]
  /\ UNCHANGED <<poolVars, wVars, inflight, gate, pauses, recvVars, ownerVars, ends>>

\* Take the stub's items out of the queues of the registry's pools and reject
\* them on this thread, outside the locks.
RejectQueued(s) ==
  LET mine == {i \in UNION {queue[p] : p \in {current} \ {NoPool}} : StubOf[i] = s} IN
  /\ ctl[s] \in {"pause", "destroy"}
  /\ ctl' = [ctl EXCEPT ![s] = IF @ = "pause" THEN "paused" ELSE "drained"]
  /\ queue' = [p \in Pools |-> IF p = current THEN queue[p] \ mine ELSE queue[p]]
  /\ ends' = [i \in Items |-> IF i \in mine THEN Append(ends[i], "shutdown") ELSE ends[i]]
  /\ UNCHANGED <<fifoVars, stopping, running, idle, live, wVars, inflight, gate, pauses, recvVars,
                 ownerVars>>

\* Mutant: the pause does not wait.
AwaitNothing(s) ==
  /\ ctl[s] \in {"paused", "drained"}
  /\ ctl' = [ctl EXCEPT ![s] = IF @ = "paused" THEN "closed" ELSE "dead"]
  /\ UNCHANGED <<poolVars, wVars, inflight, gate, pauses, recvVars, ownerVars, ends>>

\* Wait until the stub's in-flight count is gone.
AwaitInflight(s) ==
  /\ ctl[s] \in {"paused", "drained"} /\ inflight[s] = 0
  /\ ctl' = [ctl EXCEPT ![s] = IF @ = "paused" THEN "closed" ELSE "dead"]
  /\ UNCHANGED <<poolVars, wVars, inflight, gate, pauses, recvVars, ownerVars, ends>>

ResumeRoseProcessing(s) ==
  /\ ctl[s] = "closed"
  /\ gate' = [gate EXCEPT ![s] = TRUE] /\ ctl' = [ctl EXCEPT ![s] = "open"]
  /\ UNCHANGED <<poolVars, wVars, inflight, pauses, recvVars, ownerVars, ends>>

-----------------------------------------------------------------------------
(* The owner: Configure, Shutdown and JoinPool *)

StopAllowed == SerialShutdown => \A s \in Stubs : ctl[s] \in {"open", "closed", "dead"}

\* Take the pool out of the registry maps.  Configure does the same first and
\* installs the next set afterwards.
Shutdown(reconfigure) ==
  /\ opc = "idle" /\ current # NoPool /\ StopAllowed
  /\ reconfigure => configs < MaxConfigs
  /\ current' = NoPool /\ opool' = current /\ opc' = "stop" /\ again' = reconfigure
  /\ UNCHANGED <<poolVars, wVars, inflight, stubVars, recvVars, configs, oitems, ends>>

\* Mutant: the queue is cleared and nobody is told.
JoinDiscards ==
  /\ opc = "stop" /\ opc' = "reject"
  /\ stopping' = [stopping EXCEPT ![opool] = TRUE] /\ queue' = [queue EXCEPT ![opool] = {}]
  /\ wpc' = NotifyAll(opool, wpc)
  /\ UNCHANGED <<fifoVars, running, idle, live, wpool, witem, inflight, stubVars, recvVars,
                 current, configs, opool, oitems, again, ends>>

\* JoinPool: mark, take the queue, wake everybody.
JoinStop ==
  /\ opc = "stop"
  /\ stopping' = [stopping EXCEPT ![opool] = TRUE]
  /\ oitems' = queue[opool] /\ queue' = [queue EXCEPT ![opool] = {}]
  /\ wpc' = NotifyAll(opool, wpc)
  /\ opc' = "reject"
  /\ UNCHANGED <<fifoVars, running, idle, live, wpool, witem, inflight, stubVars, recvVars,
                 current, configs, opool, again, ends>>

\* Reject what was queued, outside the mutex, one callback into a stub at a time.
JoinReject ==
  /\ opc = "reject" /\ oitems # {}
  /\ End(First(oitems), "shutdown") /\ oitems' = oitems \ {First(oitems)}
  /\ UNCHANGED <<poolVars, wVars, inflight, stubVars, recvVars, current, configs, opc, opool,
                 again>>

\* Mutant: the threads are not waited for.
JoinNobody ==
  /\ opc = "reject" /\ oitems = {}
  /\ opc' = (IF again THEN "install" ELSE "idle") /\ opool' = NoPool
  /\ UNCHANGED <<poolVars, wVars, inflight, stubVars, recvVars, current, configs, oitems, again,
                 ends>>

\* Join the threads.
JoinThreads ==
  /\ opc = "reject" /\ oitems = {} /\ Threads(opool) = {}
  /\ opc' = IF again THEN "install" ELSE "idle"
  /\ opool' = NoPool
  /\ UNCHANGED <<poolVars, wVars, inflight, stubVars, recvVars, current, configs, oitems, again,
                 ends>>

\* The rest of Configure: put the new pool into the maps and start its floor
\* thread.  The first Configure finds nothing to shut down.
Configure ==
  /\ opc = "install" \/ (opc = "idle" /\ current = NoPool /\ configs < MaxConfigs)
  /\ configs' = configs + 1 /\ current' = configs + 1
  /\ live' = [live EXCEPT ![configs + 1] = @ + 1]
  /\ \E w \in MayStart : /\ wpc' = [wpc EXCEPT ![w] = "start"]
                         /\ wpool' = [wpool EXCEPT ![w] = configs + 1]
  /\ opc' = "idle" /\ again' = FALSE
  /\ UNCHANGED <<fifoVars, stopping, queue, running, idle, witem, inflight, stubVars, recvVars,
                 opool, oitems, ends>>

-----------------------------------------------------------------------------
(* Specification *)

WorkerStep(w) ==
  \/ WorkerWait(w) \/ WorkerStop(w) \/ ExitIdleWorker(w) \/ WorkerPop(w)
  \/ WorkerRefuse(w) \/ WorkerRun(w) \/ WorkerStart(w) \/ WorkerReturn(w) \/ WorkerReply(w)
  \/ WorkerThrow(w)
  \/ WorkerLeave(w) \/ WorkerAgain(w) \/ WorkerRetire(w)

ReceiverStep(s) ==
  \/ EnqueueRefused(s) \/ Enqueue(s) \/ InlineRefuse(s) \/ InlineRun(s) \/ InlineStart(s)
  \/ InlineReturn(s)
  \/ \E how \in {"replied", "dropped", "threw"} : InlineEnd(s, how)

DrainStep(s) == RejectQueued(s) \/ AwaitInflight(s)

OwnerStep == JoinStop \/ JoinReject \/ JoinThreads \/ (opc = "install" /\ Configure)

Next ==
  \/ \E w \in Workers : WorkerStep(w) \/ WorkerTimeout(w)
  \/ \E i \in Items : Receive(i)
  \/ \E s \in Stubs : \/ ReceiverStep(s) \/ DrainStep(s)
                      \/ PauseRoseProcessing(s) \/ Destroy(s) \/ ResumeRoseProcessing(s)
  \/ Configure \/ OwnerStep \/ \E reconfigure \in BOOLEAN : Shutdown(reconfigure)

Spec == Init /\ [][Next]_vars

\* Threads that can run do run, and a handler returns.  Nobody has to send,
\* pause, resume, destroy, configure or shut down, and an idle thread need not
\* time out.
Fairness ==
  /\ \A w \in Workers : WF_vars(WorkerStep(w))
  /\ \A s \in Stubs : WF_vars(ReceiverStep(s)) /\ WF_vars(DrainStep(s))
  /\ WF_vars(OwnerStep)

FairSpec == Spec /\ Fairness
-----------------------------------------------------------------------------
(* Safety *)

WorkerLabels == {"none", "start", "wait", "waitfor", "woken", "wokenfor", "timedout", "popped",
                 "cleared", "handler", "reply", "faulted", "left", "relock", "retire"}
Hows == {"replied", "dropped", "threw", "shutdown", "queueFull", "expired"}

CounterTypes ==
  /\ running \in [Pools -> Nat] /\ idle \in [Pools -> Nat] /\ live \in [Pools -> Nat]
  /\ inflight \in [Stubs -> Nat]

QueueTypes ==
  /\ stopping \in [Pools -> BOOLEAN] /\ queue \in [Pools -> SUBSET Items]
  /\ ticket \in [Items -> Nat] /\ tickets \in Nat

ThreadTypes ==
  /\ wpool \in [Workers -> Pools \cup {NoPool}] /\ wpc \in [Workers -> WorkerLabels]
  /\ witem \in [Workers -> Items \cup {NoItem}]

StubTypes ==
  /\ gate \in [Stubs -> BOOLEAN] /\ pauses \in [Stubs -> Nat]
  /\ ctl \in [Stubs -> {"open", "pause", "paused", "closed", "destroy", "drained", "dead"}]
  /\ rpc \in [Stubs -> {"idle", "push", "inline", "cleared", "handler", "reply"}]
  /\ ritem \in [Stubs -> Items \cup {NoItem}] /\ rpool \in [Stubs -> Pools \cup {NoPool}]

OwnerTypes ==
  /\ current \in Pools \cup {NoPool} /\ configs \in 0 .. MaxConfigs
  /\ opc \in {"idle", "stop", "reject", "install"} /\ opool \in Pools \cup {NoPool}
  /\ oitems \subseteq Items /\ again \in BOOLEAN

EndTypes == arrived \subseteq Items /\ ends \in [Items -> Seq(Hows)]

\* Every variable has the type of the field it stands for; the counters, all
\* of them size_t and int fields that are incremented and decremented, are
\* never negative.
TypeOK ==
  CounterTypes /\ QueueTypes /\ ThreadTypes /\ StubTypes /\ OwnerTypes /\ EndTypes

\* Threads of p at one of the places ls.
At(p, ls) == {w \in Workers : wpool[w] = p /\ wpc[w] \in ls}

\* The four counters of the pool and the in-flight map say what the threads
\* are doing, whatever exits, timeouts, retirements and wake-ups have
\* happened: a lost decrement would leave a pause or a full queue waiting for
\* ever (idleWorkers, liveWorkers, running, inflight).
CountersExact ==
  /\ \A p \in Pools :
       /\ idle[p] = Cardinality(At(p, Waiting \cup Woken))
       /\ live[p] = Cardinality(Threads(p))
       /\ running[p] = Cardinality(At(p, Inside \cup {"relock", "retire"}))
  /\ \A s \in Stubs :
       inflight[s] = Cardinality({w \in Workers : wpc[w] \in Inside /\ StubOf[witem[w]] = s})

\* Waiting items plus items inside a handler never exceed maxElements, also
\* while a worker is between the two (Enqueue, WorkerMain).
DepthBound ==
  MaxElements > 0 => \A p \in Pools : Cardinality(queue[p]) + running[p] <= MaxElements

\* The threads of a pool never exceed maxThreads (EnsureWorker, WorkerMain).
ThreadBound == \A p \in Pools : Cardinality(Threads(p)) <= MaxThreads

\* Both limits of SnaccWorkerPoolConfig hold while enqueues, wake-ups, idle
\* exits and retirements race.
LimitsHold == DepthBound /\ ThreadBound

\* A pool that does not retire threads keeps its floor thread as long as it
\* is installed, however idle exits race (ExitIdleWorker).
FloorStays == ~RetireWorker /\ current # NoPool => Threads(current) # {}

\* No wake-up is lost: while there is work, some thread of the pool is awake
\* or will come back for it, so the item is not left to a thread that sleeps
\* (Enqueue's notify_one, the waits of WorkerMain, EnsureWorker on retirement).
WorkNotStranded ==
  \A p \in Pools : queue[p] # {} =>
    \E w \in Threads(p) : wpc[w] \notin Waiting

\* When PauseRoseProcessing has returned no pool thread is inside a handler
\* of the stub, about to call one, or about to send its reply (RejectQueuedAndWait).
PauseDrains ==
  \A s \in Stubs : ctl[s] \in {"closed", "dead"} =>
    \A w \in Workers : wpc[w] \in {"cleared", "handler", "reply"} => StubOf[witem[w]] # s

\* A destroyed stub is not called back: none of its items is queued, with a
\* pool thread, or with the thread that shuts the pool down
\* (~SnaccROSEBase, RejectQueuedAndWait, JoinPool).
DeadStubUntouched ==
  \A s \in Stubs : ctl[s] = "dead" =>
    \A i \in Items : StubOf[i] = s =>
      /\ i \notin oitems /\ \A p \in Pools : i \notin queue[p]
      /\ \A w \in Workers : wpc[w] \in Inside => witem[w] # i

\* When Shutdown has returned, or Configure has replaced a pool, nothing of
\* the old pool is left: no thread, no item, and no item can get in
\* (Shutdown, JoinPool, Enqueue).
RetiredPoolEmpty ==
  \A p \in 1 .. configs : p # current /\ p # opool =>
    stopping[p] /\ Threads(p) = {} /\ queue[p] = {} /\ running[p] = 0

\* How far each invoke is, and which are on a pool thread that has let them in.
Cleared(i) == \/ \E w \in Workers : witem[w] = i /\ wpc[w] = "cleared"
              \/ \E s \in Stubs : ritem[s] = i /\ rpc[s] = "cleared"
Held(i) == \/ \E w \in Workers : witem[w] = i /\ wpc[w] \in {"handler", "reply"}
           \/ \E s \in Stubs : ritem[s] = i /\ rpc[s] \in {"handler", "reply"}

phase == [i \in Items |-> IF ends[i] # <<>> THEN "ended"
                          ELSE IF Held(i) THEN "running"
                          ELSE IF Cleared(i) THEN "admitted"
                          ELSE IF i \in arrived THEN "waiting" ELSE "new"]
onPool == {i \in Items :
             \E w \in Workers : witem[w] = i /\ wpc[w] \in {"cleared", "handler", "reply"}}

\* A session closes when the gate does and is closed when the pause has returned.
session == [s \in Stubs |-> CASE ctl[s] = "open" -> "open"
                              [] ctl[s] \in {"closed", "dead"} -> "closed"
                              [] OTHER -> "closing"]

Contract == INSTANCE InboundContract WITH phase <- phase, how <- ends, session <- session,
                                          onPool <- onPool

\* Socket threads, pool threads, pauses and shutdowns together keep the
\* promise of InboundContract: an invoke is let in only by an open session, its handler runs
\* at most once, it ends once, and a session closes behind the last handler of its pools.
KeepsContract == Contract!Spec

\* docs/rose-processing-gate.md:54 of a closed session: "An inbound invoke or event is not
\* delivered to the application handler. The caller gets a shutdown reject."
ClosedSessionRejects ==
  \A i \in Items :
    [](ctl[StubOf[i]] = "closed" /\ (\E p \in Pools : i \in queue[p]) => []~Held(i))

-----------------------------------------------------------------------------
(* Liveness *)

\* Every invoke that arrives comes to an end, through whatever it meets
\* (Enqueue, WorkerMain, JoinPool).
InvokesEnd == \A i \in Items : i \in arrived ~> ends[i] # <<>>

\* Who waits for the pool's threads does not wait for ever: a pause of a stub
\* returns (RejectQueuedAndWait), and so do Shutdown and Configure (JoinPool).
OwnersReturn ==
  /\ \A s \in Stubs : ctl[s] \in {"pause", "paused"} ~> ctl[s] = "closed"
  /\ opc # "idle" ~> opc = "idle"

=============================================================================
