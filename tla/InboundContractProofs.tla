----------------------- MODULE InboundContractProofs -----------------------
(***************************************************************************)
(* What becomes of an inbound invoke in WorkerPools, for every number of   *)
(* pools, threads, stubs and invokes.  The counters are exact              *)
(* (WorkerPoolsProofs).  From there: the life of a pool, in which no item  *)
(* is left to threads that sleep and nothing outlives the shutdown; the    *)
(* end of a stub, after which nobody calls it; and the one place each item *)
(* is at, from which it follows that WorkerPools implements                *)
(* InboundContract.                                                        *)
(***************************************************************************)
EXTENDS WorkerPoolsProofs

-----------------------------------------------------------------------------
(* The life of a pool *)

\* How far the owner is with the pool it takes down.
OwnerAt ==
  /\ opool = NoPool <=> opc \in {"idle", "install"}
  /\ opc # "idle" => current = NoPool
  /\ opool <= configs
  /\ opc # "reject" => oitems = {}

\* A generation is not used before it is installed, works while it is installed, takes
\* nothing once it stops, and has no thread once it is joined.
Life(p) ==
  /\ stopping[p] => queue[p] = {} /\ p # current /\ p <= configs
  /\ p <= configs /\ p # current /\ p # opool => stopping[p] /\ Threads(p) = {}
  /\ p = opool /\ opc = "reject" => stopping[p]
  /\ p > configs => queue[p] = {}

\* Threads that are awake, or on their way back to the queue.
Alert == {"start"} \cup Woken

\* While a thread of p sleeps there is an alert one for every item: each push into a
\* pool with a sleeper has woken one.
Covered(p) ==
  At(p, Waiting) # {} => Cardinality(queue[p]) <= Cardinality(At(p, Alert))

\* Somebody of p is not asleep while there is work.
Attended(p) == queue[p] # {} => \E w \in Threads(p) : wpc[w] \notin Waiting

\* Threads end after a fault only where the policy says so.
NoRetirement == ~RetireWorker => \A w \in Workers : wpc[w] \notin {"faulted", "retire"}

LifeInv ==
  /\ OwnerAt /\ NoRetirement /\ FloorStays
  /\ \A p \in Pools : Life(p) /\ Covered(p) /\ Attended(p)

-----------------------------------------------------------------------------
(* The end of a stub *)

\* The owner and a draining stub exclude each other.
Serial == \A s \in Stubs : ctl[s] \in {"pause", "paused", "destroy", "drained"} => opc = "idle"

\* A stub that is destroyed: its socket thread has left, then its items leave the queues,
\* then its handlers return.
Leaving(s) ==
  /\ ctl[s] \in {"destroy", "drained", "dead"} => rpc[s] = "idle"
  /\ ctl[s] \in {"drained", "dead"} => \A p \in Pools : \A i \in queue[p] : StubOf[i] # s
  /\ ctl[s] = "dead" => /\ \A i \in oitems : StubOf[i] # s
                        /\ \A w \in Workers : wpc[w] \in Inside => StubOf[witem[w]] # s

EndInv == Serial /\ \A s \in Stubs : Leaving(s)

-----------------------------------------------------------------------------
(* Where an item is *)

WithReceiver(i, s) == rpc[s] # "idle" /\ ritem[s] = i
WithThread(i, w) == wpc[w] \in {"popped", "cleared", "handler", "reply"} /\ witem[w] = i

\* Somebody still has to end i.
Somewhere(i) ==
  \/ i \in oitems \/ \E p \in Pools : i \in queue[p]
  \/ \E s \in Stubs : WithReceiver(i, s)
  \/ \E w \in Workers : WithThread(i, w)

\* An item that somebody still has to end has arrived and has not ended, and it is at one
\* place only.
Placed(i) ==
  /\ Somewhere(i) => i \in arrived /\ ends[i] = <<>>
  /\ i \notin arrived => ends[i] = <<>>
  /\ \A s \in Stubs : WithReceiver(i, s) => StubOf[i] = s
  /\ i \in oitems => /\ \A p \in Pools : i \notin queue[p]
                     /\ \A s \in Stubs : ~WithReceiver(i, s)
                     /\ \A w \in Workers : ~WithThread(i, w)
  /\ \A p \in Pools : i \in queue[p] => /\ \A q \in Pools : i \in queue[q] => q = p
                                        /\ \A s \in Stubs : ~WithReceiver(i, s)
                                        /\ \A w \in Workers : ~WithThread(i, w)
  /\ \A w \in Workers : WithThread(i, w) => /\ \A v \in Workers : WithThread(i, v) => v = w
                                            /\ \A s \in Stubs : ~WithReceiver(i, s)

PlaceInv == \A i \in Items : Placed(i)

-----------------------------------------------------------------------------
(* The life of a pool is inductive *)

\* Only the owner moves through a shutdown.
LEMMA OwnerAtStep ==
  ASSUME TypeOK, Shape, OwnerAt, [Next]_vars
  PROVE  OwnerAt'
<1>0. OwnerTypes /\ configs \in Nat /\ opool \in Int
  BY PoolAssumption DEF TypeOK, OwnerTypes, Pools, NoPool
<1>1. CASE UNCHANGED ownerVars
  BY <1>1 DEF OwnerAt, ownerVars
<1>2. CASE JoinStop \/ JoinReject
  BY <1>2 DEF JoinStop, JoinReject, OwnerAt
<1>3. CASE JoinThreads
  BY <1>0, <1>3 DEF JoinThreads, OwnerAt, OwnerTypes, NoPool
<1>4. CASE Configure
  BY <1>0, <1>4 DEF Configure, OwnerAt, NoPool
<1>5. CASE \E reconfigure \in BOOLEAN : Shutdown(reconfigure)
  BY <1>0, <1>5 DEF Shutdown, OwnerAt, Shape, OwnerTypes, NoPool
<1> QED BY <1>1, <1>2, <1>3, <1>4, <1>5, OwnerSteps

\* A queue grows only in Enqueue, and only while its pool does not stop.
LEMMA QueueGrows ==
  ASSUME TypeOK, Shape, [Next]_vars, NEW p \in Pools, ~(queue'[p] \subseteq queue[p])
  PROVE  \E s \in Stubs : Enqueue(s) /\ p = rpool[s]
<1>0. QueueTypes
  BY DEF TypeOK
<1>1. ASSUME NEW s \in Stubs, Enqueue(s) PROVE p = rpool[s]
  BY <1>0, <1>1 DEF Enqueue, QueueTypes, Shape
<1>2. ASSUME NEW w \in Workers, WorkerPop(w) PROVE FALSE
  BY <1>0, <1>2 DEF WorkerPop, QueueTypes
<1>3. ASSUME NEW s \in Stubs, RejectQueued(s) PROVE FALSE
  BY <1>0, <1>3 DEF RejectQueued, QueueTypes
<1>4. ASSUME JoinStop PROVE FALSE
  BY <1>0, <1>4 DEF JoinStop, QueueTypes
<1> QED BY <1>1, <1>2, <1>3, <1>4, QueueSteps

\* A thread gets a pool only from Enqueue and from Configure.
LEMMA ThreadsGrow ==
  ASSUME TypeOK, Shape, [Next]_vars, NEW p \in Pools, ~(Threads(p)' \subseteq Threads(p))
  PROVE  \/ Configure /\ p = configs + 1
         \/ \E s \in Stubs : Enqueue(s) /\ p = rpool[s]
<1>0. ThreadTypes /\ NoPool \notin Pools
  BY DEF TypeOK, Pools, NoPool
<1> USE <1>0 DEF Threads, ThreadTypes
<1>1. CASE UNCHANGED <<wVars, running, idle, live, inflight>>
  BY <1>1 DEF wVars
<1>2. ASSUME NEW w \in Workers, WorkerStep(w) \/ WorkerTimeout(w) PROVE FALSE
  BY <1>2 DEF WorkerStep, WorkerTimeout, WorkerWait, WorkerStop, ExitIdleWorker, WorkerPop,
     WorkerRefuse, WorkerRun, WorkerStart, WorkerReturn, WorkerReply, WorkerThrow, WorkerLeave,
     WorkerAgain,
     WorkerRetire
<1>3. ASSUME NEW s \in Stubs, Enqueue(s) PROVE p = rpool[s]
  BY <1>3 DEF Enqueue, MayStart
<1>4. ASSUME Configure PROVE p = configs + 1
  BY <1>4 DEF Configure, MayStart
<1>5. ASSUME JoinStop PROVE FALSE
  BY <1>5 DEF JoinStop
<1> QED BY <1>1, <1>2, <1>3, <1>4, <1>5, ThreadSteps

\* A pool that stops goes on stopping, and only the owner stops one.
LEMMA StopSteps ==
  ASSUME [Next]_vars
  PROVE  UNCHANGED stopping \/ JoinStop
<1>1. ASSUME NEW w \in Workers, WorkerPop(w) PROVE UNCHANGED stopping
  BY <1>1 DEF WorkerPop
<1>2. ASSUME NEW s \in Stubs, Enqueue(s) \/ RejectQueued(s) PROVE UNCHANGED stopping
  BY <1>2 DEF Enqueue, RejectQueued
<1> QED BY <1>1, <1>2, QueueSteps

\* One step keeps the life of a pool.
LEMMA LifeStep ==
  ASSUME TypeOK, Shape, OwnerAt, OwnerAt', [Next]_vars, \A p \in Pools : Life(p), NEW p \in Pools
  PROVE  Life(p)'
<1>0. /\ OwnerTypes /\ QueueTypes /\ configs \in Nat /\ NoPool \notin Pools /\ p \in Nat
      /\ current \in Nat /\ opool \in Nat /\ Life(p)
  BY PoolAssumption DEF TypeOK, OwnerTypes, Pools, NoPool
<1>1. /\ ~(queue'[p] \subseteq queue[p]) => ~stopping[p] /\ p <= configs /\ UNCHANGED ownerVars
      /\ ~(Threads(p)' \subseteq Threads(p)) =>
           (Configure /\ p = configs + 1) \/ (~stopping[p] /\ UNCHANGED ownerVars)
  <2>1. ASSUME NEW s \in Stubs, Enqueue(s)
        PROVE  ~stopping[rpool[s]] /\ rpool[s] <= configs /\ UNCHANGED ownerVars
    BY <2>1 DEF Enqueue, Shape
  <2> QED BY <2>1, QueueGrows, ThreadsGrow
<1>2. CASE UNCHANGED stopping /\ UNCHANGED ownerVars
  <2>1. UNCHANGED <<current, configs, opc, opool>>
    BY <1>2 DEF ownerVars
  <2>2. ~(Configure /\ p = configs + 1)
    BY <1>0, <2>1 DEF Configure
  <2> QED BY <1>0, <1>1, <1>2, <2>1, <2>2 DEF Life
<1>3. CASE JoinStop
  <2>1. /\ opool \in Pools /\ stopping' = [stopping EXCEPT ![opool] = TRUE]
        /\ queue' = [queue EXCEPT ![opool] = {}] /\ wpool' = wpool /\ opc' = "reject"
        /\ opc = "stop" /\ UNCHANGED <<current, configs, opool>>
    BY <1>3 DEF JoinStop, Shape
  <2>2. opool <= configs /\ current = NoPool
    BY <1>3, <2>1 DEF OwnerAt
  <2>3. Threads(p)' = Threads(p)
    BY <2>1 DEF Threads
  <2>4. CASE p = opool
    <3>1. stopping'[p] /\ queue'[p] = {}
      BY <1>0, <2>1, <2>4 DEF QueueTypes
    <3> QED BY <1>0, <2>1, <2>2, <2>4, <3>1 DEF Life
  <2>5. CASE p # opool
    <3>1. stopping'[p] = stopping[p] /\ queue'[p] = queue[p]
      BY <1>0, <2>1, <2>5 DEF QueueTypes
    <3> QED BY <1>0, <2>1, <2>3, <2>5, <3>1 DEF Life
  <2> QED BY <2>4, <2>5
<1>4. CASE JoinReject
  BY <1>0, <1>4 DEF JoinReject, Life, Threads, poolVars, wVars
<1>5. CASE JoinThreads
  BY <1>0, <1>5 DEF JoinThreads, Life, Threads, poolVars, wVars
<1>6. CASE Configure
  <2>1. /\ configs' = configs + 1 /\ current' = configs + 1 /\ opool' = opool /\ opc' = "idle"
        /\ UNCHANGED <<stopping, queue>>
    BY <1>6 DEF Configure
  <2>2. opool = NoPool /\ current = NoPool
    BY <1>6 DEF Configure, OwnerAt
  <2>3. p # configs + 1 => Threads(p)' \subseteq Threads(p)
    BY <1>0, <1>1, <2>1 DEF ownerVars
  <2> QED BY <1>0, <2>1, <2>2, <2>3 DEF Life
<1>7. CASE \E reconfigure \in BOOLEAN : Shutdown(reconfigure)
  <2>1. /\ opc = "idle" /\ current' = NoPool /\ opool' = current /\ opc' = "stop"
        /\ UNCHANGED <<stopping, queue, wpool, configs>>
    BY <1>7 DEF Shutdown, poolVars, wVars
  <2>2. opool = NoPool
    BY <2>1 DEF OwnerAt
  <2> QED BY <1>0, <2>1, <2>2 DEF Life, Threads
<1> QED BY <1>2, <1>3, <1>4, <1>5, <1>6, <1>7, OwnerSteps, StopSteps

\* Sets of threads are finite.
LEMMA ThreadCount ==
  ASSUME NEW S \in SUBSET Workers
  PROVE  IsFiniteSet(S) /\ Cardinality(S) \in Nat /\ (Cardinality(S) = 0 <=> S = {})
  BY WorkersAssumption, FS_Subset, FS_CardinalityType, FS_EmptySet

\* A pool whose sleepers did not grow, whose alert threads did not shrink and whose queue
\* did not grow stays covered; so does one with nothing queued and one with no sleeper.
LEMMA CoveredKept ==
  ASSUME FiniteQueues, NEW p \in Pools, Covered(p),
         \/ At(p, Waiting)' = {} \/ queue'[p] = {}
         \/ /\ At(p, Waiting)' \subseteq At(p, Waiting) /\ At(p, Alert) \subseteq At(p, Alert)'
            /\ queue'[p] \subseteq queue[p]
  PROVE  Covered(p)'
<1>1. CASE At(p, Waiting)' = {}
  BY <1>1 DEF Covered
<1>2. CASE queue'[p] = {}
  <2>1. Cardinality(queue'[p]) = 0
    BY <1>2, FS_EmptySet
  <2>2. PICK A \in SUBSET Workers : A = At(p, Alert)'
    BY DEF At
  <2>3. Cardinality(A) \in Nat
    BY ThreadCount
  <2> QED BY <2>1, <2>2, <2>3 DEF Covered
<1>3. CASE /\ At(p, Waiting)' # {} /\ At(p, Waiting)' \subseteq At(p, Waiting)
           /\ At(p, Alert) \subseteq At(p, Alert)' /\ queue'[p] \subseteq queue[p]
  <2>1. PICK A \in SUBSET Workers, B \in SUBSET Workers : A = At(p, Alert) /\ B = At(p, Alert)'
    BY DEF At
  <2>2. PICK Q, R : Q = queue[p] /\ R = queue'[p]
    OBVIOUS
  <2>3. Cardinality(Q) <= Cardinality(A)
    BY <1>3, <2>1, <2>2 DEF Covered
  <2>4. IsFiniteSet(B) /\ A \subseteq B /\ IsFiniteSet(Q) /\ R \subseteq Q
    BY <1>3, <2>1, <2>2, ThreadCount DEF FiniteQueues
  <2>5. /\ Cardinality(A) \in Nat /\ Cardinality(B) \in Nat /\ Cardinality(A) <= Cardinality(B)
        /\ Cardinality(Q) \in Nat /\ Cardinality(R) \in Nat /\ Cardinality(R) <= Cardinality(Q)
    BY <2>4, ThreadCount, FS_Subset, FS_CardinalityType
  <2>6. Cardinality(R) <= Cardinality(B)
    BY <2>3, <2>5
  <2> QED BY <2>1, <2>2, <2>6 DEF Covered
<1> QED BY <1>1, <1>2, <1>3

\* A step of thread w leaves the threads of the other pools where they are.
LEMMA OtherPools ==
  ASSUME TypeOK, Shape, NEW w \in Workers, WorkerStep(w) \/ WorkerTimeout(w),
         NEW p \in Pools, p # wpool[w], NEW v \in Workers
  PROVE  (wpool'[v] = p <=> wpool[v] = p) /\ (wpool[v] = p => wpc'[v] = wpc[v])
<1>0. ThreadTypes /\ NoPool \notin Pools
  BY DEF TypeOK, Pools, NoPool
<1>1. CASE WorkerStop(w)
  BY <1>0, <1>1 DEF WorkerStop, NotifyAll, ThreadTypes
<1>2. CASE ExitIdleWorker(w) \/ WorkerRetire(w)
  BY <1>0, <1>2 DEF ExitIdleWorker, WorkerRetire, ThreadTypes
<1>3. CASE WorkerWait(w) \/ WorkerTimeout(w) \/ WorkerPop(w) \/ WorkerLeave(w) \/ WorkerAgain(w)
  BY <1>0, <1>3 DEF WorkerWait, WorkerTimeout, WorkerPop, WorkerLeave, WorkerAgain, ThreadTypes
<1>4. CASE WorkerRefuse(w) \/ WorkerRun(w) \/ WorkerStart(w) \/ WorkerReturn(w)
           \/ WorkerReply(w) \/ WorkerThrow(w)
  BY <1>0, <1>4 DEF WorkerRefuse, WorkerRun, WorkerStart, WorkerReturn, WorkerReply, WorkerThrow,
     ThreadTypes
<1> QED BY <1>1, <1>2, <1>3, <1>4 DEF WorkerStep

\* What a step of thread w does to its own pool: it finds the queue empty, takes an item,
\* or moves without going to sleep.
LEMMA OwnPool ==
  ASSUME TypeOK, Shape, NEW w \in Workers, WorkerStep(w) \/ WorkerTimeout(w)
  PROVE  /\ wpool[w] \in Pools
         /\ \/ queue[wpool[w]] = {} /\ queue' = queue
            \/ WorkerPop(w)
            \/ /\ queue' = queue /\ wpool' = wpool
               /\ wpc'[w] \notin Waiting /\ (wpc[w] \in Alert => wpc'[w] \in Alert)
               /\ \A v \in Workers \ {w} : wpc'[v] = wpc[v]
            \/ /\ queue' = queue /\ WorkerRetire(w) /\ wpc'[w] = "none"
               /\ \A v \in Workers \ {w} : wpc'[v] = wpc[v] /\ wpool'[v] = wpool[v]
<1>0. ThreadTypes
  BY DEF TypeOK
<1> USE <1>0 DEF ThreadTypes, Waiting, Alert, Woken
<1>1. wpool[w] \in Pools
  BY PoolOfThread DEF WorkerStep, WorkerTimeout, WorkerWait, WorkerStop, ExitIdleWorker, WorkerPop,
     WorkerRefuse, WorkerRun, WorkerStart, WorkerReturn, WorkerReply, WorkerThrow, WorkerLeave,
     WorkerAgain,
     WorkerRetire, Awake
<1>2. CASE WorkerWait(w) \/ WorkerStop(w) \/ ExitIdleWorker(w)
  BY <1>1, <1>2 DEF WorkerWait, WorkerStop, ExitIdleWorker, WorkOrStop
<1>3. CASE WorkerTimeout(w) \/ WorkerLeave(w) \/ WorkerAgain(w)
  BY <1>1, <1>3 DEF WorkerTimeout, WorkerLeave, WorkerAgain, poolVars
<1>4. CASE WorkerRefuse(w) \/ WorkerRun(w) \/ WorkerStart(w) \/ WorkerReturn(w)
           \/ WorkerReply(w) \/ WorkerThrow(w)
  BY <1>1, <1>4 DEF WorkerRefuse, WorkerRun, WorkerStart, WorkerReturn, WorkerReply, WorkerThrow,
     poolVars
<1>5. CASE WorkerRetire(w)
  <2>1. CASE NeedsWorker(wpool[w], queue[wpool[w]], live[wpool[w]] - 1)
    BY <1>1, <1>5, <2>1 DEF WorkerRetire
  <2>2. CASE ~NeedsWorker(wpool[w], queue[wpool[w]], live[wpool[w]] - 1)
    BY <1>1, <1>5, <2>2 DEF WorkerRetire
  <2> QED BY <2>1, <2>2
<1> QED BY <1>1, <1>2, <1>3, <1>4, <1>5 DEF WorkerStep

\* Steps of the owner wake threads and start one, and put nobody to sleep.
LEMMA OwnerWakes ==
  ASSUME TypeOK, Shape, Configure \/ JoinStop, NEW p \in Pools
  PROVE  /\ \A v \in Workers : /\ wpool[v] = p => wpool'[v] = p
                               /\ wpool[v] = p /\ wpc[v] \notin Waiting => wpc'[v] = wpc[v]
                               /\ wpool'[v] = p /\ wpc'[v] \in Waiting =>
                                    wpool[v] = p /\ wpc[v] \in Waiting
         /\ queue'[p] \subseteq queue[p]
<1>0. ThreadTypes /\ QueueTypes /\ NoPool \notin Pools
  BY DEF TypeOK, Pools, NoPool
<1>1. CASE JoinStop
  BY <1>0, <1>1 DEF JoinStop, NotifyAll, ThreadTypes, QueueTypes, Waiting
<1>2. CASE Configure
  <2>1. PICK w \in MayStart : /\ wpc' = [wpc EXCEPT ![w] = "start"]
                              /\ wpool' = [wpool EXCEPT ![w] = configs + 1]
    BY <1>2 DEF Configure
  <2>2. w \in Workers /\ wpool[w] = NoPool
    BY <2>1 DEF MayStart, Shape
  <2> QED BY <1>0, <1>2, <2>1, <2>2 DEF Configure, ThreadTypes, Waiting
<1> QED BY <1>1, <1>2

\* What Enqueue does to the threads of its pool.
LEMMA EnqueueWakes ==
  ASSUME TypeOK, Shape, CountersExact, NEW s \in Stubs, Enqueue(s)
  PROVE  /\ rpool[s] \in Pools /\ ritem[s] \in Items
         /\ queue' = [queue EXCEPT ![rpool[s]] = @ \cup {ritem[s]}] /\ rpool' = rpool
         /\ \A v \in Workers : \A p \in Pools \ {rpool[s]} :
              (wpool'[v] = p <=> wpool[v] = p) /\ (wpool[v] = p => wpc'[v] = wpc[v])
         /\ \/ /\ At(rpool[s], Waiting)' = {}
               /\ \E w \in Threads(rpool[s])' : wpc'[w] = "start"
            \/ /\ At(rpool[s], Waiting) = {} /\ wpc' = wpc /\ wpool' = wpool
               /\ Threads(rpool[s]) # {}
            \/ \E v \in At(rpool[s], Waiting) :
                 /\ At(rpool[s], Alert)' = At(rpool[s], Alert) \cup {v}
                 /\ v \notin At(rpool[s], Alert)
                 /\ At(rpool[s], Waiting)' \subseteq At(rpool[s], Waiting)
                 /\ wpool' = wpool /\ wpc'[v] \notin Waiting
<1> DEFINE p == rpool[s]
           q == queue[p] \cup {ritem[s]}
<1>0. /\ ThreadTypes /\ QueueTypes /\ CounterTypes /\ NoPool \notin Pools
      /\ MaxThreads \in Nat /\ MaxThreads # 0
  BY PoolAssumption DEF TypeOK, Pools, NoPool
<1>1. p \in Pools /\ ritem[s] \in Items /\ ~stopping[p]
  BY DEF Enqueue, Shape
<1>2. queue' = [queue EXCEPT ![p] = q] /\ rpool' = rpool
  BY DEF Enqueue
<1>3. CASE NeedsWorker(p, q, live[p])
  <2>1. PICK w \in MayStart : /\ wpc' = [wpc EXCEPT ![w] = "start"]
                              /\ wpool' = [wpool EXCEPT ![w] = p]
    BY <1>3 DEF Enqueue
  <2>2. w \in Workers /\ wpool[w] = NoPool
    BY <2>1 DEF MayStart, Shape
  <2>3. PICK S \in SUBSET Workers : S = At(p, Waiting \cup Woken)
    BY DEF At
  <2>4. S = {}
    BY <1>1, <1>3, <2>3, ThreadCount DEF NeedsWorker, CountersExact
  <2>5. At(p, Waiting)' = {}
    BY <1>0, <1>2, <2>1, <2>2, <2>3, <2>4 DEF At, ThreadTypes, Waiting
  <2>6. w \in Threads(p)' /\ wpc'[w] = "start"
    BY <1>0, <1>2, <2>1, <2>2 DEF Threads, ThreadTypes
  <2>7. \A v \in Workers : \A r \in Pools \ {p} :
              (wpool'[v] = r <=> wpool[v] = r) /\ (wpool[v] = r => wpc'[v] = wpc[v])
    BY <1>0, <2>1, <2>2 DEF ThreadTypes
  <2> QED BY <1>1, <1>2, <2>5, <2>6, <2>7
<1>4. CASE ~NeedsWorker(p, q, live[p])
  <2>1. wpc' \in NotifyOne(p, wpc) /\ wpool' = wpool
    BY <1>4 DEF Enqueue
  <2>2. CASE At(p, Waiting) = {}
    <3>1. wpc' = wpc
      BY <2>1, <2>2 DEF NotifyOne, At
    <3>2. Threads(p) # {}
      <4>1. live[p] # 0 \/ idle[p] # 0
        BY <1>0, <1>1, <1>4 DEF NeedsWorker, CounterTypes
      <4>2. PICK S \in SUBSET Workers, T \in SUBSET Workers :
              S = At(p, Waiting \cup Woken) /\ T = Threads(p)
        BY DEF At, Threads
      <4>3. S # {} \/ T # {}
        BY <1>1, <4>1, <4>2, ThreadCount DEF CountersExact
      <4>4. S \subseteq T
        BY <4>2 DEF At, Threads
      <4> QED BY <4>2, <4>3, <4>4
    <3> QED BY <1>1, <1>2, <2>1, <2>2, <3>1, <3>2
  <2>3. CASE At(p, Waiting) # {}
    <3>1. PICK v \in At(p, Waiting) :
            wpc' = [wpc EXCEPT ![v] = IF @ = "wait" THEN "woken" ELSE "wokenfor"]
      BY <2>1, <2>3 DEF NotifyOne, At
    <3>2. v \in Workers /\ wpool[v] = p /\ wpc[v] \in Waiting /\ wpc'[v] \in {"woken", "wokenfor"}
      BY <1>0, <3>1 DEF At, ThreadTypes
    <3>3. /\ At(p, Alert)' = At(p, Alert) \cup {v} /\ v \notin At(p, Alert)
          /\ At(p, Waiting)' \subseteq At(p, Waiting) /\ wpc'[v] \notin Waiting
      BY <1>0, <1>2, <2>1, <3>1, <3>2 DEF At, ThreadTypes, Alert, Woken, Waiting
    <3>4. \A u \in Workers : \A r \in Pools \ {p} :
              (wpool'[u] = r <=> wpool[u] = r) /\ (wpool[u] = r => wpc'[u] = wpc[u])
      BY <1>0, <2>1, <3>1, <3>2 DEF ThreadTypes
    <3> QED BY <1>1, <1>2, <2>1, <3>1, <3>3, <3>4
  <2> QED BY <2>2, <2>3
<1> QED BY <1>3, <1>4

\* While there are sleepers, every item has an alert thread: Enqueue wakes one for the item it
\* adds, a thread that takes one stops being alert, and nobody sleeps while there is work.
LEMMA CoveredStep ==
  ASSUME TypeOK, Shape, CountersExact, FiniteQueues, [Next]_vars, NEW p \in Pools, Covered(p)
  PROVE  Covered(p)'
<1>0. ThreadTypes /\ QueueTypes
  BY DEF TypeOK
<1>1. CASE UNCHANGED <<wVars, running, idle, live, inflight>> /\ queue'[p] \subseteq queue[p]
  <2>1. At(p, Waiting)' = At(p, Waiting) /\ At(p, Alert)' = At(p, Alert)
    BY <1>1 DEF At, wVars, Waiting, Alert, Woken
  <2> QED BY <1>1, <2>1, CoveredKept
<1>2. ASSUME NEW w \in Workers, WorkerStep(w) \/ WorkerTimeout(w) PROVE Covered(p)'
  <2>1. CASE p # wpool[w]
    <3>1. At(p, Waiting)' = At(p, Waiting) /\ At(p, Alert)' = At(p, Alert)
      BY <1>2, <2>1, OtherPools DEF At
    <3>2. queue'[p] \subseteq queue[p]
      BY <1>0, <1>2, <2>1, OwnPool DEF WorkerPop, QueueTypes
    <3> QED BY <3>1, <3>2, CoveredKept
  <2>2. CASE p = wpool[w] /\ WorkerPop(w)
    <3> DEFINE i == First(queue[p])
    <3>1. i \in queue[p] /\ wpc[w] \in Alert
      BY <2>2, PoppedItem DEF Alert
    <3>2. /\ queue'[p] = queue[p] \ {i} /\ wpool' = wpool /\ wpc' = [wpc EXCEPT ![w] = "popped"]
      BY <1>0, <2>2 DEF WorkerPop, QueueTypes
    <3>3. PICK A \in SUBSET Workers, B \in SUBSET Workers : A = At(p, Alert) /\ B = At(p, Alert)'
      BY DEF At
    <3>4. w \in A /\ w \notin B /\ A \ {w} = B \ {w} /\ At(p, Waiting)' = At(p, Waiting)
      BY <1>0, <2>2, <3>1, <3>2, <3>3 DEF At, ThreadTypes, Alert, Woken, Waiting
    <3>5. /\ Cardinality(B) = Cardinality(A) - 1 /\ Cardinality(A) \in Nat
      BY <3>4, ThreadCount, CountMember DEF One
    <3>6. PICK Q : Q = queue[p]
      OBVIOUS
    <3> HIDE DEF i
    <3>7. Cardinality(Q \ {i}) = Cardinality(Q) - 1 /\ Cardinality(Q) \in Nat
      BY <3>1, <3>6, FS_RemoveElement, FS_CardinalityType DEF FiniteQueues
    <3>8. At(p, Waiting) # {} => Cardinality(Q) <= Cardinality(A)
      BY <3>3, <3>6 DEF Covered
    <3> QED BY <3>2, <3>3, <3>4, <3>5, <3>6, <3>7, <3>8 DEF Covered
  <2>3. CASE p = wpool[w] /\ queue[p] = {} /\ queue' = queue
    BY <2>3, CoveredKept
  <2>4. CASE /\ p = wpool[w] /\ queue' = queue /\ wpool' = wpool
             /\ wpc'[w] \notin Waiting /\ (wpc[w] \in Alert => wpc'[w] \in Alert)
             /\ \A v \in Workers \ {w} : wpc'[v] = wpc[v]
    <3>1. At(p, Waiting)' \subseteq At(p, Waiting) /\ At(p, Alert) \subseteq At(p, Alert)'
      BY <2>4 DEF At
    <3> QED BY <2>4, <3>1, CoveredKept
  <2>5. CASE /\ p = wpool[w] /\ queue' = queue /\ WorkerRetire(w) /\ wpc'[w] = "none"
             /\ \A v \in Workers \ {w} : wpc'[v] = wpc[v] /\ wpool'[v] = wpool[v]
    <3>1. wpc[w] = "retire"
      BY <2>5 DEF WorkerRetire
    <3>2. At(p, Waiting)' \subseteq At(p, Waiting) /\ At(p, Alert) \subseteq At(p, Alert)'
      BY <2>5, <3>1 DEF At, Waiting, Alert, Woken
    <3> QED BY <2>5, <3>2, CoveredKept
  <2> QED BY <1>2, <2>1, <2>2, <2>3, <2>4, <2>5, OwnPool
<1>3. ASSUME NEW s \in Stubs, Enqueue(s) PROVE Covered(p)'
  <2>0. rpool' = rpool /\ rpool[s] \in Pools
    BY <1>3, EnqueueWakes
  <2>1. CASE p # rpool[s]
    <3>1. At(p, Waiting)' = At(p, Waiting) /\ At(p, Alert)' = At(p, Alert)
      BY <1>3, <2>1, EnqueueWakes DEF At
    <3>2. queue'[p] \subseteq queue[p]
      BY <1>0, <1>3, <2>1, EnqueueWakes DEF QueueTypes
    <3> QED BY <3>1, <3>2, CoveredKept
  <2>2. CASE p = rpool[s] /\ At(p, Waiting)' = {}
    BY <2>2, CoveredKept
  <2>3. CASE p = rpool[s] /\ At(p, Waiting) = {} /\ wpc' = wpc /\ wpool' = wpool
    <3>1. At(p, Waiting)' = {}
      BY <2>3 DEF At
    <3> QED BY <3>1, CoveredKept
  <2>4. ASSUME p = rpool[s], NEW v \in At(p, Waiting),
               At(p, Alert)' = At(p, Alert) \cup {v}, v \notin At(p, Alert)
        PROVE  Covered(p)'
    <3>1. PICK A \in SUBSET Workers, B \in SUBSET Workers : A = At(p, Alert) /\ B = At(p, Alert)'
      BY DEF At
    <3>2. Cardinality(B) = Cardinality(A) + 1 /\ Cardinality(A) \in Nat
      BY <2>4, <3>1, ThreadCount, FS_AddElement
    <3>3. PICK Q, i : Q = queue[p] /\ i = ritem[s]
      OBVIOUS
    <3>4. queue'[p] = Q \cup {i}
      BY <1>0, <1>3, <2>4, <3>3, EnqueueWakes DEF QueueTypes
    <3>5. /\ Cardinality(Q \cup {i}) <= Cardinality(Q) + 1
          /\ Cardinality(Q \cup {i}) \in Nat /\ Cardinality(Q) \in Nat
      <4>1. IsFiniteSet(Q)
        BY <3>3 DEF FiniteQueues
      <4>2. Cardinality(Q) \in Nat
        BY <4>1, FS_CardinalityType
      <4>3. CASE i \in Q
        <5>1. Q \cup {i} = Q
          BY <4>3
        <5> QED BY <4>2, <5>1
      <4>4. CASE i \notin Q
        <5>1. Cardinality(Q \cup {i}) = Cardinality(Q) + 1
          BY <4>1, <4>4, FS_AddElement
        <5> QED BY <4>2, <5>1
      <4> QED BY <4>3, <4>4
    <3>6. Cardinality(Q) <= Cardinality(A)
      BY <2>4, <3>1, <3>3 DEF Covered
    <3> QED BY <3>1, <3>2, <3>4, <3>5, <3>6 DEF Covered
  <2> QED BY <1>3, <2>0, <2>1, <2>2, <2>3, <2>4, EnqueueWakes
<1>4. CASE Configure \/ JoinStop
  <2>1. /\ At(p, Waiting)' \subseteq At(p, Waiting) /\ At(p, Alert) \subseteq At(p, Alert)'
        /\ queue'[p] \subseteq queue[p]
    BY <1>4, OwnerWakes DEF At, Alert, Woken, Waiting
  <2> QED BY <2>1, CoveredKept
<1>5. CASE UNCHANGED <<wVars, running, idle, live, inflight>> /\ ~(queue'[p] \subseteq queue[p])
  BY <1>3, <1>5, QueueGrows
<1> QED BY <1>1, <1>2, <1>3, <1>4, <1>5, ThreadSteps

\* Work is not left to sleepers.  A thread that ends after a fault leaves it to a replacement,
\* or to a thread that is counted idle, and then somebody is alert.
LEMMA AttendedStep ==
  ASSUME IInv, [Next]_vars, NEW p \in Pools, Life(p), Covered(p), Attended(p)
  PROVE  Attended(p)'
<1>0. /\ ThreadTypes /\ QueueTypes /\ CounterTypes /\ TypeOK /\ Shape /\ CountersExact
      /\ FiniteQueues /\ MaxThreads \in Nat /\ NoPool \notin Pools
  BY PoolAssumption DEF IInv, TypeOK, Pools, NoPool
<1>1. ASSUME queue'[p] \subseteq queue[p],
             \A v \in Workers : wpool[v] = p /\ wpc[v] \notin Waiting =>
               wpool'[v] = p /\ wpc'[v] \notin Waiting
      PROVE  Attended(p)'
  BY <1>1 DEF Attended, Threads
<1>2. ASSUME NEW w \in Workers, WorkerStep(w) \/ WorkerTimeout(w) PROVE Attended(p)'
  <2>1. CASE p # wpool[w]
    <3>1. queue'[p] \subseteq queue[p]
      BY <1>0, <1>2, <2>1, OwnPool DEF WorkerPop, QueueTypes
    <3> QED BY <1>0, <1>1, <1>2, <2>1, <3>1, OtherPools
  <2>2. CASE p = wpool[w] /\ WorkerPop(w)
    BY <1>0, <1>1, <2>2 DEF WorkerPop, QueueTypes, ThreadTypes, Waiting
  <2>3. CASE p = wpool[w] /\ queue[p] = {} /\ queue' = queue
    BY <2>3 DEF Attended
  <2>4. CASE /\ p = wpool[w] /\ queue' = queue /\ wpool' = wpool
             /\ wpc'[w] \notin Waiting /\ (wpc[w] \in Alert => wpc'[w] \in Alert)
             /\ \A v \in Workers \ {w} : wpc'[v] = wpc[v]
    BY <1>1, <2>4
  <2>5. CASE /\ p = wpool[w] /\ queue' = queue /\ WorkerRetire(w) /\ wpc'[w] = "none"
             /\ \A v \in Workers \ {w} : wpc'[v] = wpc[v] /\ wpool'[v] = wpool[v]
    <3>1. ASSUME queue[p] # {}
          PROVE  \E u \in Workers : u # w /\ wpool[u] = p /\ wpc[u] \notin Waiting
      <4>1. ~NeedsWorker(p, queue[p], live[p] - 1) /\ wpc[w] = "retire"
        BY <1>0, <2>5 DEF WorkerRetire, ThreadTypes
      <4>2. ~stopping[p]
        BY <3>1 DEF Life
      <4>3. live[p] - 1 < MaxThreads
        BY <1>0 DEF IInv, CountersExact, ThreadBound, CounterTypes
      <4>4. idle[p] # 0
        BY <3>1, <4>1, <4>2, <4>3 DEF NeedsWorker
      <4>5. PICK S \in SUBSET Workers, A \in SUBSET Workers :
              S = At(p, Waiting \cup Woken) /\ A = At(p, Alert)
        BY DEF At
      <4>6. PICK u \in S : TRUE
        BY <1>0, <4>4, <4>5, ThreadCount DEF CountersExact
      <4>7. CASE wpc[u] \notin Waiting
        BY <4>1, <4>5, <4>6, <4>7 DEF At, Waiting, Woken
      <4>8. CASE wpc[u] \in Waiting
        <5>1. Cardinality(queue[p]) <= Cardinality(A)
          BY <4>5, <4>6, <4>8 DEF Covered, At
        <5>2. Cardinality(queue[p]) \in Nat /\ Cardinality(queue[p]) # 0
          BY <1>0, <3>1, FS_CardinalityType, FS_EmptySet DEF FiniteQueues
        <5>3. A # {}
          BY <5>1, <5>2, ThreadCount
        <5> QED BY <4>1, <4>5, <5>3 DEF At, Alert, Woken, Waiting
      <4> QED BY <4>7, <4>8
    <3> QED BY <2>5, <3>1 DEF Attended, Threads
  <2> QED BY <1>0, <1>2, <2>1, <2>2, <2>3, <2>4, <2>5, OwnPool
<1>3. ASSUME NEW s \in Stubs, Enqueue(s) PROVE Attended(p)'
  <2>0. rpool' = rpool /\ rpool[s] \in Pools
    BY <1>0, <1>3, EnqueueWakes
  <2>1. CASE p # rpool[s]
    <3>1. queue'[p] \subseteq queue[p]
      BY <1>0, <1>3, <2>1, EnqueueWakes DEF QueueTypes
    <3> QED BY <1>0, <1>1, <1>3, <2>1, <3>1, EnqueueWakes
  <2>2. ASSUME p = rpool[s], NEW w \in Threads(p)', wpc'[w] = "start" PROVE Attended(p)'
    BY <2>2 DEF Attended, Waiting
  <2>3. CASE /\ p = rpool[s] /\ At(p, Waiting) = {} /\ wpc' = wpc /\ wpool' = wpool
             /\ Threads(p) # {}
    BY <2>3 DEF Attended, Threads, At
  <2>4. ASSUME p = rpool[s], NEW v \in At(p, Waiting), wpool' = wpool, wpc'[v] \notin Waiting
        PROVE  Attended(p)'
    BY <2>4 DEF Attended, Threads, At
  <2> QED BY <1>0, <1>3, <2>0, <2>1, <2>2, <2>3, <2>4, EnqueueWakes
<1>4. CASE Configure \/ JoinStop
  BY <1>0, <1>1, <1>4, OwnerWakes
<1>5. CASE UNCHANGED <<wVars, running, idle, live, inflight>> /\ queue'[p] \subseteq queue[p]
  BY <1>1, <1>5 DEF wVars
<1>6. CASE UNCHANGED <<wVars, running, idle, live, inflight>> /\ ~(queue'[p] \subseteq queue[p])
  BY <1>0, <1>3, <1>6, QueueGrows
<1> QED BY <1>2, <1>3, <1>4, <1>5, <1>6, ThreadSteps

\* Where the policy keeps threads none retires.
LEMMA NoRetirementStep ==
  ASSUME TypeOK, NoRetirement, [Next]_vars
  PROVE  NoRetirement'
<1>0. ThreadTypes
  BY DEF TypeOK
<1> USE <1>0 DEF NoRetirement, ThreadTypes
<1>1. CASE UNCHANGED <<wVars, running, idle, live, inflight>>
  BY <1>1 DEF wVars
<1>2. ASSUME NEW w \in Workers, WorkerStep(w) \/ WorkerTimeout(w) PROVE NoRetirement'
  BY SMTT(60), <1>2 DEF WorkerStep, WorkerTimeout, WorkerWait, WorkerStop, ExitIdleWorker,
     WorkerPop,
     WorkerRefuse, WorkerRun, WorkerStart, WorkerReturn, WorkerReply, WorkerThrow, WorkerLeave,
     WorkerAgain,
     WorkerRetire, NotifyAll
<1>3. ASSUME NEW s \in Stubs, Enqueue(s) PROVE NoRetirement'
  <2>1. \/ \E w \in MayStart : wpc' = [wpc EXCEPT ![w] = "start"]
        \/ wpc' \in NotifyOne(rpool[s], wpc)
    BY <1>3 DEF Enqueue
  <2> QED BY <2>1 DEF NotifyOne
<1>4. CASE Configure
  BY <1>4 DEF Configure
<1>5. CASE JoinStop
  BY <1>5 DEF JoinStop, NotifyAll
<1> QED BY <1>1, <1>2, <1>3, <1>4, <1>5, ThreadSteps

\* The floor thread stays: an idle thread leaves only when another one is counted.
LEMMA FloorStep ==
  ASSUME IInv, [Next]_vars, OwnerAt, NoRetirement, FloorStays, \A p \in Pools : Life(p)
  PROVE  FloorStays'
<1>0. /\ ThreadTypes /\ CounterTypes /\ OwnerTypes /\ TypeOK /\ Shape /\ CountersExact
      /\ NoPool \notin Pools
  BY DEF IInv, TypeOK, Pools, NoPool
<1> SUFFICES ASSUME ~RetireWorker, current' # NoPool PROVE Threads(current)' # {}
  BY DEF FloorStays
<1>1. CASE Configure
  <2>1. PICK w \in MayStart : /\ wpool' = [wpool EXCEPT ![w] = configs + 1]
                              /\ current' = configs + 1
    BY <1>1 DEF Configure
  <2> QED BY <1>0, <2>1 DEF MayStart, Threads, ThreadTypes
<1>2. CASE current' = current
  <2>0. current \in Pools /\ Threads(current) # {} /\ ~stopping[current]
    BY <1>0, <1>2 DEF OwnerTypes, FloorStays, Life
  <2>1. CASE UNCHANGED <<wVars, running, idle, live, inflight>> \/ JoinStop
    BY <1>2, <2>0, <2>1 DEF wVars, JoinStop, Threads
  <2>2. ASSUME NEW s \in Stubs, Enqueue(s) PROVE Threads(current)' # {}
    <3>1. \A v \in Workers : wpool[v] = current => wpool'[v] = current
      BY <1>0, <2>0, <2>2 DEF Enqueue, MayStart, ThreadTypes, Shape
    <3> QED BY <1>2, <2>0, <3>1 DEF Threads
  <2>3. ASSUME NEW w \in Workers, WorkerStep(w) \/ WorkerTimeout(w) PROVE Threads(current)' # {}
    <3>1. CASE wpool' = wpool
      BY <1>2, <2>0, <3>1 DEF Threads
    <3>2. CASE wpool[w] # current
      BY <1>0, <1>2, <2>0, <2>3, <3>2, OtherPools DEF Threads
    <3>3. CASE ExitIdleWorker(w) /\ wpool[w] = current /\ live[current] > 1
      <4>1. PICK T \in SUBSET Workers : T = Threads(current)
        BY DEF Threads
      <4>2. Cardinality(T) > 1 /\ IsFiniteSet(T) /\ Cardinality(T) \in Nat
        BY <1>0, <2>0, <3>3, <4>1, ThreadCount DEF CountersExact
      <4>3. Cardinality(T \ {w}) >= 1
        BY <4>2, FS_RemoveElement
      <4>4. T \ {w} # {}
        BY <4>3, ThreadCount
      <4> QED BY <1>0, <1>2, <3>3, <4>1, <4>4 DEF ExitIdleWorker, Threads, ThreadTypes
    <3>4. CASE WorkerStop(w) /\ wpool[w] = current
      BY <2>0, <3>4 DEF WorkerStop
    <3>5. CASE WorkerRetire(w)
      BY <3>5 DEF WorkerRetire, NoRetirement
    <3>6. \/ wpool' = wpool \/ WorkerStop(w) \/ WorkerRetire(w)
          \/ ExitIdleWorker(w) /\ live[wpool[w]] > 1
      BY <2>3 DEF WorkerStep, WorkerTimeout, WorkerWait, ExitIdleWorker, WorkerPop,
         WorkerRefuse, WorkerRun, WorkerStart, WorkerReturn, WorkerReply, WorkerThrow,
         WorkerLeave, WorkerAgain
    <3> QED BY <3>1, <3>2, <3>3, <3>4, <3>5, <3>6
  <2> QED BY <1>1, <2>1, <2>2, <2>3, ThreadSteps
<1>3. current' = current \/ Configure
  BY OwnerSteps DEF JoinStop, JoinReject, JoinThreads, Shutdown, ownerVars
<1> QED BY <1>1, <1>2, <1>3

\* The life of the pools holds at the start ...
LEMMA InitLife == Init => LifeInv
<1> SUFFICES ASSUME Init PROVE LifeInv
  OBVIOUS
<1>1. OwnerAt /\ NoRetirement /\ FloorStays
  BY DEF Init, OwnerAt, NoRetirement, FloorStays, NoPool
<1>2. ASSUME NEW p \in Pools PROVE Life(p) /\ Covered(p) /\ Attended(p)
  <2>1. p \in Nat /\ p > 0
    BY PoolAssumption DEF Pools
  <2>2. At(p, Waiting) = {}
    BY DEF Init, At, Waiting
  <2> QED BY <2>1, <2>2 DEF Init, Life, Covered, Attended
<1> QED BY <1>1, <1>2 DEF LifeInv

\* ... and is kept by every step.
LEMMA StepLife == IInv /\ LifeInv /\ [Next]_vars => LifeInv'
<1> SUFFICES ASSUME IInv, LifeInv, [Next]_vars PROVE LifeInv'
  OBVIOUS
<1>1. OwnerAt' /\ NoRetirement' /\ FloorStays'
  BY OwnerAtStep, NoRetirementStep, FloorStep DEF IInv, LifeInv
<1>2. ASSUME NEW p \in Pools PROVE Life(p)' /\ Covered(p)' /\ Attended(p)'
  BY <1>1, LifeStep, CoveredStep, AttendedStep DEF IInv, LifeInv
<1> QED BY <1>1, <1>2 DEF LifeInv

\* In every state of every behaviour the counters are exact and the pools live as described.
LEMMA LifeInvariant == Spec => [](IInv /\ LifeInv)
<1>1. Init => IInv /\ LifeInv
  BY InitIInv, InitLife
<1>2. IInv /\ LifeInv /\ [Next]_vars => (IInv /\ LifeInv)'
  BY StepIInv, StepLife
<1> QED BY <1>1, <1>2, PTL DEF Spec

\* No wake-up is lost, whatever pushes, waits, timeouts and retirements race: while there is
\* work some thread of the pool is awake or comes back for it (Enqueue's notify_one, WorkerMain).
THEOREM WorkIsNotStranded == Spec => []WorkNotStranded
<1>1. LifeInv => WorkNotStranded
  BY DEF LifeInv, Attended, WorkNotStranded
<1> QED BY <1>1, LifeInvariant, PTL

\* A pool whose policy keeps its threads has its floor thread as long as it is installed,
\* however many idle threads time out together (ExitIdleWorker).
THEOREM FloorThreadStays == Spec => []FloorStays
<1>1. LifeInv => FloorStays
  BY DEF LifeInv
<1> QED BY <1>1, LifeInvariant, PTL

\* When Shutdown has returned, or Configure has replaced a pool, the old one has no thread and
\* no item and takes none, though socket threads may still hold it (JoinPool, Enqueue).
THEOREM RetiredPoolIsEmpty == Spec => []RetiredPoolEmpty
<1>1. ASSUME IInv, LifeInv, NEW p \in 1 .. configs, p # current, p # opool
      PROVE  stopping[p] /\ Threads(p) = {} /\ queue[p] = {} /\ running[p] = 0
  <2>1. p \in Pools /\ p <= configs
    BY <1>1, PoolAssumption DEF IInv, TypeOK, OwnerTypes, Pools
  <2>2. stopping[p] /\ Threads(p) = {} /\ queue[p] = {}
    BY <1>1, <2>1 DEF LifeInv, Life
  <2>3. At(p, Inside \cup {"relock", "retire"}) = {}
    BY <2>2 DEF At, Threads
  <2>4. running[p] = 0
    BY <1>1, <2>1, <2>3, FS_EmptySet DEF IInv, CountersExact
  <2> QED BY <2>2, <2>4
<1>2. IInv /\ LifeInv => RetiredPoolEmpty
  BY <1>1 DEF RetiredPoolEmpty
<1> QED BY <1>2, LifeInvariant, PTL

-----------------------------------------------------------------------------
(* Every item is at one place *)

\* Only WorkerPop gives a thread an item.
LEMMA ThreadPlaces ==
  ASSUME TypeOK, Shape, [Next]_vars, NEW i \in Items, NEW w \in Workers,
         WithThread(i, w)', ~WithThread(i, w)
  PROVE  WorkerPop(w) /\ i = First(queue[wpool[w]])
<1>0. ThreadTypes
  BY DEF TypeOK
<1> USE <1>0 DEF ThreadTypes, WithThread
<1>1. CASE UNCHANGED <<wVars, running, idle, live, inflight>>
  BY <1>1 DEF wVars
<1>2. ASSUME NEW v \in Workers, WorkerStep(v) \/ WorkerTimeout(v)
      PROVE  WorkerPop(w) /\ i = First(queue[wpool[w]])
  <2>1. CASE WorkerPop(v)
    BY <2>1 DEF WorkerPop
  <2>2. CASE WorkerStop(v)
    BY <2>2 DEF WorkerStop, NotifyAll
  <2>3. CASE WorkerWait(v) \/ WorkerTimeout(v) \/ ExitIdleWorker(v) \/ WorkerRetire(v)
    BY <2>3 DEF WorkerWait, WorkerTimeout, ExitIdleWorker, WorkerRetire
  <2>4. CASE WorkerLeave(v) \/ WorkerAgain(v)
    BY <2>4 DEF WorkerLeave, WorkerAgain
  <2>5. CASE WorkerRefuse(v) \/ WorkerRun(v) \/ WorkerStart(v) \/ WorkerReturn(v)
             \/ WorkerReply(v) \/ WorkerThrow(v)
    BY <2>5 DEF WorkerRefuse, WorkerRun, WorkerStart, WorkerReturn, WorkerReply, WorkerThrow
  <2> QED BY <1>2, <2>1, <2>2, <2>3, <2>4, <2>5 DEF WorkerStep
<1>3. ASSUME NEW s \in Stubs, Enqueue(s) PROVE FALSE
  <2>1. /\ witem' = witem
        /\ \/ \E v \in MayStart : wpc' = [wpc EXCEPT ![v] = "start"]
           \/ wpc' \in NotifyOne(rpool[s], wpc)
    BY <1>3 DEF Enqueue
  <2> QED BY <2>1 DEF NotifyOne
<1>4. CASE Configure
  BY <1>4 DEF Configure
<1>5. CASE JoinStop
  BY <1>5 DEF JoinStop, NotifyAll
<1> QED BY <1>1, <1>2, <1>3, <1>4, <1>5, ThreadSteps

\* The steps of the socket threads.
LEMMA ReceiveSteps ==
  ASSUME [Next]_vars
  PROVE  \/ UNCHANGED <<rpc, ritem, arrived>>
         \/ \E i \in Items : Receive(i)
         \/ \E s \in Stubs : ReceiverStep(s)
<1>1. CASE UNCHANGED vars
  BY <1>1 DEF vars, recvVars
<1>2. ASSUME NEW w \in Workers, WorkerStep(w) \/ WorkerTimeout(w)
      PROVE  UNCHANGED <<rpc, ritem, arrived>>
  BY <1>2 DEF WorkerStep, WorkerTimeout, WorkerWait, WorkerStop, ExitIdleWorker, WorkerPop,
     WorkerRefuse, WorkerRun, WorkerStart, WorkerReturn, WorkerReply, WorkerThrow, WorkerLeave,
     WorkerAgain,
     WorkerRetire, recvVars
<1>3. ASSUME NEW s \in Stubs,
             DrainStep(s) \/ PauseRoseProcessing(s) \/ Destroy(s) \/ ResumeRoseProcessing(s)
      PROVE  UNCHANGED <<rpc, ritem, arrived>>
  BY <1>3 DEF DrainStep, RejectQueued, AwaitInflight, PauseRoseProcessing, Destroy,
     ResumeRoseProcessing, recvVars
<1>4. ASSUME \/ OwnerStep \/ Configure
             \/ \E reconfigure \in BOOLEAN : Shutdown(reconfigure)
      PROVE  UNCHANGED <<rpc, ritem, arrived>>
  BY <1>4 DEF OwnerStep, JoinStop, JoinReject, JoinThreads, Configure, Shutdown, recvVars
<1> QED BY <1>1, <1>2, <1>3, <1>4 DEF Next

\* Only Receive gives a socket thread an item.
LEMMA ReceiverPlaces ==
  ASSUME TypeOK, [Next]_vars, NEW i \in Items, NEW s \in Stubs,
         WithReceiver(i, s)', ~WithReceiver(i, s)
  PROVE  Receive(i) /\ s = StubOf[i]
<1>0. StubTypes /\ StubOf \in [Items -> Stubs]
  BY PoolAssumption DEF TypeOK
<1> USE <1>0 DEF StubTypes, WithReceiver
<1>1. ASSUME NEW j \in Items, Receive(j) PROVE Receive(i) /\ s = StubOf[i]
  BY <1>1 DEF Receive
<1>2. ASSUME NEW t \in Stubs, ReceiverStep(t) PROVE FALSE
  BY <1>2 DEF ReceiverStep, EnqueueRefused, Enqueue, InlineRefuse, InlineRun, InlineStart,
     InlineReturn,
     InlineEnd, Idle
<1> QED BY <1>1, <1>2, ReceiveSteps

\* Only Enqueue puts an item into a queue.
LEMMA QueuePlaces ==
  ASSUME TypeOK, Shape, [Next]_vars, NEW i \in Items, NEW p \in Pools,
         i \in queue'[p], i \notin queue[p]
  PROVE  \E s \in Stubs : Enqueue(s) /\ p = rpool[s] /\ i = ritem[s]
<1>0. QueueTypes
  BY DEF TypeOK
<1>1. PICK s \in Stubs : Enqueue(s) /\ p = rpool[s]
  BY QueueGrows
<1>2. i = ritem[s]
  BY <1>0, <1>1 DEF Enqueue, QueueTypes
<1> QED BY <1>1, <1>2

\* The steps that record an end.
LEMMA EndingSteps ==
  ASSUME [Next]_vars, ends' # ends
  PROVE  \/ \E w \in Workers :
              WorkerRefuse(w) \/ WorkerReturn(w) \/ WorkerReply(w) \/ WorkerThrow(w)
         \/ \E s \in Stubs : \/ EnqueueRefused(s) \/ InlineRefuse(s)
                             \/ \E how \in {"replied", "dropped", "threw"} : InlineEnd(s, how)
                             \/ RejectQueued(s)
         \/ JoinReject
<1>1. ~(UNCHANGED vars)
  BY DEF vars
<1>2. ASSUME NEW w \in Workers, WorkerStep(w) \/ WorkerTimeout(w)
      PROVE  WorkerRefuse(w) \/ WorkerReturn(w) \/ WorkerReply(w) \/ WorkerThrow(w)
  BY <1>2 DEF WorkerStep, WorkerTimeout, WorkerWait, WorkerStop, ExitIdleWorker, WorkerPop,
     WorkerRun, WorkerStart, WorkerLeave, WorkerAgain, WorkerRetire
<1>3. ASSUME NEW s \in Stubs, ReceiverStep(s)
      PROVE  \/ EnqueueRefused(s) \/ InlineRefuse(s)
             \/ \E how \in {"replied", "dropped", "threw"} : InlineEnd(s, how)
  BY <1>3 DEF ReceiverStep, Enqueue, InlineRun, InlineStart, InlineReturn
<1>4. ASSUME NEW s \in Stubs, \/ DrainStep(s) \/ PauseRoseProcessing(s) \/ Destroy(s)
                              \/ ResumeRoseProcessing(s)
      PROVE  RejectQueued(s)
  BY <1>4 DEF DrainStep, AwaitInflight, PauseRoseProcessing, Destroy, ResumeRoseProcessing
<1>5. CASE \/ OwnerStep \/ Configure \/ \E reconfigure \in BOOLEAN : Shutdown(reconfigure)
  BY <1>5 DEF OwnerStep, JoinStop, JoinThreads, Configure, Shutdown
<1>6. ASSUME NEW j \in Items, Receive(j) PROVE FALSE
  BY <1>6 DEF Receive
<1> QED BY <1>1, <1>2, <1>3, <1>4, <1>5, <1>6 DEF Next

\* What ends an item: the thread that has it lets go of it.
Closes(i) ==
  \/ \E s \in Stubs : /\ WithReceiver(i, s) /\ Idle(s)
                      /\ UNCHANGED <<queue, oitems, wVars, arrived>>
  \/ \E w \in Workers : /\ WithThread(i, w) /\ wpc' = [wpc EXCEPT ![w] = wpc'[w]]
                        /\ wpc'[w] \in {"left", "faulted"}
                        /\ UNCHANGED <<queue, oitems, witem, recvVars>>
  \/ \E s \in Stubs : /\ RejectQueued(s) /\ current \in Pools /\ i \in queue[current]
                      /\ StubOf[i] = s
  \/ JoinReject /\ i \in oitems /\ i = First(oitems)

LEMMA EndSteps ==
  ASSUME TypeOK, Shape, [Next]_vars, NEW i \in Items, ends'[i] # ends[i]
  PROVE  Closes(i)
<1>0. EndTypes /\ ThreadTypes /\ OwnerTypes /\ QueueTypes /\ NoItem \notin Items
  BY PoolAssumption DEF TypeOK
<1>1. \A j \in Items : \A how : End(j, how) => j = i
  BY <1>0 DEF End, EndTypes
<1>2. ASSUME NEW w \in Workers,
             \/ WorkerRefuse(w) \/ WorkerReturn(w) \/ WorkerReply(w) \/ WorkerThrow(w)
      PROVE  Closes(i)
  <2>1. /\ wpc[w] \in {"popped", "cleared", "handler", "reply"} /\ witem[w] \in Items
        /\ \E how : End(witem[w], how)
        /\ UNCHANGED <<queue, oitems, witem, recvVars>>
    BY <1>2 DEF WorkerRefuse, WorkerReturn, WorkerReply, WorkerThrow, Shape, Inside, poolVars,
       ownerVars
  <2>2. \E l \in {"left", "faulted"} : wpc' = [wpc EXCEPT ![w] = l]
    BY <1>2 DEF WorkerRefuse, WorkerReturn, WorkerReply, WorkerThrow
  <2>3. wpc' = [wpc EXCEPT ![w] = wpc'[w]] /\ wpc'[w] \in {"left", "faulted"}
    BY <1>0, <2>2 DEF ThreadTypes
  <2> QED BY <1>1, <2>1, <2>3 DEF Closes, WithThread
<1>3. ASSUME NEW s \in Stubs,
             \/ EnqueueRefused(s) \/ InlineRefuse(s)
             \/ \E how \in {"replied", "dropped", "threw"} : InlineEnd(s, how)
      PROVE  Closes(i)
  <2>1. /\ rpc[s] # "idle" /\ ritem[s] \in Items /\ \E how : End(ritem[s], how)
        /\ UNCHANGED <<queue, oitems, wVars, arrived>> /\ Idle(s)
    BY <1>3 DEF EnqueueRefused, InlineRefuse, InlineEnd, Shape, poolVars, ownerVars
  <2> QED BY <1>1, <2>1 DEF Closes, WithReceiver
<1>4. ASSUME NEW s \in Stubs, RejectQueued(s) PROVE Closes(i)
  <2>1. PICK p \in {current} \ {NoPool} : i \in queue[p] /\ StubOf[i] = s
    BY <1>0, <1>4 DEF RejectQueued, EndTypes
  <2> QED BY <1>0, <1>4, <2>1 DEF Closes, OwnerTypes
<1>5. CASE JoinReject
  <2>1. First(oitems) \in oitems
    BY <1>0, <1>5, FirstIn DEF JoinReject, OwnerTypes, QueueTypes
  <2> QED BY <1>0, <1>1, <1>5, <2>1 DEF Closes, JoinReject, OwnerTypes
<1> QED BY <1>2, <1>3, <1>4, <1>5, EndingSteps

\* An item that moved nowhere, or ended and is nowhere any more, stays placed.
LEMMA PlacedKept ==
  ASSUME NEW i \in Items, Placed(i), arrived \subseteq arrived', i \in oitems' => i \in oitems,
         \A p \in Pools : i \in queue'[p] => i \in queue[p],
         \A s \in Stubs : WithReceiver(i, s)' => WithReceiver(i, s),
         \A w \in Workers : WithThread(i, w)' => WithThread(i, w),
         ends'[i] = ends[i] \/ (Somewhere(i) /\ ~Somewhere(i)')
  PROVE  Placed(i)'
<1>1. Somewhere(i)' => Somewhere(i)
  BY DEF Somewhere
<1>2. (Somewhere(i) => i \in arrived /\ ends[i] = <<>>) /\ (i \notin arrived => ends[i] = <<>>)
  BY DEF Placed
<1>3. (Somewhere(i) => i \in arrived /\ ends[i] = <<>>)' /\ (i \notin arrived => ends[i] = <<>>)'
  BY <1>1, <1>2
<1>4. \A s \in Stubs : WithReceiver(i, s)' => StubOf[i] = s
  BY DEF Placed
<1>5. (i \in oitems => /\ \A p \in Pools : i \notin queue[p]
                       /\ \A s \in Stubs : ~WithReceiver(i, s)
                       /\ \A w \in Workers : ~WithThread(i, w))'
  BY DEF Placed
<1>6. (\A p \in Pools : i \in queue[p] => /\ \A q \in Pools : i \in queue[q] => q = p
                                          /\ \A s \in Stubs : ~WithReceiver(i, s)
                                          /\ \A w \in Workers : ~WithThread(i, w))'
  BY DEF Placed
<1>7. (\A w \in Workers : WithThread(i, w) => /\ \A v \in Workers : WithThread(i, v) => v = w
                                              /\ \A s \in Stubs : ~WithReceiver(i, s))'
  BY DEF Placed
<1> QED BY <1>3, <1>4, <1>5, <1>6, <1>7 DEF Placed

\* The steps of the owner that touch what it took out of a queue.
LEMMA TakenSteps ==
  ASSUME [Next]_vars
  PROVE  UNCHANGED oitems \/ JoinStop \/ JoinReject
  BY OwnerSteps DEF ownerVars, JoinThreads, Configure, Shutdown

\* What closes an item leaves it nowhere.
LEMMA ClosedIsNowhere ==
  ASSUME TypeOK, Shape, NEW i \in Items, Placed(i), Closes(i)
  PROVE  Somewhere(i) /\ ~Somewhere(i)'
<1>0. ThreadTypes /\ StubTypes /\ QueueTypes /\ OwnerTypes /\ NoItem \notin Items
  BY PoolAssumption DEF TypeOK
<1>1. ASSUME NEW s \in Stubs, WithReceiver(i, s), Idle(s),
             UNCHANGED <<queue, oitems, wVars, arrived>>
      PROVE  Somewhere(i) /\ ~Somewhere(i)'
  <2>1. \A t \in Stubs : ~WithReceiver(i, t)'
    BY <1>0, <1>1 DEF Idle, WithReceiver, StubTypes, Placed
  <2>2. \A w \in Workers : ~WithThread(i, w)'
    BY <1>1 DEF Placed, WithThread, wVars
  <2>3. i \notin oitems' /\ \A p \in Pools : i \notin queue'[p]
    BY <1>1 DEF Placed
  <2> QED BY <1>1, <2>1, <2>2, <2>3 DEF Somewhere
<1>2. ASSUME NEW w \in Workers, WithThread(i, w), wpc' = [wpc EXCEPT ![w] = wpc'[w]],
             wpc'[w] \in {"left", "faulted"}, UNCHANGED <<queue, oitems, witem, recvVars>>
      PROVE  Somewhere(i) /\ ~Somewhere(i)'
  <2>1. \A v \in Workers : ~WithThread(i, v)'
    BY <1>0, <1>2 DEF WithThread, ThreadTypes, Placed
  <2>2. \A t \in Stubs : ~WithReceiver(i, t)'
    BY <1>2 DEF Placed, WithReceiver, recvVars
  <2>3. i \notin oitems' /\ \A p \in Pools : i \notin queue'[p]
    BY <1>2 DEF Placed
  <2> QED BY <1>2, <2>1, <2>2, <2>3 DEF Somewhere
<1>3. ASSUME NEW s \in Stubs, RejectQueued(s), current \in Pools, i \in queue[current],
             StubOf[i] = s
      PROVE  Somewhere(i) /\ ~Somewhere(i)'
  <2>1. /\ \A v \in Workers : ~WithThread(i, v)
        /\ \A t \in Stubs : ~WithReceiver(i, t)
        /\ i \notin oitems /\ \A p \in Pools : i \in queue[p] => p = current
    BY <1>3 DEF Placed
  <2>2. UNCHANGED <<wVars, recvVars, ownerVars>>
    BY <1>3 DEF RejectQueued
  <2>3. \A p \in Pools : i \notin queue'[p]
    <3>1. i \in {j \in UNION {queue[p] : p \in {current} \ {NoPool}} : StubOf[j] = s}
      BY <1>0, <1>3 DEF Pools, NoPool, QueueTypes
    <3> QED BY <1>3, <2>1, <3>1 DEF RejectQueued
  <2> QED BY <1>3, <2>1, <2>2, <2>3 DEF Somewhere, WithThread, WithReceiver, wVars, recvVars,
             ownerVars
<1>4. ASSUME JoinReject, i \in oitems, i = First(oitems)
      PROVE  Somewhere(i) /\ ~Somewhere(i)'
  <2>1. UNCHANGED <<wVars, recvVars, queue>> /\ i \notin oitems'
    BY <1>4 DEF JoinReject, poolVars
  <2> QED BY <1>4, <2>1 DEF Placed, Somewhere, WithThread, WithReceiver, wVars, recvVars
<1> QED BY <1>1, <1>2, <1>3, <1>4 DEF Closes

\* One step leaves every item at one place.  Four steps move an item: it is received, pushed,
\* popped, or taken by the owner.
LEMMA PlacedStep ==
  ASSUME TypeOK, Shape, PlaceInv, [Next]_vars, NEW i \in Items
  PROVE  Placed(i)'
<1>0. /\ ThreadTypes /\ StubTypes /\ QueueTypes /\ OwnerTypes /\ EndTypes /\ Placed(i)
      /\ NoItem \notin Items /\ StubOf \in [Items -> Stubs]
  BY PoolAssumption DEF TypeOK, PlaceInv
<1>1. arrived \subseteq arrived'
  BY ReceiveSteps DEF Receive, ReceiverStep, EnqueueRefused, Enqueue, InlineRefuse, InlineRun,
     InlineStart,
     InlineReturn, InlineEnd
<1>2. ends'[i] = ends[i] \/ (Somewhere(i) /\ ~Somewhere(i)')
  BY <1>0, EndSteps, ClosedIsNowhere
<1>3. CASE Receive(i)
  <2>1. i \notin arrived /\ ~Somewhere(i) /\ ends[i] = <<>>
    BY <1>0, <1>3 DEF Receive, Placed
  <2>2. UNCHANGED <<queue, oitems, wVars, ends>> /\ i \in arrived'
    BY <1>3 DEF Receive, poolVars, ownerVars
  <2>3. i \notin oitems' /\ \A p \in Pools : i \notin queue'[p]
    BY <2>1, <2>2 DEF Somewhere
  <2>4. \A w \in Workers : ~WithThread(i, w)'
    BY <2>1, <2>2 DEF Somewhere, WithThread, wVars
  <2>5. \A s \in Stubs : WithReceiver(i, s)' => s = StubOf[i]
    BY <2>1, ReceiverPlaces DEF Somewhere
  <2> QED BY <2>1, <2>2, <2>3, <2>4, <2>5 DEF Placed
<1>4. ASSUME NEW s \in Stubs, Enqueue(s), i = ritem[s] PROVE Placed(i)'
  <2>1. WithReceiver(i, s) /\ StubOf[i] = s /\ Somewhere(i) /\ i \in arrived /\ ends[i] = <<>>
    BY <1>0, <1>4 DEF Enqueue, WithReceiver, Placed, Somewhere
  <2>2. /\ \A w \in Workers : ~WithThread(i, w)
        /\ i \notin oitems /\ \A p \in Pools : i \notin queue[p]
        /\ \A t \in Stubs : WithReceiver(i, t) => t = s
    BY <1>0, <2>1 DEF Placed
  <2>3. /\ UNCHANGED <<oitems, ends, arrived>> /\ rpool[s] \in Pools
        /\ queue' = [queue EXCEPT ![rpool[s]] = @ \cup {i}]
    BY <1>4 DEF Enqueue, ownerVars, Shape
  <2>4. \A p \in Pools : i \in queue'[p] => p = rpool[s]
    BY <1>0, <2>2, <2>3 DEF QueueTypes
  <2>5. \A t \in Stubs : ~WithReceiver(i, t)'
    BY <1>0, <1>4, <2>2 DEF Enqueue, Idle, WithReceiver, StubTypes
  <2>6. \A w \in Workers : ~WithThread(i, w)'
    <3>1. \A w \in Workers : WorkerPop(w) => i # First(queue[wpool[w]])
      BY <2>2, PoppedItem
    <3> QED BY <2>2, <3>1, ThreadPlaces
  <2> QED BY <2>1, <2>2, <2>3, <2>4, <2>5, <2>6 DEF Placed
<1>5. ASSUME NEW w \in Workers, WorkerPop(w), i = First(queue[wpool[w]]) PROVE Placed(i)'
  <2>1. wpool[w] \in Pools /\ i \in queue[wpool[w]]
    BY <1>5, PoppedItem
  <2>2. Somewhere(i) /\ i \in arrived /\ ends[i] = <<>>
    BY <1>0, <2>1 DEF Placed, Somewhere
  <2>3. /\ \A v \in Workers : ~WithThread(i, v)
        /\ i \notin oitems /\ \A p \in Pools : i \in queue[p] => p = wpool[w]
        /\ \A t \in Stubs : ~WithReceiver(i, t)
    BY <1>0, <2>1 DEF Placed
  <2>4. UNCHANGED <<oitems, ends, recvVars>>
    BY <1>5 DEF WorkerPop, ownerVars
  <2>5. \A p \in Pools : i \notin queue'[p]
    BY <1>0, <1>5, <2>3 DEF WorkerPop, QueueTypes
  <2>6. \A t \in Stubs : ~WithReceiver(i, t)'
    BY <2>3, <2>4 DEF WithReceiver, recvVars
  <2>7. \A v \in Workers : WithThread(i, v)' => v = w
    BY <1>0, <1>5, <2>3 DEF WorkerPop, WithThread, ThreadTypes
  <2> QED BY <2>2, <2>3, <2>4, <2>5, <2>6, <2>7 DEF Placed, recvVars
<1>6. CASE JoinStop /\ i \in queue[opool]
  <2>1. opool \in Pools
    BY <1>6 DEF JoinStop, Shape
  <2>2. Somewhere(i) /\ i \in arrived /\ ends[i] = <<>>
    BY <1>0, <1>6, <2>1 DEF Placed, Somewhere
  <2>3. /\ \A v \in Workers : ~WithThread(i, v)
        /\ \A p \in Pools : i \in queue[p] => p = opool
        /\ \A t \in Stubs : ~WithReceiver(i, t)
    BY <1>0, <1>6, <2>1 DEF Placed
  <2>4. UNCHANGED <<ends, recvVars>>
    BY <1>6 DEF JoinStop
  <2>5. \A p \in Pools : i \notin queue'[p]
    BY <1>0, <1>6, <2>3 DEF JoinStop, QueueTypes
  <2>6. \A t \in Stubs : ~WithReceiver(i, t)'
    BY <2>3, <2>4 DEF WithReceiver, recvVars
  <2>7. \A v \in Workers : ~WithThread(i, v)'
    <3>1. UNCHANGED witem /\ wpc' = NotifyAll(opool, wpc)
      BY <1>6 DEF JoinStop
    <3> QED BY <1>0, <2>3, <3>1 DEF WithThread, NotifyAll, ThreadTypes
  <2> QED BY <2>2, <2>4, <2>5, <2>6, <2>7 DEF Placed, recvVars
<1>7. CASE /\ ~Receive(i) /\ \A s \in Stubs : Enqueue(s) => i # ritem[s]
           /\ \A w \in Workers : WorkerPop(w) => i # First(queue[wpool[w]])
           /\ ~(JoinStop /\ i \in queue[opool])
  <2>1. i \in oitems' => i \in oitems
    BY <1>7, TakenSteps DEF JoinStop, JoinReject
  <2>2. \A p \in Pools : i \in queue'[p] => i \in queue[p]
    BY <1>7, QueuePlaces
  <2>3. \A s \in Stubs : WithReceiver(i, s)' => WithReceiver(i, s)
    BY <1>7, ReceiverPlaces
  <2>4. \A w \in Workers : WithThread(i, w)' => WithThread(i, w)
    BY <1>7, ThreadPlaces
  <2> QED BY <1>0, <1>1, <1>2, <2>1, <2>2, <2>3, <2>4, PlacedKept
<1> QED BY <1>3, <1>4, <1>5, <1>6, <1>7

LEMMA InitPlace == Init => PlaceInv
  BY DEF Init, PlaceInv, Placed, Somewhere, WithReceiver, WithThread

\* In every state of every behaviour all of it holds.
LEMMA PlaceInvariant == Spec => [](IInv /\ LifeInv /\ PlaceInv)
<1>1. IInv /\ PlaceInv /\ [Next]_vars => PlaceInv'
  BY PlacedStep DEF IInv, PlaceInv
<1> QED BY <1>1, InitPlace, LifeInvariant, PTL DEF Spec

-----------------------------------------------------------------------------
(* A destroyed stub *)

LEMMA SerialStep ==
  ASSUME TypeOK, SerialShutdown, Serial, [Next]_vars
  PROVE  Serial'
<1>0. StubTypes
  BY DEF TypeOK
<1>1. CASE UNCHANGED <<gate, ctl>> /\ (UNCHANGED opc \/ opc # "idle")
  BY <1>1 DEF Serial
<1>2. CASE UNCHANGED <<gate, ctl>> /\ \E reconfigure \in BOOLEAN : Shutdown(reconfigure)
  BY <1>0, <1>2 DEF Serial, Shutdown, StopAllowed, StubTypes
<1>3. CASE UNCHANGED <<gate, ctl>> /\ Configure
  BY <1>3 DEF Serial, Configure
<1>4. ASSUME NEW s \in Stubs, \/ RejectQueued(s) \/ AwaitInflight(s) \/ PauseRoseProcessing(s)
                              \/ Destroy(s) \/ ResumeRoseProcessing(s)
      PROVE  Serial'
  BY <1>0, <1>4 DEF Serial, RejectQueued, AwaitInflight, PauseRoseProcessing, Destroy,
     ResumeRoseProcessing, DrainAllowed, StubTypes, ownerVars
<1>5. UNCHANGED opc \/ opc # "idle" \/ Configure
        \/ \E reconfigure \in BOOLEAN : Shutdown(reconfigure)
  BY OwnerSteps DEF ownerVars, JoinStop, JoinReject, JoinThreads
<1> QED BY <1>1, <1>2, <1>3, <1>4, <1>5, GateSteps

\* A thread comes to an item only by WorkerPop and keeps it while it is inside.
LEMMA InsideSteps ==
  ASSUME TypeOK, Shape, [Next]_vars, NEW w \in Workers, wpc'[w] \in Inside
  PROVE  (wpc[w] \in Inside /\ witem'[w] = witem[w]) \/ WorkerPop(w)
<1>0. ThreadTypes
  BY DEF TypeOK
<1> USE <1>0 DEF ThreadTypes, Inside
<1>1. CASE UNCHANGED <<wVars, running, idle, live, inflight>>
  BY <1>1 DEF wVars
<1>2. ASSUME NEW v \in Workers, WorkerStep(v) \/ WorkerTimeout(v)
      PROVE  (wpc[w] \in Inside /\ witem'[w] = witem[w]) \/ WorkerPop(w)
  <2>1. CASE WorkerPop(v)
    BY <2>1 DEF WorkerPop
  <2>2. CASE WorkerStop(v)
    BY <2>2 DEF WorkerStop, NotifyAll
  <2>3. CASE WorkerWait(v) \/ WorkerTimeout(v) \/ ExitIdleWorker(v) \/ WorkerRetire(v)
    BY <2>3 DEF WorkerWait, WorkerTimeout, ExitIdleWorker, WorkerRetire
  <2>4. CASE WorkerLeave(v) \/ WorkerAgain(v)
    BY <2>4 DEF WorkerLeave, WorkerAgain
  <2>5. CASE WorkerRefuse(v) \/ WorkerRun(v) \/ WorkerStart(v) \/ WorkerReturn(v)
             \/ WorkerReply(v) \/ WorkerThrow(v)
    BY <2>5 DEF WorkerRefuse, WorkerRun, WorkerStart, WorkerReturn, WorkerReply, WorkerThrow
  <2> QED BY <1>2, <2>1, <2>2, <2>3, <2>4, <2>5 DEF WorkerStep
<1>3. ASSUME NEW s \in Stubs, Enqueue(s) PROVE wpc[w] \in Inside /\ witem'[w] = witem[w]
  <2>1. /\ witem' = witem
        /\ \/ \E v \in MayStart : wpc' = [wpc EXCEPT ![v] = "start"]
           \/ wpc' \in NotifyOne(rpool[s], wpc)
    BY <1>3 DEF Enqueue
  <2> QED BY <2>1 DEF NotifyOne
<1>4. CASE Configure
  BY <1>4 DEF Configure
<1>5. CASE JoinStop
  BY <1>5 DEF JoinStop, NotifyAll
<1> QED BY <1>1, <1>2, <1>3, <1>4, <1>5, ThreadSteps

\* How a stub comes to its end.
LEMMA EndOfStub ==
  ASSUME TypeOK, [Next]_vars, NEW s \in Stubs
  PROVE  /\ ctl'[s] \in {"destroy", "drained", "dead"} =>
              ctl[s] \in {"destroy", "drained", "dead"} \/ (Destroy(s) /\ rpc' = rpc)
         /\ ctl'[s] \in {"drained", "dead"} =>
              ctl[s] \in {"drained", "dead"} \/ (RejectQueued(s) /\ ctl[s] = "destroy")
         /\ ctl'[s] = "dead" => ctl[s] = "dead" \/ (AwaitInflight(s) /\ ctl[s] = "drained")
<1>0. StubTypes
  BY DEF TypeOK
<1> USE <1>0 DEF StubTypes
<1>1. CASE UNCHANGED <<gate, ctl>>
  BY <1>1
<1>2. ASSUME NEW t \in Stubs, RejectQueued(t), ~(UNCHANGED <<gate, ctl>>)
      PROVE  ctl[t] \in {"pause", "destroy"} /\
             ctl' = [ctl EXCEPT ![t] = IF @ = "pause" THEN "paused" ELSE "drained"]
  BY <1>2 DEF RejectQueued
<1>3. ASSUME NEW t \in Stubs, AwaitInflight(t)
      PROVE  ctl[t] \in {"paused", "drained"} /\
             ctl' = [ctl EXCEPT ![t] = IF @ = "paused" THEN "closed" ELSE "dead"]
  BY <1>3 DEF AwaitInflight
<1>4. ASSUME NEW t \in Stubs, PauseRoseProcessing(t) PROVE ctl' = [ctl EXCEPT ![t] = "pause"]
  BY <1>4 DEF PauseRoseProcessing
<1>5. ASSUME NEW t \in Stubs, Destroy(t)
      PROVE  ctl' = [ctl EXCEPT ![t] = "destroy"] /\ rpc' = rpc
  BY <1>5 DEF Destroy, recvVars
<1>6. ASSUME NEW t \in Stubs, ResumeRoseProcessing(t) PROVE ctl' = [ctl EXCEPT ![t] = "open"]
  BY <1>6 DEF ResumeRoseProcessing
<1> QED BY <1>1, <1>2, <1>3, <1>4, <1>5, <1>6, GateSteps

\* One step keeps the order in which a stub is taken down.
LEMMA LeavingStep ==
  ASSUME IInv, LifeInv, PlaceInv, EndInv, SerialShutdown, [Next]_vars, NEW s \in Stubs
  PROVE  Leaving(s)'
<1>0. /\ TypeOK /\ Shape /\ CountersExact /\ StubTypes /\ QueueTypes /\ OwnerTypes /\ ThreadTypes
      /\ OwnerAt /\ Serial /\ Leaving(s) /\ StubOf \in [Items -> Stubs] /\ NoPool \notin Pools
  BY PoolAssumption DEF IInv, TypeOK, LifeInv, EndInv, Pools, NoPool
<1>1. (ctl[s] \in {"destroy", "drained", "dead"} => rpc[s] = "idle")'
  <2>1. CASE Destroy(s) /\ rpc' = rpc
    BY <2>1 DEF Destroy
  <2>2. CASE ctl[s] \in {"destroy", "drained", "dead"}
    <3>1. rpc[s] = "idle"
      BY <1>0, <2>2 DEF Leaving
    <3>2. ASSUME NEW i \in Items, Receive(i) PROVE rpc'[s] = rpc[s]
      BY <1>0, <2>2, <3>2 DEF Receive, StubTypes
    <3>3. ASSUME NEW t \in Stubs, ReceiverStep(t) PROVE rpc'[s] = rpc[s]
      BY <1>0, <3>1, <3>3 DEF ReceiverStep, EnqueueRefused, Enqueue, InlineRefuse, InlineRun,
         InlineStart,
         InlineReturn, InlineEnd, Idle, StubTypes
    <3> QED BY <3>1, <3>2, <3>3, ReceiveSteps
  <2> QED BY <1>0, <2>1, <2>2, EndOfStub
<1>2. ASSUME ctl'[s] \in {"drained", "dead"}, NEW p \in Pools, NEW i \in queue'[p]
      PROVE  StubOf[i] # s
  <2>1. CASE ctl[s] \in {"drained", "dead"}
    <3>1. CASE i \in queue[p]
      BY <1>0, <2>1, <3>1 DEF Leaving
    <3>2. ASSUME NEW t \in Stubs, Enqueue(t), i = ritem[t] PROVE StubOf[i] # s
      <4>1. i \in Items /\ WithReceiver(i, t)
        BY <1>0, <3>2 DEF Enqueue, Shape, WithReceiver
      <4>2. StubOf[i] = t /\ rpc[t] # "idle"
        BY <4>1 DEF PlaceInv, Placed, WithReceiver
      <4> QED BY <1>0, <2>1, <4>2 DEF Leaving
    <3>3. i \in Items
      BY <1>0, <1>2, QueueTypesStep DEF QueueTypes
    <3> QED BY <1>0, <1>2, <3>1, <3>2, <3>3, QueuePlaces
  <2>2. CASE RejectQueued(s) /\ ctl[s] = "destroy"
    <3>1. opool = NoPool
      BY <1>0, <2>2 DEF Serial, OwnerAt
    <3>2. CASE p # current
      <4>1. queue[p] = {}
        <5>1. p \in Nat /\ configs \in Nat /\ Life(p)
          BY <1>0, PoolAssumption DEF Pools, OwnerTypes, LifeInv
        <5>2. p # opool
          BY <1>0, <3>1
        <5>3. CASE p <= configs
          BY <3>2, <5>1, <5>2, <5>3 DEF Life
        <5>4. CASE p > configs
          BY <5>1, <5>4 DEF Life
        <5> QED BY <5>1, <5>3, <5>4
      <4> QED BY <1>2, <2>2, <3>2, <4>1 DEF RejectQueued
    <3>3. CASE p = current
      <4>1. p \in {current} \ {NoPool}
        BY <1>0, <3>3
      <4>2. i \in queue[p]
              /\ i \notin {j \in UNION {queue[q] : q \in {current} \ {NoPool}} : StubOf[j] = s}
        BY <1>2, <2>2, <3>3 DEF RejectQueued
      <4> QED BY <4>1, <4>2
    <3> QED BY <3>2, <3>3
  <2> QED BY <1>0, <1>2, <2>1, <2>2, EndOfStub
<1>3. ASSUME ctl'[s] = "dead", NEW i \in oitems' PROVE StubOf[i] # s
  <2>1. CASE ctl[s] = "dead"
    <3>1. CASE i \in oitems
      BY <1>0, <2>1, <3>1 DEF Leaving
    <3>2. CASE JoinStop /\ i \in queue[opool]
      BY <1>0, <2>1, <3>2 DEF Leaving, JoinStop, Shape
    <3> QED BY <1>3, <3>1, <3>2, TakenSteps DEF JoinStop, JoinReject
  <2>2. CASE AwaitInflight(s) /\ ctl[s] = "drained"
    BY <1>0, <1>3, <2>2 DEF AwaitInflight, Serial, OwnerAt, ownerVars
  <2> QED BY <1>0, <1>3, <2>1, <2>2, EndOfStub
<1>4. ASSUME ctl'[s] = "dead", NEW w \in Workers, wpc'[w] \in Inside PROVE StubOf[witem'[w]] # s
  <2>1. CASE ctl[s] = "dead" /\ wpc[w] \in Inside /\ witem'[w] = witem[w]
    BY <1>0, <2>1 DEF Leaving
  <2>2. CASE ctl[s] = "dead" /\ WorkerPop(w)
    <3>1. wpool[w] \in Pools /\ First(queue[wpool[w]]) \in queue[wpool[w]]
      BY <1>0, <2>2, PoppedItem
    <3>2. witem'[w] = First(queue[wpool[w]])
      BY <1>0, <2>2 DEF WorkerPop, ThreadTypes
    <3> QED BY <1>0, <2>2, <3>1, <3>2 DEF Leaving
  <2>3. CASE AwaitInflight(s) /\ ctl[s] = "drained"
    <3>1. UNCHANGED wVars /\ inflight[s] = 0
      BY <2>3 DEF AwaitInflight
    <3> QED BY <1>0, <1>4, <3>1, NobodyInside DEF wVars
  <2>4. (wpc[w] \in Inside /\ witem'[w] = witem[w]) \/ WorkerPop(w)
    BY <1>0, <1>4, InsideSteps
  <2> QED BY <1>0, <1>4, <2>1, <2>2, <2>3, <2>4, EndOfStub
<1> QED BY <1>1, <1>2, <1>3, <1>4 DEF Leaving

\* A destroyed stub is not called back, when its owner does not shut the pools down while it
\* drains: nothing of it is queued, with a pool thread or with the thread that shuts the pool
\* down, though those threads keep no reference to it (~SnaccROSEBase, JoinPool).
THEOREM DeadStubIsUntouched == SerialShutdown => (Spec => []DeadStubUntouched)
<1> SUFFICES ASSUME SerialShutdown PROVE Spec => []DeadStubUntouched
  OBVIOUS
<1>1. Init => EndInv
  BY DEF Init, EndInv, Serial, Leaving
<1>2. IInv /\ LifeInv /\ PlaceInv /\ EndInv /\ [Next]_vars => EndInv'
  <2> SUFFICES ASSUME IInv, LifeInv, PlaceInv, EndInv, [Next]_vars PROVE EndInv'
    OBVIOUS
  <2>1. Serial'
    BY SerialStep DEF IInv, EndInv
  <2>2. \A s \in Stubs : Leaving(s)'
    BY LeavingStep
  <2> QED BY <2>1, <2>2 DEF EndInv
<1>3. EndInv => DeadStubUntouched
  BY DEF EndInv, Leaving, DeadStubUntouched
<1> QED BY <1>1, <1>2, <1>3, PlaceInvariant, PTL DEF Spec

-----------------------------------------------------------------------------
(* The refinement *)

\* A thread is about to call the handler of an item, or in it.
Enters(i, w) == witem[w] = i /\ wpc[w] = "cleared"
EntersInline(i, s) == ritem[s] = i /\ rpc[s] = "cleared"
Runs(i, w) == witem[w] = i /\ wpc[w] \in {"handler", "reply"}
RunsInline(i, s) == ritem[s] = i /\ rpc[s] \in {"handler", "reply"}

\* A step that does not bring an item nearer to its handler.
NoStart(i) == /\ \A w \in Workers : ~((WorkerRun(w) \/ WorkerStart(w)) /\ witem[w] = i)
              /\ \A s \in Stubs : ~((InlineRun(s) \/ InlineStart(s)) /\ ritem[s] = i)

\* What a pool thread does with an item goes on until it is recorded as ended ...
LEMMA ThreadRuns ==
  ASSUME TypeOK, Shape, [Next]_vars, NEW i \in Items, NEW w \in Workers, NoStart(i),
         ends'[i] = ends[i]
  PROVE  (Runs(i, w)' <=> Runs(i, w)) /\ (Enters(i, w)' <=> Enters(i, w))
<1> DEFINE Same == (Runs(i, w)' <=> Runs(i, w)) /\ (Enters(i, w)' <=> Enters(i, w))
<1>0. ThreadTypes /\ EndTypes /\ NoItem \notin Items
  BY PoolAssumption DEF TypeOK
<1> USE <1>0 DEF ThreadTypes, Runs, Enters
<1>1. CASE UNCHANGED <<wVars, running, idle, live, inflight>>
  BY <1>1 DEF wVars
<1>2. ASSUME NEW v \in Workers, WorkerStep(v) \/ WorkerTimeout(v) PROVE Same
  <2>0. \A how : ~End(i, how)
    <3>1. ends[i] \in Seq(Hows) /\ DOMAIN ends = Items
      BY DEF EndTypes
    <3>2. \A how : Append(ends[i], how) # ends[i]
      BY <3>1
    <3> QED BY <3>1, <3>2 DEF End
  <2>1. CASE WorkerPop(v)
    BY <2>1, PoppedItem DEF WorkerPop, Woken
  <2>2. CASE WorkerStop(v)
    BY <2>2 DEF WorkerStop, NotifyAll, Awake
  <2>3. CASE WorkerWait(v) \/ WorkerTimeout(v) \/ ExitIdleWorker(v) \/ WorkerRetire(v)
    BY <2>3 DEF WorkerWait, WorkerTimeout, ExitIdleWorker, WorkerRetire, Awake
  <2>4. CASE WorkerLeave(v) \/ WorkerAgain(v)
    BY <2>4 DEF WorkerLeave, WorkerAgain
  <2>5. CASE WorkerRun(v) \/ WorkerStart(v)
    BY <2>5 DEF WorkerRun, WorkerStart, NoStart
  <2>6. CASE WorkerRefuse(v) \/ WorkerReply(v) \/ WorkerThrow(v)
    BY <2>0, <2>6 DEF WorkerRefuse, WorkerReply, WorkerThrow
  <2>7. CASE WorkerReturn(v)
    BY <2>0, <2>7 DEF WorkerReturn
  <2> QED BY <1>2, <2>1, <2>2, <2>3, <2>4, <2>5, <2>6, <2>7 DEF WorkerStep
<1>3. ASSUME NEW s \in Stubs, Enqueue(s) PROVE Same
  <2>1. /\ witem' = witem
        /\ \/ \E v \in MayStart : wpc' = [wpc EXCEPT ![v] = "start"]
           \/ wpc' \in NotifyOne(rpool[s], wpc)
    BY <1>3 DEF Enqueue
  <2> QED BY <2>1 DEF NotifyOne, MayStart, Waiting
<1>4. CASE Configure
  BY <1>4 DEF Configure, MayStart
<1>5. CASE JoinStop
  BY <1>5 DEF JoinStop, NotifyAll
<1> QED BY <1>1, <1>2, <1>3, <1>4, <1>5, ThreadSteps

\* ... and so does what a socket thread does with it.
LEMMA ReceiverRuns ==
  ASSUME TypeOK, Shape, [Next]_vars, NEW i \in Items, NEW s \in Stubs, NoStart(i),
         ends'[i] = ends[i]
  PROVE  (RunsInline(i, s)' <=> RunsInline(i, s)) /\ (EntersInline(i, s)' <=> EntersInline(i, s))
<1> DEFINE Same == /\ RunsInline(i, s)' <=> RunsInline(i, s)
                   /\ EntersInline(i, s)' <=> EntersInline(i, s)
<1>0. StubTypes /\ EndTypes /\ NoItem \notin Items /\ StubOf \in [Items -> Stubs]
  BY PoolAssumption DEF TypeOK
<1> USE <1>0 DEF StubTypes, RunsInline, EntersInline
<1>1. ASSUME NEW j \in Items, Receive(j) PROVE Same
  BY <1>1 DEF Receive
<1>2. ASSUME NEW t \in Stubs, ReceiverStep(t) PROVE Same
  <2>0. \A how : ~End(i, how)
    <3>1. ends[i] \in Seq(Hows) /\ DOMAIN ends = Items
      BY DEF EndTypes
    <3>2. \A how : Append(ends[i], how) # ends[i]
      BY <3>1
    <3> QED BY <3>1, <3>2 DEF End
  <2>1. CASE EnqueueRefused(t) \/ Enqueue(t) \/ InlineRefuse(t)
    BY <2>0, <2>1 DEF EnqueueRefused, Enqueue, InlineRefuse, Idle
  <2>2. CASE InlineRun(t) \/ InlineStart(t)
    BY <2>2 DEF InlineRun, InlineStart, NoStart
  <2>3. CASE InlineReturn(t)
    BY <2>3 DEF InlineReturn
  <2>4. ASSUME NEW how, InlineEnd(t, how) PROVE Same
    BY <2>0, <2>4 DEF InlineEnd, Idle
  <2> QED BY <1>2, <2>1, <2>2, <2>3, <2>4 DEF ReceiverStep
<1> QED BY <1>1, <1>2, ReceiveSteps

\* The phase of an item, from what is recorded of it.
LEMMA PhaseOf ==
  ASSUME NEW i \in Items
  PROVE  phase[i] = IF ends[i] # <<>> THEN "ended" ELSE IF Held(i) THEN "running"
                    ELSE IF Cleared(i) THEN "admitted"
                    ELSE IF i \in arrived THEN "waiting" ELSE "new"
  BY DEF phase

\* An item keeps its threads while it is not brought nearer to its handler and does not end.
LEMMA HeldKept ==
  ASSUME TypeOK, Shape, [Next]_vars, NEW i \in Items, NoStart(i), ends'[i] = ends[i]
  PROVE  /\ Held(i)' <=> Held(i)
         /\ Cleared(i)' <=> Cleared(i)
         /\ i \in onPool' <=> i \in onPool
<1>1. /\ Held(i) <=> (\E w \in Workers : Runs(i, w)) \/ (\E s \in Stubs : RunsInline(i, s))
      /\ Cleared(i) <=> (\E w \in Workers : Enters(i, w)) \/ (\E s \in Stubs : EntersInline(i, s))
      /\ i \in onPool <=> \E w \in Workers : Runs(i, w) \/ Enters(i, w)
  BY DEF Held, Cleared, onPool, Runs, RunsInline, Enters, EntersInline
<1>2. /\ Held(i)' <=> (\E w \in Workers : Runs(i, w)') \/ (\E s \in Stubs : RunsInline(i, s)')
      /\ Cleared(i)' <=> \/ \E w \in Workers : Enters(i, w)'
                         \/ \E s \in Stubs : EntersInline(i, s)'
      /\ i \in onPool' <=> \E w \in Workers : Runs(i, w)' \/ Enters(i, w)'
  BY DEF Held, Cleared, onPool, Runs, RunsInline, Enters, EntersInline
<1> QED BY <1>1, <1>2, ThreadRuns, ReceiverRuns

\* The phase of an item to which nothing happened stays as it is.
LEMMA PhaseKept ==
  ASSUME TypeOK, Shape, [Next]_vars, NEW i \in Items, NoStart(i), ends'[i] = ends[i],
         i \in arrived' <=> i \in arrived
  PROVE  phase'[i] = phase[i]
<1>1. (Held(i)' <=> Held(i)) /\ (Cleared(i)' <=> Cleared(i))
  BY HeldKept
<1>2. phase'[i] = IF ends'[i] # <<>> THEN "ended" ELSE IF Held(i)' THEN "running"
                  ELSE IF Cleared(i)' THEN "admitted"
                  ELSE IF i \in arrived' THEN "waiting" ELSE "new"
  BY DEF phase
<1> QED BY <1>1, <1>2, PhaseOf

\* An item that somebody has to end waits, was let in, or runs.
LEMMA PhaseThere ==
  ASSUME NEW i \in Items, Placed(i), Somewhere(i)
  PROVE  phase[i] = IF Held(i) THEN "running" ELSE IF Cleared(i) THEN "admitted" ELSE "waiting"
  BY PhaseOf DEF Placed

\* The handler of an item is called and runs where the item is.
LEMMA HeldThere ==
  ASSUME NEW i \in Items, Placed(i)
  PROVE  /\ Held(i) \/ Cleared(i) => Somewhere(i)
         /\ i \in oitems => ~Held(i) /\ ~Cleared(i)
         /\ \A p \in Pools : i \in queue[p] => ~Held(i) /\ ~Cleared(i)
         /\ \A w \in Workers : WithThread(i, w) => /\ Held(i) <=> wpc[w] \in {"handler", "reply"}
                                                   /\ Cleared(i) <=> wpc[w] = "cleared"
         /\ \A s \in Stubs : WithReceiver(i, s) => /\ Held(i) <=> rpc[s] \in {"handler", "reply"}
                                                   /\ Cleared(i) <=> rpc[s] = "cleared"
                                                   /\ i \notin onPool
         /\ i \in onPool => Somewhere(i)
<1>1. /\ Held(i) => \/ \E w \in Workers : WithThread(i, w) /\ wpc[w] \in {"handler", "reply"}
                    \/ \E s \in Stubs : WithReceiver(i, s) /\ rpc[s] \in {"handler", "reply"}
      /\ Cleared(i) => \/ \E w \in Workers : WithThread(i, w) /\ wpc[w] = "cleared"
                       \/ \E s \in Stubs : WithReceiver(i, s) /\ rpc[s] = "cleared"
      /\ i \in onPool => \E w \in Workers : WithThread(i, w)
  BY DEF Held, Cleared, onPool, WithThread, WithReceiver
<1>2. /\ \A w \in Workers : WithThread(i, w) /\ wpc[w] \in {"handler", "reply"} => Held(i)
      /\ \A s \in Stubs : WithReceiver(i, s) /\ rpc[s] \in {"handler", "reply"} => Held(i)
      /\ \A w \in Workers : WithThread(i, w) /\ wpc[w] = "cleared" => Cleared(i)
      /\ \A s \in Stubs : WithReceiver(i, s) /\ rpc[s] = "cleared" => Cleared(i)
  BY DEF Held, Cleared, WithThread, WithReceiver
<1>3. (Held(i) \/ Cleared(i) \/ i \in onPool) => Somewhere(i)
  BY <1>1 DEF Somewhere
<1>4. (i \in oitems => ~Held(i) /\ ~Cleared(i))
        /\ \A p \in Pools : i \in queue[p] => ~Held(i) /\ ~Cleared(i)
  BY <1>1 DEF Placed
<1>5. ASSUME NEW w \in Workers, WithThread(i, w)
      PROVE  (Held(i) <=> wpc[w] \in {"handler", "reply"}) /\ (Cleared(i) <=> wpc[w] = "cleared")
  <2>1. /\ \A v \in Workers : WithThread(i, v) => v = w
        /\ \A s \in Stubs : ~WithReceiver(i, s)
    BY <1>5 DEF Placed
  <2> QED BY <1>1, <1>2, <1>5, <2>1
<1>6. ASSUME NEW s \in Stubs, WithReceiver(i, s)
      PROVE  /\ (Held(i) <=> rpc[s] \in {"handler", "reply"}) /\ (Cleared(i) <=> rpc[s] = "cleared")
             /\ i \notin onPool
  <2>1. /\ \A w \in Workers : ~WithThread(i, w)
        /\ \A t \in Stubs : WithReceiver(i, t) => t = s
    BY <1>6 DEF Placed
  <2> QED BY <1>1, <1>2, <1>6, <2>1
<1> QED BY <1>3, <1>4, <1>5, <1>6

\* What has ended is not on a pool thread.
EndedOff == \A i \in Items : ends[i] # <<>> => i \notin onPool

LEMMA EndedIsOff == PlaceInv => EndedOff
  BY HeldThere DEF PlaceInv, Placed, EndedOff

\* A session changes only when a pause begins, has waited, or is taken back.
LEMMA SessionSteps ==
  ASSUME TypeOK, [Next]_vars
  PROVE  \/ session' = session
         \/ \E s \in Stubs : \/ AwaitInflight(s) \/ PauseRoseProcessing(s) \/ Destroy(s)
                             \/ ResumeRoseProcessing(s)
<1>0. StubTypes
  BY DEF TypeOK
<1>1. CASE ctl' = ctl
  BY <1>1 DEF session
<1>2. ASSUME NEW s \in Stubs, RejectQueued(s) PROVE session' = session
  <2>1. ctl[s] \in {"pause", "destroy"} /\ \E l \in {"paused", "drained"} : ctl' = [ctl EXCEPT ![s] = l]
    BY <1>2 DEF RejectQueued
  <2> QED BY <1>0, <2>1 DEF session, StubTypes
<1> QED BY <1>1, <1>2, GateSteps

\* A step that records the end h of the items is, and brings no item nearer to its handler,
\* finishes them.
LEMMA FinishStep ==
  ASSUME TypeOK, Shape, EndTypes', PlaceInv', [Next]_vars, NEW is \in SUBSET Items, NEW h,
         \A i \in is : ends[i] = <<>> /\ ends'[i] = Append(ends[i], h),
         \A i \in Items \ is : ends'[i] = ends[i] /\ NoStart(i),
         UNCHANGED <<arrived, session>>
  PROVE  Contract!Finish(is, h)
<1>1. \A i \in is : ends'[i] = <<h>>
  OBVIOUS
<1>2. ends' = [i \in Items |-> IF i \in is THEN <<h>> ELSE ends[i]]
  BY <1>1 DEF EndTypes
<1>3. \A i \in is : phase'[i] = "ended"
  <2>1. \A i \in is : ends'[i] # <<>>
    BY <1>1
  <2> QED BY <2>1 DEF phase
<1>4. \A i \in Items \ is : phase'[i] = phase[i]
  BY PhaseKept
<1>5. phase' = [i \in Items |-> IF i \in is THEN "ended" ELSE phase[i]]
  <2>1. phase' = [i \in Items |-> phase'[i]]
    BY DEF phase
  <2> QED BY <1>3, <1>4, <2>1
<1>6. onPool' = onPool \ is
  <2>1. \A i \in is : i \notin onPool'
    <3>1. PlaceInv' => EndedOff'
      BY EndedIsOff, PTL
    <3>2. \A i \in is : ends'[i] # <<>>
      BY <1>1
    <3> QED BY <3>1, <3>2 DEF EndedOff
  <2>2. \A i \in Items \ is : i \in onPool' <=> i \in onPool
    BY HeldKept
  <2>3. onPool \subseteq Items /\ onPool' \subseteq Items
    BY DEF onPool
  <2> QED BY <2>1, <2>2, <2>3
<1> QED BY <1>2, <1>5, <1>6 DEF Contract!Finish

\* The threads that end an item bring none nearer to its handler in the same step.
LEMMA NoStartWhileEnding ==
  ASSUME TypeOK, ends' # ends, NEW i \in Items
  PROVE  NoStart(i)
  BY DEF NoStart, WorkerRun, WorkerStart, InlineRun, InlineStart

\* One item ends.
LEMMA OneEnds ==
  ASSUME TypeOK, Shape, EndTypes', PlaceInv', [Next]_vars, NEW i \in Items, Placed(i), Somewhere(i),
         NEW h, End(i, h), UNCHANGED <<arrived, session>>
  PROVE  Contract!Finish({i}, h)
<1>1. ends[i] = <<>> /\ ends \in [Items -> Seq(Hows)]
  BY DEF Placed, TypeOK, EndTypes
<1>2. ends'[i] = Append(ends[i], h) /\ \A j \in Items \ {i} : ends'[j] = ends[j]
  BY <1>1 DEF End
<1>3. ends'[i] # ends[i]
  BY <1>1, <1>2
<1>4. \A j \in Items : NoStart(j)
  BY <1>3, NoStartWhileEnding
<1> QED BY <1>1, <1>2, <1>4, FinishStep

\* A step of the pools that records an end refuses items that wait, or is the return of a
\* handler.
LEMMA EndingRefines ==
  ASSUME IInv, PlaceInv, IInv', PlaceInv', [Next]_vars, ends' # ends
  PROVE  Contract!Next
<1>0. /\ TypeOK /\ Shape /\ EndTypes' /\ StubOf \in [Items -> Stubs] /\ EndTypes /\ OwnerTypes
      /\ QueueTypes /\ StubTypes /\ NoItem \notin Items
  BY PoolAssumption DEF IInv, TypeOK
<1>1. session' = session
  <2>1. ~(\E s \in Stubs : \/ AwaitInflight(s) \/ PauseRoseProcessing(s) \/ Destroy(s)
                           \/ ResumeRoseProcessing(s))
    BY DEF AwaitInflight, PauseRoseProcessing, Destroy, ResumeRoseProcessing
  <2> QED BY <1>0, <2>1, SessionSteps
<1>2. ASSUME NEW i \in Items, Somewhere(i), NEW h \in {"shutdown", "queueFull", "expired"},
             End(i, h), ~Held(i), ~Cleared(i), UNCHANGED arrived
      PROVE  Contract!Next
  <2>1. phase[i] = "waiting"
    BY <1>2, PhaseThere DEF PlaceInv
  <2>2. Contract!Finish({i}, h)
    BY <1>0, <1>2, <1>1, OneEnds DEF PlaceInv
  <2>3. Contract!Refuse(StubOf[i])
    BY <2>1, <2>2 DEF Contract!Refuse
  <2> QED BY <1>0, <2>3 DEF Contract!Next
<1>3. ASSUME NEW i \in Items, Somewhere(i), NEW h \in {"replied", "dropped", "threw"},
             End(i, h), Held(i), UNCHANGED arrived
      PROVE  Contract!Next
  <2>1. phase[i] = "running"
    BY <1>3, PhaseThere DEF PlaceInv
  <2>2. Contract!Finish({i}, h)
    BY <1>0, <1>3, <1>1, OneEnds DEF PlaceInv
  <2> QED BY <2>1, <2>2 DEF Contract!Return, Contract!Next
<1>4. ASSUME NEW w \in Workers,
             \/ WorkerRefuse(w) \/ WorkerReturn(w) \/ WorkerReply(w) \/ WorkerThrow(w)
      PROVE  Contract!Next
  <2>1. PICK i \in Items : i = witem[w] /\ WithThread(i, w) /\ UNCHANGED arrived
    BY <1>0, <1>4 DEF WorkerRefuse, WorkerReturn, WorkerReply, WorkerThrow, Shape, Inside,
       WithThread, recvVars
  <2>2. /\ Placed(i) /\ Somewhere(i) /\ (Held(i) <=> wpc[w] \in {"handler", "reply"})
        /\ Cleared(i) <=> wpc[w] = "cleared"
    BY <2>1, HeldThere DEF PlaceInv, Somewhere
  <2>3. CASE WorkerRefuse(w)
    BY <1>2, <2>1, <2>2, <2>3 DEF WorkerRefuse
  <2>4. CASE WorkerReturn(w) \/ WorkerReply(w) \/ WorkerThrow(w)
    BY <1>3, <2>1, <2>2, <2>4 DEF WorkerReturn, WorkerReply, WorkerThrow
  <2> QED BY <1>4, <2>3, <2>4
<1>5. ASSUME NEW s \in Stubs,
             \/ EnqueueRefused(s) \/ InlineRefuse(s)
             \/ \E how \in {"replied", "dropped", "threw"} : InlineEnd(s, how)
      PROVE  Contract!Next
  <2>1. PICK i \in Items : i = ritem[s] /\ WithReceiver(i, s) /\ UNCHANGED arrived
    BY <1>0, <1>5 DEF EnqueueRefused, InlineRefuse, InlineEnd, Shape, WithReceiver
  <2>2. /\ Placed(i) /\ Somewhere(i) /\ (Held(i) <=> rpc[s] \in {"handler", "reply"})
        /\ Cleared(i) <=> rpc[s] = "cleared"
    BY <2>1, HeldThere DEF PlaceInv, Somewhere
  <2>3. CASE EnqueueRefused(s) \/ InlineRefuse(s)
    BY <1>2, <2>1, <2>2, <2>3 DEF EnqueueRefused, InlineRefuse
  <2>4. ASSUME NEW how \in {"replied", "dropped", "threw"}, InlineEnd(s, how)
        PROVE  Contract!Next
    BY <1>3, <2>1, <2>2, <2>4 DEF InlineEnd
  <2> QED BY <1>5, <2>3, <2>4
<1>6. ASSUME NEW s \in Stubs, RejectQueued(s) PROVE Contract!Next
  <2> DEFINE mine == {i \in UNION {queue[p] : p \in {current} \ {NoPool}} : StubOf[i] = s}
  <2>1. /\ UNCHANGED arrived
        /\ ends' = [i \in Items |-> IF i \in mine THEN Append(ends[i], "shutdown") ELSE ends[i]]
    BY <1>6 DEF RejectQueued, recvVars
  <2>2. \A i \in mine : \E p \in Pools : i \in queue[p] /\ i \in Items
    BY <1>0 DEF OwnerTypes, QueueTypes
  <2>3. \A i \in mine : StubOf[i] = s
    OBVIOUS
  <2> HIDE DEF mine
  <2>4. \A i \in mine : ends[i] = <<>> /\ phase[i] = "waiting" /\ i \in Items
    <3>1. \A i \in mine : i \in Items /\ Placed(i) /\ Somewhere(i) /\ ~Held(i) /\ ~Cleared(i)
      BY <2>2, HeldThere DEF PlaceInv, Somewhere
    <3> QED BY <3>1, PhaseThere DEF Placed
  <2>5. \A i \in Items : NoStart(i)
    BY <1>0, NoStartWhileEnding
  <2>6. Contract!Finish(mine, "shutdown")
    BY <1>0, <1>1, <2>1, <2>4, <2>5, FinishStep
  <2>7. Contract!Refuse(s)
    BY <2>3, <2>4, <2>6 DEF Contract!Refuse
  <2> QED BY <2>7 DEF Contract!Next
<1>7. CASE JoinReject
  <2>1. First(oitems) \in oitems
    BY <1>0, <1>7, FirstIn DEF JoinReject, OwnerTypes, QueueTypes
  <2>2. PICK i \in Items : i = First(oitems) /\ i \in oitems
    BY <1>0, <2>1 DEF OwnerTypes
  <2>3. Somewhere(i) /\ ~Held(i) /\ ~Cleared(i)
    BY <2>2, HeldThere DEF PlaceInv, Somewhere
  <2> QED BY <1>2, <1>7, <2>2, <2>3 DEF JoinReject, recvVars
<1> QED BY <1>4, <1>5, <1>6, <1>7, EndingSteps

\* A step that only moves i on.
LEMMA MovesOn ==
  ASSUME IInv, [Next]_vars, NEW i \in Items, NEW to, phase'[i] = to,
         UNCHANGED <<ends, arrived, ctl>>, \A j \in Items \ {i} : NoStart(j)
  PROVE  /\ Contract!Move(i, phase[i], to)
         /\ onPool' \ {i} = onPool \ {i}
<1>1. TypeOK /\ Shape
  BY DEF IInv
<1>2. \A j \in Items \ {i} : phase'[j] = phase[j] /\ (j \in onPool' <=> j \in onPool)
  BY <1>1, PhaseKept, HeldKept
<1>3. phase' = [phase EXCEPT ![i] = to]
  <2>1. phase' = [j \in Items |-> phase'[j]] /\ phase = [j \in Items |-> phase[j]]
    BY DEF phase
  <2> QED BY <1>2, <2>1
<1>4. onPool \subseteq Items /\ onPool' \subseteq Items
  BY DEF onPool
<1>5. session' = session
  BY DEF session
<1> QED BY <1>2, <1>3, <1>4, <1>5 DEF Contract!Move

\* Only one item is moved on by a pool thread ...
LEMMA ThreadMovesOne ==
  ASSUME TypeOK, NEW w \in Workers, WorkerRun(w) \/ WorkerStart(w), NEW j \in Items, j # witem[w]
  PROVE  NoStart(j)
<1>0. ThreadTypes /\ StubTypes
  BY DEF TypeOK
<1>1. PICK l \in {"cleared", "handler"} : /\ wpc' = [wpc EXCEPT ![w] = l] /\ wpc[w] # l
                                          /\ rpc' = rpc
  BY DEF WorkerRun, WorkerStart, recvVars
<1>2. \A v \in Workers : WorkerRun(v) \/ WorkerStart(v) => v = w
  BY <1>0, <1>1 DEF WorkerRun, WorkerStart, ThreadTypes
<1>3. \A s \in Stubs : ~InlineRun(s) /\ ~InlineStart(s)
  BY <1>0, <1>1 DEF InlineRun, InlineStart, StubTypes
<1> QED BY <1>2, <1>3 DEF NoStart

\* ... or a socket thread.
LEMMA ReceiverMovesOne ==
  ASSUME TypeOK, NEW s \in Stubs, InlineRun(s) \/ InlineStart(s), NEW j \in Items, j # ritem[s]
  PROVE  NoStart(j)
<1>0. ThreadTypes /\ StubTypes
  BY DEF TypeOK
<1>1. PICK l \in {"cleared", "handler"} : /\ rpc' = [rpc EXCEPT ![s] = l] /\ rpc[s] # l
                                          /\ wpc' = wpc
  BY DEF InlineRun, InlineStart, wVars
<1>2. \A t \in Stubs : InlineRun(t) \/ InlineStart(t) => t = s
  BY <1>0, <1>1 DEF InlineRun, InlineStart, StubTypes
<1>3. \A w \in Workers : ~WorkerRun(w) /\ ~WorkerStart(w)
  BY <1>0, <1>1 DEF WorkerRun, WorkerStart, ThreadTypes
<1> QED BY <1>2, <1>3 DEF NoStart

\* The checks of OnInvokeMessage let an item in, and its handler is then called.
LEMMA ThreadRefines ==
  ASSUME IInv, PlaceInv, [Next]_vars, NEW w \in Workers, WorkerRun(w) \/ WorkerStart(w)
  PROVE  Contract!Next
<1>0. /\ TypeOK /\ Shape /\ StubTypes /\ ThreadTypes /\ GateShut /\ PauseDrains
      /\ StubOf \in [Items -> Stubs] /\ NoItem \notin Items
  BY PoolAssumption DEF IInv, TypeOK
<1>1. PICK i \in Items : i = witem[w] /\ WithThread(i, w)
  BY <1>0 DEF WorkerRun, WorkerStart, Shape, Inside, WithThread
<1>2. UNCHANGED <<ends, arrived, ctl, witem>>
  BY DEF WorkerRun, WorkerStart, recvVars, stubVars
<1>3. /\ Placed(i) /\ Somewhere(i) /\ ends[i] = <<>>
      /\ Held(i) <=> wpc[w] \in {"handler", "reply"}
      /\ Cleared(i) <=> wpc[w] = "cleared"
  BY <1>1, HeldThere DEF PlaceInv, Placed, Somewhere
<1>4. \A j \in Items \ {i} : NoStart(j)
  BY <1>0, <1>1, ThreadMovesOne
<1>5. \A v \in Workers \ {w} : witem[v] = i => wpc[v] \notin {"cleared", "handler", "reply"}
  BY <1>1, <1>3 DEF Placed, WithThread
<1>6. \A s \in Stubs : ritem[s] = i => rpc[s] = "idle"
  BY <1>1, <1>3 DEF Placed, WithThread, WithReceiver
<1>7. CASE WorkerRun(w)
  <2>1. phase[i] = "waiting"
    BY <1>3, <1>7, PhaseThere DEF WorkerRun
  <2>2. wpc' = [wpc EXCEPT ![w] = "cleared"] /\ rpc' = rpc /\ ritem' = ritem
    BY <1>7 DEF WorkerRun, recvVars
  <2>3. Cleared(i)' /\ ~Held(i)'
    BY <1>0, <1>1, <1>2, <1>5, <1>6, <2>2 DEF Held, Cleared, ThreadTypes
  <2>4. phase'[i] = "admitted"
    BY <1>2, <1>3, <2>3 DEF phase
  <2>5. session[StubOf[i]] = "open"
    BY <1>0, <1>1, <1>7 DEF WorkerRun, GateShut, session
  <2>6. Contract!Move(i, "waiting", "admitted") /\ onPool' \ {i} = onPool \ {i}
    BY <1>2, <1>4, <2>1, <2>4, MovesOn
  <2>7. i \notin onPool
    BY <1>0, <1>1, <1>5, <1>7 DEF onPool, WorkerRun
  <2>8. onPool' = onPool \/ onPool' = onPool \cup {i}
    BY <2>6, <2>7
  <2> QED BY <2>5, <2>6, <2>8 DEF Contract!Admit, Contract!Next
<1>8. CASE WorkerStart(w)
  <2>1. phase[i] = "admitted"
    BY <1>3, <1>8, PhaseThere DEF WorkerStart
  <2>2. wpc' = [wpc EXCEPT ![w] = "handler"]
    BY <1>8 DEF WorkerStart
  <2>3. Held(i)'
    BY <1>0, <1>1, <1>2, <2>2 DEF Held, ThreadTypes
  <2>4. phase'[i] = "running"
    BY <1>2, <1>3, <2>3 DEF phase
  <2>5. session[StubOf[i]] # "closed"
    BY <1>0, <1>1, <1>8 DEF WorkerStart, PauseDrains, session
  <2>6. Contract!Move(i, "admitted", "running") /\ onPool' \ {i} = onPool \ {i}
    BY <1>2, <1>4, <2>1, <2>4, MovesOn
  <2>7. i \in onPool /\ i \in onPool'
    BY <1>0, <1>1, <1>2, <1>8, <2>2 DEF onPool, WorkerStart, ThreadTypes
  <2>8. onPool' = onPool
    BY <2>6, <2>7
  <2> QED BY <2>5, <2>6, <2>8 DEF Contract!Start, Contract!Next
<1> QED BY <1>7, <1>8

\* The socket thread does the same, and no pause waits for it.
LEMMA ReceiverRefines ==
  ASSUME IInv, PlaceInv, [Next]_vars, NEW s \in Stubs, InlineRun(s) \/ InlineStart(s)
  PROVE  Contract!Next
<1>0. /\ TypeOK /\ Shape /\ StubTypes /\ ThreadTypes /\ GateShut
      /\ StubOf \in [Items -> Stubs] /\ NoItem \notin Items
  BY PoolAssumption DEF IInv, TypeOK
<1>1. PICK i \in Items : i = ritem[s] /\ WithReceiver(i, s)
  BY <1>0 DEF InlineRun, InlineStart, Shape, WithReceiver
<1>2. UNCHANGED <<ends, arrived, ctl, ritem, wpc, witem>>
  BY DEF InlineRun, InlineStart, recvVars, stubVars, wVars
<1>3. /\ Placed(i) /\ Somewhere(i) /\ ends[i] = <<>> /\ StubOf[i] = s /\ i \notin onPool
      /\ Held(i) <=> rpc[s] \in {"handler", "reply"}
      /\ Cleared(i) <=> rpc[s] = "cleared"
  BY <1>1, HeldThere DEF PlaceInv, Placed, Somewhere
<1>4. \A j \in Items \ {i} : NoStart(j)
  BY <1>0, <1>1, ReceiverMovesOne
<1>5. \A w \in Workers : witem[w] = i => wpc[w] \notin {"cleared", "handler", "reply"}
  BY <1>3 DEF onPool
<1>6. \A t \in Stubs \ {s} : ritem[t] = i => rpc[t] = "idle"
  BY <1>0, <1>1, <1>3 DEF Placed, WithReceiver
<1>7. onPool' = onPool
  BY <1>2 DEF onPool
<1>8. CASE InlineRun(s)
  <2>1. phase[i] = "waiting"
    BY <1>3, <1>8, PhaseThere DEF InlineRun
  <2>2. rpc' = [rpc EXCEPT ![s] = "cleared"]
    BY <1>8 DEF InlineRun
  <2>3. Cleared(i)' /\ ~Held(i)'
    BY <1>0, <1>1, <1>2, <1>5, <1>6, <2>2 DEF Held, Cleared, StubTypes
  <2>4. phase'[i] = "admitted"
    BY <1>2, <1>3, <2>3 DEF phase
  <2>5. session[StubOf[i]] = "open"
    BY <1>0, <1>3, <1>8 DEF InlineRun, GateShut, session
  <2>6. Contract!Move(i, "waiting", "admitted")
    BY <1>2, <1>4, <2>1, <2>4, MovesOn
  <2> QED BY <1>7, <2>5, <2>6 DEF Contract!Admit, Contract!Next
<1>9. CASE InlineStart(s)
  <2>1. phase[i] = "admitted"
    BY <1>3, <1>9, PhaseThere DEF InlineStart
  <2>2. rpc' = [rpc EXCEPT ![s] = "handler"]
    BY <1>9 DEF InlineStart
  <2>3. Held(i)'
    BY <1>0, <1>1, <1>2, <2>2 DEF Held, StubTypes
  <2>4. phase'[i] = "running"
    BY <1>2, <1>3, <2>3 DEF phase
  <2>5. Contract!Move(i, "admitted", "running")
    BY <1>2, <1>4, <2>1, <2>4, MovesOn
  <2> QED BY <1>3, <1>7, <2>5 DEF Contract!Start, Contract!Next
<1> QED BY <1>8, <1>9

\* A step that brings no item nearer to its handler and records nothing.
LEMMA NothingMoves ==
  ASSUME TypeOK, Shape, [Next]_vars, \A i \in Items : NoStart(i), UNCHANGED <<ends, arrived>>
  PROVE  phase' = phase /\ onPool' = onPool
<1>1. \A j \in Items : phase'[j] = phase[j] /\ (j \in onPool' <=> j \in onPool)
  BY PhaseKept, HeldKept
<1>2. phase' = [j \in Items |-> phase'[j]] /\ phase = [j \in Items |-> phase[j]]
  BY DEF phase
<1>3. onPool \subseteq Items /\ onPool' \subseteq Items
  BY DEF onPool
<1> QED BY <1>1, <1>2, <1>3

\* A pause closes a session, at the latest when the last of its invokes has left the pool
\* threads, and a resume opens it.
LEMMA SwitchRefines ==
  ASSUME IInv, [Next]_vars, UNCHANGED <<ends, phase, onPool>>, NEW s \in Stubs,
         AwaitInflight(s) \/ PauseRoseProcessing(s) \/ Destroy(s) \/ ResumeRoseProcessing(s)
  PROVE  Contract!Next
<1>0. TypeOK /\ Shape /\ StubTypes /\ CountersExact
  BY DEF IInv, TypeOK
<1>1. CASE PauseRoseProcessing(s) \/ Destroy(s)
  <2>1. ctl[s] \in {"open", "closed"} /\ \E l \in {"pause", "destroy"} : ctl' = [ctl EXCEPT ![s] = l]
    BY <1>1 DEF PauseRoseProcessing, Destroy
  <2>2. session' = [session EXCEPT ![s] = "closing"] /\ session[s] \in {"open", "closed"}
    BY <1>0, <2>1 DEF session, StubTypes
  <2> QED BY <2>2 DEF Contract!Switch, Contract!Close, Contract!Next
<1>2. CASE AwaitInflight(s)
  <2>1. /\ ctl[s] \in {"paused", "drained"} /\ inflight[s] = 0
        /\ \E l \in {"closed", "dead"} : ctl' = [ctl EXCEPT ![s] = l]
    BY <1>2 DEF AwaitInflight
  <2>2. session' = [session EXCEPT ![s] = "closed"] /\ session[s] = "closing"
    BY <1>0, <2>1 DEF session, StubTypes
  <2>3. \A i \in onPool : StubOf[i] # s
    BY <1>0, <2>1, NobodyInside DEF onPool, Inside
  <2> QED BY <2>2, <2>3 DEF Contract!Switch, Contract!Closed, Contract!Next
<1>3. CASE ResumeRoseProcessing(s)
  <2>1. ctl[s] = "closed" /\ ctl' = [ctl EXCEPT ![s] = "open"]
    BY <1>3 DEF ResumeRoseProcessing
  <2>2. session' = [session EXCEPT ![s] = "open"] /\ session[s] = "closed"
    BY <1>0, <2>1 DEF session, StubTypes
  <2> QED BY <2>2 DEF Contract!Switch, Contract!Reopen, Contract!Next
<1> QED BY <1>1, <1>2, <1>3

\* A step that records no end lets an item in or calls its handler, brings an item, opens or
\* closes a session, or changes nothing the contract speaks of.
LEMMA OpenRefines ==
  ASSUME IInv, PlaceInv, [Next]_vars, ends' = ends
  PROVE  Contract!Next \/ UNCHANGED Contract!vars
<1>0. TypeOK /\ Shape
  BY DEF IInv
<1>1. CASE \A i \in Items : NoStart(i)
  <2>1. ASSUME NEW i \in Items, Receive(i) PROVE Contract!Next
    <3>1. /\ i \notin arrived /\ arrived' = arrived \cup {i} /\ ctl' = ctl
          /\ UNCHANGED <<wpc, witem>>
      BY <2>1 DEF Receive, stubVars, wVars
    <3>2. ends[i] = <<>> /\ ~Held(i) /\ ~Cleared(i) /\ Placed(i)
      BY <3>1, HeldThere DEF PlaceInv, Placed
    <3>3. phase[i] = "new"
      BY <3>1, <3>2, PhaseOf
    <3>4. ~Held(i)' /\ ~Cleared(i)'
      BY <1>0, <1>1, <3>2, HeldKept
    <3>5. phase'[i] = "waiting"
      BY <3>1, <3>2, <3>4 DEF phase
    <3>6. \A j \in Items \ {i} : phase'[j] = phase[j]
      BY <1>0, <1>1, <3>1, PhaseKept
    <3>7. phase' = [phase EXCEPT ![i] = "waiting"]
      <4>1. phase' = [j \in Items |-> phase'[j]] /\ phase = [j \in Items |-> phase[j]]
        BY DEF phase
      <4> QED BY <3>5, <3>6, <4>1
    <3>8. onPool' = onPool /\ session' = session
      BY <3>1 DEF onPool, session
    <3> QED BY <3>3, <3>7, <3>8 DEF Contract!Arrive, Contract!Move, Contract!Next
  <2>2. CASE arrived' = arrived
    <3>1. phase' = phase /\ onPool' = onPool
      BY <1>0, <1>1, <2>2, NothingMoves
    <3>2. CASE session' = session
      BY <3>1, <3>2 DEF Contract!vars
    <3> QED BY <1>0, <3>1, <3>2, SessionSteps, SwitchRefines
  <2>3. arrived' = arrived \/ \E i \in Items : Receive(i)
    BY ReceiveSteps DEF ReceiverStep, EnqueueRefused, Enqueue, InlineRefuse, InlineRun,
       InlineStart, InlineReturn, InlineEnd
  <2> QED BY <2>1, <2>2, <2>3
<1> QED BY <1>1, ThreadRefines, ReceiverRefines DEF NoStart

\* Socket threads, pool threads, pauses, destructors and shutdowns together keep the promise of
\* InboundContract: every invoke is refused or handled, only an open session lets it in, no
\* handler starts on a pool thread once the session is closed, and it ends at most once
\* (OnInvokeMessage, Enqueue, WorkerMain, RejectQueuedAndWait, JoinPool).
THEOREM ContractIsKept == Spec => KeepsContract
<1>1. Init => Contract!Init
  BY PoolAssumption DEF Init, Contract!Init, phase, onPool, session, Held, Cleared
<1>2. ASSUME IInv, PlaceInv, IInv', PlaceInv', [Next]_vars
      PROVE  Contract!Next \/ UNCHANGED Contract!vars
  BY <1>2, EndingRefines, OpenRefines
<1>3. IInv /\ PlaceInv /\ IInv' /\ PlaceInv' /\ [Next]_vars => [Contract!Next]_(Contract!vars)
  BY <1>2
<1> QED BY <1>1, <1>3, PlaceInvariant, PTL DEF Spec, KeepsContract, Contract!Spec
=============================================================================
