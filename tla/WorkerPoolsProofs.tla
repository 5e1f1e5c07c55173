------------------------- MODULE WorkerPoolsProofs -------------------------
(***************************************************************************)
(* What WorkerPools keeps whatever the number of pools, threads, stubs and *)
(* invokes: the counters say what the threads are doing, and everything    *)
(* that is decided by looking at a counter therefore holds.                *)
(***************************************************************************)
EXTENDS WorkerPools, FiniteSetTheorems, WellFoundedInduction, TLAPS

-----------------------------------------------------------------------------
(* The inductive invariant *)

\* Which thread belongs to a pool, who holds an item, and how far the owner is.
Shape ==
  /\ \A w \in Workers : /\ wpc[w] = "none" <=> wpool[w] = NoPool
                        /\ wpc[w] \in Inside => witem[w] \in Items
                        /\ wpool[w] <= configs
  /\ \A s \in Stubs : /\ rpc[s] # "idle" => ritem[s] \in Items
                      /\ rpc[s] = "push" => rpool[s] \in Pools /\ rpool[s] <= configs
  /\ current <= configs
  /\ opc \in {"stop", "reject"} => opool \in Pools /\ (again => configs < MaxConfigs)
  /\ opc = "install" => configs < MaxConfigs

\* A session that is being closed, or is closed, has its gate shut.
GateShut == \A s \in Stubs : gate[s] => ctl[s] = "open"

FiniteQueues == \A p \in Pools : IsFiniteSet(queue[p])

IInv ==
  /\ TypeOK /\ Shape /\ GateShut /\ FiniteQueues
  /\ CountersExact /\ DepthBound /\ ThreadBound /\ PauseDrains

-----------------------------------------------------------------------------
(* Facts about the operators of the model *)

\* A set of naturals that has an element has a least one.
LEMMA LeastNat ==
  ASSUME NEW T \in SUBSET Nat, T # {}
  PROVE  \E m \in T : \A k \in T : m <= k
<1> DEFINE L == {ss \in Nat \X Nat : ss[1] < ss[2]}
<1>1. IsWellFoundedOn(L, Nat)
  BY NatLessThanWellFounded DEF OpToRel
<1>2. PICK m \in T : \A y \in T : ~(<<y, m>> \in L)
  <2> HIDE DEF L
  <2> QED BY <1>1, WFMin
<1>3. ASSUME NEW y \in T, y < m PROVE FALSE
  <2>1. <<y, m>> \in L
    BY <1>3
  <2> QED BY <1>2, <2>1
<1> QED BY <1>3

\* The front of a queue that is not empty is one of its items: pop_front
\* takes something that was pushed.
LEMMA FirstIn ==
  ASSUME ticket \in [Items -> Nat], NEW is \in SUBSET Items, is # {}
  PROVE  First(is) \in is
<1> DEFINE R == {ticket[i] : i \in is}
<1>1. R \subseteq Nat /\ R # {}
  OBVIOUS
<1>2. PICK m \in R : \A k \in R : m <= k
  <2> HIDE DEF R
  <2> QED BY <1>1, LeastNat
<1>3. PICK i \in is : ticket[i] = m
  OBVIOUS
<1>4. \A j \in is : ticket[i] <= ticket[j]
  BY <1>2, <1>3
<1> QED BY <1>4 DEF First

\* A set of threads, counted before and after one thread may have joined or left it.
One(b) == IF b THEN 1 ELSE 0

LEMMA CountMember ==
  ASSUME NEW S, NEW T, NEW w, IsFiniteSet(S), S \ {w} = T \ {w}
  PROVE  /\ IsFiniteSet(T) /\ Cardinality(S) \in Nat /\ Cardinality(T) \in Nat
         /\ Cardinality(T) - One(w \in T) = Cardinality(S) - One(w \in S)
<1> DEFINE C == S \ {w}
<1>0. Cardinality(S) \in Nat
  BY FS_CardinalityType
<1>1. IsFiniteSet(C) /\ Cardinality(C) = Cardinality(S) - One(w \in S)
  BY <1>0, FS_RemoveElement DEF One
<1>2. IsFiniteSet(C \cup {w}) /\ Cardinality(C \cup {w}) = Cardinality(C) + 1
  BY <1>1, FS_AddElement
<1>3. Cardinality(C) \in Nat
  BY <1>1, FS_CardinalityType
<1>4. CASE w \in T
  <2>1. T = C \cup {w}
    BY <1>4
  <2> QED BY <1>0, <1>1, <1>2, <1>3, <1>4, <2>1 DEF One
<1>5. CASE w \notin T
  <2>1. T = C
    BY <1>5
  <2> QED BY <1>0, <1>1, <1>3, <1>5, <2>1 DEF One
<1> QED BY <1>4, <1>5

-----------------------------------------------------------------------------
(* The counters follow the threads *)

\* What a thread is counted as.
Sleeps(w, p) == wpool[w] = p /\ wpc[w] \in Waiting \cup Woken
Serves(w, p) == wpool[w] = p /\ wpc[w] \in Inside \cup {"relock", "retire"}
Attends(w, s) == wpc[w] \in Inside /\ StubOf[witem[w]] = s

\* A step of thread w, or for it: the other threads are at most woken, and the
\* counters change by what changed in w.
Moves(w) ==
  /\ \A v \in Workers \ {w} :
       /\ wpool'[v] = wpool[v] /\ witem'[v] = witem[v]
       /\ wpc'[v] = wpc[v] \/ (wpc[v] \in Waiting /\ wpc'[v] \in Woken)
  /\ \A p \in Pools :
       /\ idle'[p] - One(Sleeps(w, p))' = idle[p] - One(Sleeps(w, p))
       /\ live'[p] - One(wpool'[w] = p) = live[p] - One(wpool[w] = p)
       /\ running'[p] - One(Serves(w, p))' = running[p] - One(Serves(w, p))
  /\ \A s \in Stubs :
       inflight'[s] - One(Attends(w, s))' = inflight[s] - One(Attends(w, s))

\* The counters, as integers: that they are never negative follows from what they count.
IntCounters ==
  /\ running \in [Pools -> Int] /\ idle \in [Pools -> Int] /\ live \in [Pools -> Int]
  /\ inflight \in [Stubs -> Int]

\* One counter b of the threads S, when w joined or left them and the others are T.
LEMMA CounterFollows ==
  ASSUME NEW S \in SUBSET Workers, NEW T \in SUBSET Workers, NEW w, S \ {w} = T \ {w},
         NEW b \in Int, NEW c \in Int, b = Cardinality(S), c - One(w \in T) = b - One(w \in S)
  PROVE  c = Cardinality(T)
<1>1. IsFiniteSet(S)
  BY WorkersAssumption, FS_Subset
<1>2. /\ Cardinality(T) \in Nat /\ Cardinality(S) \in Nat
      /\ Cardinality(T) - One(w \in T) = Cardinality(S) - One(w \in S)
  BY <1>1, CountMember
<1> QED BY <1>2 DEF One

\* Counters that are exact stay exact in such a step.
LEMMA CountersMove ==
  ASSUME CountersExact, IntCounters, IntCounters', NEW w \in Workers, Moves(w)
  PROVE  CountersExact'
<1>1. ASSUME NEW p \in Pools
      PROVE  idle'[p] = Cardinality(At(p, Waiting \cup Woken)')
  <2> DEFINE S == At(p, Waiting \cup Woken)
             T == At(p, Waiting \cup Woken)'
  <2>1. S \subseteq Workers /\ T \subseteq Workers /\ S \ {w} = T \ {w}
    BY DEF Moves, At, Woken, Waiting
  <2>2. idle[p] = Cardinality(S) /\ idle[p] \in Int /\ idle'[p] \in Int
    BY DEF CountersExact, IntCounters
  <2>3. idle'[p] - One(w \in T) = idle[p] - One(w \in S)
    BY DEF Moves, One, At, Sleeps
  <2> HIDE DEF S, T
  <2>4. idle'[p] = Cardinality(T)
    BY <2>1, <2>2, <2>3, CounterFollows
  <2> QED BY <2>4 DEF T
<1>2. ASSUME NEW p \in Pools
      PROVE  live'[p] = Cardinality(Threads(p)')
  <2> DEFINE S == Threads(p)
             T == Threads(p)'
  <2>1. S \subseteq Workers /\ T \subseteq Workers /\ S \ {w} = T \ {w}
    BY DEF Moves, Threads
  <2>2. live[p] = Cardinality(S) /\ live[p] \in Int /\ live'[p] \in Int
    BY DEF CountersExact, IntCounters
  <2>3. live'[p] - One(w \in T) = live[p] - One(w \in S)
    BY DEF Moves, One, Threads
  <2> HIDE DEF S, T
  <2>4. live'[p] = Cardinality(T)
    BY <2>1, <2>2, <2>3, CounterFollows
  <2> QED BY <2>4 DEF T
<1>3. ASSUME NEW p \in Pools
      PROVE  running'[p] = Cardinality(At(p, Inside \cup {"relock", "retire"})')
  <2> DEFINE S == At(p, Inside \cup {"relock", "retire"})
             T == At(p, Inside \cup {"relock", "retire"})'
  <2>1. S \subseteq Workers /\ T \subseteq Workers /\ S \ {w} = T \ {w}
    BY DEF Moves, At, Woken, Waiting, Inside
  <2>2. running[p] = Cardinality(S) /\ running[p] \in Int /\ running'[p] \in Int
    BY DEF CountersExact, IntCounters
  <2>3. running'[p] - One(w \in T) = running[p] - One(w \in S)
    BY DEF Moves, One, At, Serves
  <2> HIDE DEF S, T
  <2>4. running'[p] = Cardinality(T)
    BY <2>1, <2>2, <2>3, CounterFollows
  <2> QED BY <2>4 DEF T
<1>4. ASSUME NEW s \in Stubs
      PROVE  inflight'[s] = Cardinality({v \in Workers : Attends(v, s)}')
  <2> DEFINE S == {v \in Workers : Attends(v, s)}
             T == {v \in Workers : Attends(v, s)'}
  <2>1. S \subseteq Workers /\ T \subseteq Workers /\ S \ {w} = T \ {w}
    BY DEF Moves, Attends, Woken, Waiting, Inside
  <2>2. inflight[s] = Cardinality(S) /\ inflight[s] \in Int /\ inflight'[s] \in Int
    BY DEF CountersExact, Attends, IntCounters
  <2>3. inflight'[s] - One(w \in T) = inflight[s] - One(w \in S)
    BY DEF Moves, One
  <2> HIDE DEF S, T
  <2>4. inflight'[s] = Cardinality(T)
    BY <2>1, <2>2, <2>3, CounterFollows
  <2> QED BY <2>4 DEF T
<1> QED BY <1>1, <1>2, <1>3, <1>4 DEF CountersExact, Attends

-----------------------------------------------------------------------------
(* Types *)

\* The steps that touch a thread or a counter.
LEMMA ThreadSteps ==
  ASSUME [Next]_vars
  PROVE  \/ UNCHANGED <<wVars, running, idle, live, inflight>>
         \/ \E w \in Workers : WorkerStep(w) \/ WorkerTimeout(w)
         \/ \E s \in Stubs : Enqueue(s)
         \/ Configure \/ JoinStop
<1>1. CASE UNCHANGED vars
  BY <1>1 DEF vars, poolVars
<1>2. ASSUME NEW i \in Items, Receive(i)
      PROVE  UNCHANGED <<wVars, running, idle, live, inflight>>
  BY <1>2 DEF Receive, poolVars
<1>3. ASSUME NEW s \in Stubs, ReceiverStep(s), ~Enqueue(s)
      PROVE  UNCHANGED <<wVars, running, idle, live, inflight>>
  BY <1>3 DEF ReceiverStep, EnqueueRefused, InlineRefuse, InlineRun, InlineStart, InlineReturn,
     InlineEnd,
     poolVars
<1>4. ASSUME NEW s \in Stubs,
             DrainStep(s) \/ PauseRoseProcessing(s) \/ Destroy(s) \/ ResumeRoseProcessing(s)
      PROVE  UNCHANGED <<wVars, running, idle, live, inflight>>
  BY <1>4 DEF DrainStep, RejectQueued, AwaitInflight, PauseRoseProcessing, Destroy,
     ResumeRoseProcessing, poolVars
<1>5. ASSUME JoinReject \/ JoinThreads \/ \E reconfigure \in BOOLEAN : Shutdown(reconfigure)
      PROVE  UNCHANGED <<wVars, running, idle, live, inflight>>
  BY <1>5 DEF JoinReject, JoinThreads, Shutdown, poolVars
<1> QED BY <1>1, <1>2, <1>3, <1>4, <1>5 DEF Next, OwnerStep

\* A thread that runs belongs to a pool.
LEMMA PoolOfThread ==
  ASSUME TypeOK, Shape, NEW w \in Workers, wpc[w] # "none"
  PROVE  wpool[w] \in Pools
  BY DEF TypeOK, ThreadTypes, Shape

\* An item a thread has popped belongs to a stub.
LEMMA StubOfThread ==
  ASSUME Shape, NEW w \in Workers, wpc[w] \in Inside
  PROVE  witem[w] \in Items /\ StubOf[witem[w]] \in Stubs
  BY PoolAssumption DEF Shape

\* Configure installs a generation that was not used before.
LEMMA NextGeneration ==
  ASSUME TypeOK, Shape, Configure
  PROVE  configs + 1 \in Pools /\ configs \in Nat
  BY PoolAssumption DEF TypeOK, OwnerTypes, Shape, Configure, Pools

\* A thread that pops finds an item of a stub.
LEMMA PoppedItem ==
  ASSUME TypeOK, Shape, NEW w \in Workers, WorkerPop(w)
  PROVE  /\ wpool[w] \in Pools /\ wpc[w] \in {"start"} \cup Woken
         /\ First(queue[wpool[w]]) \in queue[wpool[w]]
         /\ First(queue[wpool[w]]) \in Items /\ StubOf[First(queue[wpool[w]])] \in Stubs
<1>1. wpc[w] \in {"start"} \cup Woken
  BY DEF WorkerPop, Awake, Woken
<1>2. wpool[w] \in Pools
  BY <1>1, PoolOfThread DEF Woken
<1>3. queue[wpool[w]] \in SUBSET Items /\ ticket \in [Items -> Nat] /\ queue[wpool[w]] # {}
  BY <1>2 DEF TypeOK, QueueTypes, WorkerPop
<1>4. First(queue[wpool[w]]) \in queue[wpool[w]]
  BY <1>3, FirstIn
<1> QED BY <1>1, <1>2, <1>3, <1>4, PoolAssumption

\* One step leaves every thread with a pool, a place and an item.
LEMMA ThreadTypesStep ==
  ASSUME TypeOK, Shape, [Next]_vars
  PROVE  ThreadTypes'
<1> USE DEF TypeOK, ThreadTypes, WorkerLabels
<1>1. CASE UNCHANGED <<wVars, running, idle, live, inflight>>
  BY <1>1 DEF wVars
<1>2. ASSUME NEW w \in Workers, WorkerStep(w) \/ WorkerTimeout(w)
      PROVE  ThreadTypes'
  <2>1. CASE WorkerPop(w)
    BY <2>1, PoppedItem DEF WorkerPop
  <2>2. CASE WorkerStop(w)
    BY <2>2 DEF WorkerStop, NotifyAll
  <2>3. CASE WorkerRetire(w)
    BY <2>3 DEF WorkerRetire
  <2>4. CASE ~WorkerPop(w) /\ ~WorkerStop(w) /\ ~WorkerRetire(w)
    BY <1>2, <2>4 DEF WorkerStep, WorkerTimeout, WorkerWait, ExitIdleWorker, WorkerRefuse,
       WorkerRun, WorkerStart, WorkerReturn, WorkerReply, WorkerThrow, WorkerLeave, WorkerAgain
  <2> QED BY <2>1, <2>2, <2>3, <2>4
<1>3. ASSUME NEW s \in Stubs, Enqueue(s)
      PROVE  ThreadTypes'
  BY <1>3 DEF Shape, Enqueue, NotifyOne, Waiting, MayStart
<1>4. ASSUME Configure
      PROVE  ThreadTypes'
  BY <1>4, PoolAssumption DEF Shape, Configure, MayStart, OwnerTypes, Pools
<1>5. ASSUME JoinStop
      PROVE  ThreadTypes'
  BY <1>5 DEF JoinStop, NotifyAll
<1> QED
  BY <1>1, <1>2, <1>3, <1>4, <1>5, ThreadSteps

\* The counters stay integers.
LEMMA IntCountersStep ==
  ASSUME TypeOK, Shape, [Next]_vars
  PROVE  IntCounters'
<1>0. IntCounters
  BY DEF TypeOK, CounterTypes, IntCounters
<1> USE <1>0 DEF IntCounters
<1>1. CASE UNCHANGED <<wVars, running, idle, live, inflight>>
  BY <1>1
<1>2. ASSUME NEW w \in Workers, WorkerStep(w) \/ WorkerTimeout(w)
      PROVE  IntCounters'
  <2>1. CASE WorkerPop(w)
    <3>1. wpool[w] \in Pools /\ StubOf[First(queue[wpool[w]])] \in Stubs
      BY <2>1, PoppedItem
    <3>2. idle' \in [Pools -> Int] /\ running' \in [Pools -> Int] /\ live' = live
      BY <2>1, <3>1 DEF WorkerPop, IdleAfter
    <3>3. inflight' \in [Stubs -> Int]
      BY <2>1, <3>1 DEF WorkerPop
    <3> QED BY <3>2, <3>3
  <2>2. CASE WorkerStop(w) \/ ExitIdleWorker(w)
    BY <2>2, PoolOfThread DEF WorkerStop, ExitIdleWorker, IdleAfter
  <2>3. CASE WorkerWait(w)
    BY <2>3, PoolOfThread DEF WorkerWait
  <2>5. CASE WorkerLeave(w)
    BY <2>5, StubOfThread DEF WorkerLeave, poolVars, Inside
  <2>6. CASE WorkerAgain(w) \/ WorkerRetire(w)
    BY <2>6 DEF WorkerAgain, WorkerRetire
  <2>4. CASE \/ WorkerTimeout(w) \/ WorkerRefuse(w) \/ WorkerRun(w) \/ WorkerStart(w)
             \/ WorkerReturn(w)
             \/ WorkerReply(w) \/ WorkerThrow(w)
    BY <2>4 DEF WorkerTimeout, WorkerRefuse, WorkerRun, WorkerStart, WorkerReturn, WorkerReply,
       WorkerThrow,
       poolVars
  <2> QED BY <1>2, <2>1, <2>2, <2>3, <2>4, <2>5, <2>6 DEF WorkerStep
<1>3. ASSUME NEW s \in Stubs, Enqueue(s)
      PROVE  IntCounters'
  BY <1>3 DEF Enqueue
<1>4. ASSUME Configure
      PROVE  IntCounters'
  <2>1. configs + 1 \in Pools
    BY <1>4, NextGeneration
  <2> QED BY <1>4, <2>1 DEF Configure
<1>5. ASSUME JoinStop
      PROVE  IntCounters'
  BY <1>5 DEF JoinStop
<1> QED
  BY <1>1, <1>2, <1>3, <1>4, <1>5, ThreadSteps

\* The steps that touch a queue.
LEMMA QueueSteps ==
  ASSUME [Next]_vars
  PROVE  \/ UNCHANGED <<stopping, queue, fifoVars>>
         \/ \E w \in Workers : WorkerPop(w)
         \/ \E s \in Stubs : Enqueue(s) \/ RejectQueued(s)
         \/ JoinStop
<1>1. CASE UNCHANGED vars
  BY <1>1 DEF vars, poolVars
<1>2. ASSUME NEW w \in Workers, WorkerStep(w) \/ WorkerTimeout(w), ~WorkerPop(w)
      PROVE  UNCHANGED <<stopping, queue, fifoVars>>
  BY <1>2 DEF WorkerStep, WorkerTimeout, WorkerWait, WorkerStop, ExitIdleWorker, WorkerRefuse,
     WorkerRun, WorkerStart, WorkerReturn, WorkerReply, WorkerThrow, WorkerLeave, WorkerAgain,
     WorkerRetire,
     poolVars
<1>3. ASSUME NEW i \in Items, Receive(i)
      PROVE  UNCHANGED <<stopping, queue, fifoVars>>
  BY <1>3 DEF Receive, poolVars
<1>4. ASSUME NEW s \in Stubs, ReceiverStep(s), ~Enqueue(s)
      PROVE  UNCHANGED <<stopping, queue, fifoVars>>
  BY <1>4 DEF ReceiverStep, EnqueueRefused, InlineRefuse, InlineRun, InlineStart, InlineReturn,
     InlineEnd,
     poolVars
<1>5. ASSUME NEW s \in Stubs,
             AwaitInflight(s) \/ PauseRoseProcessing(s) \/ Destroy(s) \/ ResumeRoseProcessing(s)
      PROVE  UNCHANGED <<stopping, queue, fifoVars>>
  BY <1>5 DEF AwaitInflight, PauseRoseProcessing, Destroy, ResumeRoseProcessing, poolVars
<1>6. ASSUME \/ JoinReject \/ JoinThreads \/ Configure
             \/ \E reconfigure \in BOOLEAN : Shutdown(reconfigure)
      PROVE  UNCHANGED <<stopping, queue, fifoVars>>
  BY <1>6 DEF JoinReject, JoinThreads, Configure, Shutdown, poolVars
<1> QED BY <1>1, <1>2, <1>3, <1>4, <1>5, <1>6 DEF Next, OwnerStep, DrainStep

\* One step leaves every queue a set of items with their tickets.
LEMMA QueueTypesStep ==
  ASSUME TypeOK, Shape, [Next]_vars
  PROVE  QueueTypes'
<1>0. QueueTypes
  BY DEF TypeOK
<1> USE <1>0 DEF QueueTypes
<1>1. CASE UNCHANGED <<stopping, queue, fifoVars>>
  BY <1>1 DEF fifoVars
<1>2. ASSUME NEW w \in Workers, WorkerPop(w)
      PROVE  QueueTypes'
  BY <1>2 DEF WorkerPop, fifoVars
<1>3. ASSUME NEW s \in Stubs, Enqueue(s)
      PROVE  QueueTypes'
  <2>1. rpool[s] \in Pools /\ ritem[s] \in Items
    BY <1>3 DEF Enqueue, Shape
  <2> QED BY <1>3, <2>1 DEF Enqueue
<1>4. ASSUME NEW s \in Stubs, RejectQueued(s)
      PROVE  QueueTypes'
  BY <1>4 DEF RejectQueued, fifoVars
<1>5. ASSUME JoinStop
      PROVE  QueueTypes'
  BY <1>5 DEF JoinStop, fifoVars
<1> QED BY <1>1, <1>2, <1>3, <1>4, <1>5, QueueSteps

\* One step leaves the socket and control threads of every stub where they can be.
LEMMA StubTypesStep ==
  ASSUME TypeOK, Shape, [Next]_vars
  PROVE  StubTypes'
<1>0. StubTypes /\ OwnerTypes
  BY DEF TypeOK
<1> USE <1>0 DEF StubTypes
<1>1. CASE UNCHANGED vars
  BY <1>1 DEF vars, stubVars, recvVars
<1>2. ASSUME NEW w \in Workers, WorkerStep(w) \/ WorkerTimeout(w)
      PROVE  StubTypes'
  BY <1>2 DEF WorkerStep, WorkerTimeout, WorkerWait, WorkerStop, ExitIdleWorker, WorkerPop,
     WorkerRefuse, WorkerRun, WorkerStart, WorkerReturn, WorkerReply, WorkerThrow, WorkerLeave,
     WorkerAgain,
     WorkerRetire, stubVars, recvVars
<1>3. ASSUME NEW i \in Items, Receive(i)
      PROVE  StubTypes'
  <2>1. StubOf[i] \in Stubs /\ current \in Pools \cup {NoPool}
    BY PoolAssumption DEF OwnerTypes
  <2> QED BY <1>3, <2>1 DEF Receive, stubVars
<1>4. ASSUME NEW s \in Stubs, ReceiverStep(s)
      PROVE  StubTypes'
  BY <1>4 DEF ReceiverStep, EnqueueRefused, Enqueue, InlineRefuse, InlineRun, InlineStart,
     InlineReturn,
     InlineEnd, Idle, stubVars
<1>5. ASSUME NEW s \in Stubs, DrainStep(s)
      PROVE  StubTypes'
  BY <1>5 DEF DrainStep, RejectQueued, AwaitInflight, recvVars
<1>6. ASSUME NEW s \in Stubs, PauseRoseProcessing(s) \/ Destroy(s) \/ ResumeRoseProcessing(s)
      PROVE  StubTypes'
  <2>1. pauses' \in [Stubs -> Nat]
    BY <1>6 DEF PauseRoseProcessing, Destroy, ResumeRoseProcessing
  <2>2. UNCHANGED recvVars
    BY <1>6 DEF PauseRoseProcessing, Destroy, ResumeRoseProcessing
  <2>3. /\ gate' \in [Stubs -> BOOLEAN]
        /\ ctl' \in [Stubs -> {"open", "pause", "paused", "closed", "destroy", "drained", "dead"}]
    BY <1>6 DEF PauseRoseProcessing, Destroy, ResumeRoseProcessing
  <2> QED BY <2>1, <2>2, <2>3 DEF recvVars
<1>7. ASSUME \/ JoinStop \/ JoinReject \/ JoinThreads \/ Configure
             \/ \E reconfigure \in BOOLEAN : Shutdown(reconfigure)
      PROVE  StubTypes'
  BY <1>7 DEF JoinStop, JoinReject, JoinThreads, Configure, Shutdown, stubVars, recvVars
<1> QED BY <1>1, <1>2, <1>3, <1>4, <1>5, <1>6, <1>7 DEF Next, OwnerStep

\* Only the owner touches the registry.
LEMMA OwnerSteps ==
  ASSUME [Next]_vars
  PROVE  \/ UNCHANGED ownerVars
         \/ JoinStop \/ JoinReject \/ JoinThreads \/ Configure
         \/ \E reconfigure \in BOOLEAN : Shutdown(reconfigure)
<1>1. CASE UNCHANGED vars
  BY <1>1 DEF vars
<1>2. ASSUME NEW w \in Workers, WorkerStep(w) \/ WorkerTimeout(w)
      PROVE  UNCHANGED ownerVars
  BY <1>2 DEF WorkerStep, WorkerTimeout, WorkerWait, WorkerStop, ExitIdleWorker, WorkerPop,
     WorkerRefuse, WorkerRun, WorkerStart, WorkerReturn, WorkerReply, WorkerThrow, WorkerLeave,
     WorkerAgain,
     WorkerRetire
<1>3. ASSUME NEW i \in Items, Receive(i)
      PROVE  UNCHANGED ownerVars
  BY <1>3 DEF Receive
<1>4. ASSUME NEW s \in Stubs, ReceiverStep(s)
      PROVE  UNCHANGED ownerVars
  BY <1>4 DEF ReceiverStep, EnqueueRefused, Enqueue, InlineRefuse, InlineRun, InlineStart,
     InlineReturn,
     InlineEnd
<1>5. ASSUME NEW s \in Stubs,
             DrainStep(s) \/ PauseRoseProcessing(s) \/ Destroy(s) \/ ResumeRoseProcessing(s)
      PROVE  UNCHANGED ownerVars
  BY <1>5 DEF DrainStep, RejectQueued, AwaitInflight, PauseRoseProcessing, Destroy,
     ResumeRoseProcessing
<1> QED BY <1>1, <1>2, <1>3, <1>4, <1>5 DEF Next, OwnerStep

\* One step leaves the owner inside Shutdown, Configure or neither.
LEMMA OwnerTypesStep ==
  ASSUME TypeOK, Shape, [Next]_vars
  PROVE  OwnerTypes'
<1>0. OwnerTypes /\ QueueTypes
  BY DEF TypeOK
<1> USE <1>0 DEF OwnerTypes
<1>1. CASE UNCHANGED ownerVars
  BY <1>1 DEF ownerVars
<1>2. ASSUME JoinStop
      PROVE  OwnerTypes'
  <2>1. queue[opool] \subseteq Items
    BY <1>2 DEF JoinStop, QueueTypes, Shape
  <2> QED BY <1>2, <2>1 DEF JoinStop
<1>3. ASSUME JoinReject
      PROVE  OwnerTypes'
  BY <1>3 DEF JoinReject
<1>4. ASSUME JoinThreads
      PROVE  OwnerTypes'
  BY <1>4 DEF JoinThreads
<1>5. ASSUME Configure
      PROVE  OwnerTypes'
  <2>1. configs + 1 \in Pools /\ configs \in Nat
    BY <1>5, NextGeneration
  <2>2. configs' \in 0 .. MaxConfigs /\ current' \in Pools
    BY <1>5, <2>1, PoolAssumption DEF Configure, Pools
  <2> QED BY <1>5, <2>2 DEF Configure
<1>6. ASSUME NEW reconfigure \in BOOLEAN, Shutdown(reconfigure)
      PROVE  OwnerTypes'
  BY <1>6 DEF Shutdown
<1> QED BY <1>1, <1>2, <1>3, <1>4, <1>5, <1>6, OwnerSteps

\* Recording an end keeps ends a function to sequences of ways to end.
LEMMA EndType ==
  ASSUME EndTypes, NEW i \in Items, NEW how \in Hows, End(i, how)
  PROVE  ends' \in [Items -> Seq(Hows)]
<1>1. ends[i] \in Seq(Hows)
  BY DEF EndTypes
<1>2. Append(ends[i], how) \in Seq(Hows)
  BY <1>1
<1> QED BY <1>2 DEF End, EndTypes

\* One step records only the ways an invoke can end, of invokes there are.
LEMMA EndTypesStep ==
  ASSUME TypeOK, Shape, [Next]_vars
  PROVE  EndTypes'
<1>0. EndTypes /\ OwnerTypes /\ QueueTypes
  BY DEF TypeOK
<1>1. CASE UNCHANGED vars
  BY <1>0, <1>1 DEF vars, recvVars, EndTypes
<1>2. ASSUME NEW w \in Workers, WorkerStep(w) \/ WorkerTimeout(w)
      PROVE  EndTypes'
  <2>1. CASE WorkerRefuse(w) \/ WorkerReturn(w) \/ WorkerReply(w) \/ WorkerThrow(w)
    <3>1. witem[w] \in Items
      BY <2>1, StubOfThread DEF WorkerRefuse, WorkerReturn, WorkerReply, WorkerThrow, Inside
    <3>2. UNCHANGED ends \/ \E how \in Hows : End(witem[w], how)
      BY <2>1 DEF WorkerRefuse, WorkerReturn, WorkerReply, WorkerThrow, Hows
    <3>3. UNCHANGED arrived
      BY <2>1 DEF WorkerRefuse, WorkerReturn, WorkerReply, WorkerThrow, recvVars
    <3> QED BY <1>0, <3>1, <3>2, <3>3, EndType DEF EndTypes
  <2>2. CASE \/ WorkerTimeout(w) \/ WorkerWait(w) \/ WorkerStop(w) \/ ExitIdleWorker(w)
             \/ WorkerPop(w) \/ WorkerRun(w) \/ WorkerStart(w) \/ WorkerLeave(w) \/ WorkerAgain(w)
             \/ WorkerRetire(w)
    <3>1. UNCHANGED <<arrived, ends>>
      BY <2>2 DEF WorkerTimeout, WorkerWait, WorkerStop, ExitIdleWorker, WorkerPop, WorkerRun,
         WorkerStart,
         WorkerLeave, WorkerAgain, WorkerRetire, recvVars
    <3> QED BY <1>0, <3>1 DEF EndTypes
  <2> QED BY <1>2, <2>1, <2>2 DEF WorkerStep
<1>3. ASSUME NEW i \in Items, Receive(i)
      PROVE  EndTypes'
  BY <1>0, <1>3 DEF Receive, EndTypes
<1>4. ASSUME NEW s \in Stubs, ReceiverStep(s)
      PROVE  EndTypes'
  <2>1. ritem[s] \in Items
    BY <1>4 DEF ReceiverStep, EnqueueRefused, Enqueue, InlineRefuse, InlineRun, InlineStart,
       InlineReturn,
       InlineEnd, Shape
  <2>2. UNCHANGED arrived
    BY <1>4 DEF ReceiverStep, EnqueueRefused, Enqueue, InlineRefuse, InlineRun, InlineStart,
       InlineReturn,
       InlineEnd
  <2>3. UNCHANGED ends \/ \E how \in Hows : End(ritem[s], how)
    BY <1>4 DEF ReceiverStep, EnqueueRefused, Enqueue, InlineRefuse, InlineRun, InlineStart,
       InlineReturn,
       InlineEnd, Hows
  <2> QED BY <1>0, <2>1, <2>2, <2>3, EndType DEF EndTypes
<1>5. ASSUME NEW s \in Stubs, RejectQueued(s)
      PROVE  EndTypes'
  <2>1. "shutdown" \in Hows
    BY DEF Hows
  <2>2. \A i \in Items : ends[i] \in Seq(Hows) /\ Append(ends[i], "shutdown") \in Seq(Hows)
    BY <1>0, <2>1 DEF EndTypes
  <2> QED BY <1>0, <1>5, <2>2 DEF RejectQueued, EndTypes, recvVars
<1>6. ASSUME NEW s \in Stubs,
             AwaitInflight(s) \/ PauseRoseProcessing(s) \/ Destroy(s) \/ ResumeRoseProcessing(s)
      PROVE  EndTypes'
  BY <1>0, <1>6 DEF AwaitInflight, PauseRoseProcessing, Destroy, ResumeRoseProcessing, EndTypes,
     recvVars
<1>7. ASSUME JoinReject
      PROVE  EndTypes'
  <2>1. First(oitems) \in Items
    BY <1>0, <1>7, FirstIn DEF JoinReject, OwnerTypes, QueueTypes
  <2>2. End(First(oitems), "shutdown") /\ UNCHANGED arrived
    BY <1>7 DEF JoinReject, recvVars
  <2>3. "shutdown" \in Hows
    BY DEF Hows
  <2> QED BY <1>0, <2>1, <2>2, <2>3, EndType DEF EndTypes
<1>8. ASSUME \/ JoinStop \/ JoinThreads \/ Configure
             \/ \E reconfigure \in BOOLEAN : Shutdown(reconfigure)
      PROVE  EndTypes'
  BY <1>0, <1>8 DEF JoinStop, JoinThreads, Configure, Shutdown, EndTypes, recvVars
<1> QED
  BY <1>1, <1>2, <1>3, <1>4, <1>5, <1>6, <1>7, <1>8 DEF Next, OwnerStep, DrainStep

-----------------------------------------------------------------------------
(* Shape *)

\* Threads and socket threads keep hold of what they work on.
LEMMA ShapeStep ==
  ASSUME TypeOK, Shape, [Next]_vars
  PROVE  Shape'
<1>0. ThreadTypes /\ OwnerTypes /\ StubTypes
  BY DEF TypeOK
<1> DEFINE ThreadShape == \A w \in Workers : /\ wpc[w] = "none" <=> wpool[w] = NoPool
                                             /\ wpc[w] \in Inside => witem[w] \in Items
                                             /\ wpool[w] <= configs
           RecvShape == \A s \in Stubs : /\ rpc[s] # "idle" => ritem[s] \in Items
                                         /\ rpc[s] = "push" => rpool[s] \in Pools /\ rpool[s] <= configs
           OwnerShape ==
             /\ current <= configs
             /\ opc \in {"stop", "reject"} => opool \in Pools /\ (again => configs < MaxConfigs)
             /\ opc = "install" => configs < MaxConfigs
<1>1. OwnerShape' /\ configs <= configs' /\ configs \in Nat /\ configs' \in Nat
  <2>1. CASE UNCHANGED ownerVars
    BY <1>0, <2>1, PoolAssumption DEF ownerVars, Shape, OwnerTypes
  <2>2. CASE JoinStop \/ JoinReject \/ JoinThreads
    BY <1>0, <2>2, PoolAssumption DEF JoinStop, JoinReject, JoinThreads, Shape, OwnerTypes
  <2>3. CASE Configure
    BY <1>0, <2>3, PoolAssumption DEF Configure, Shape, OwnerTypes
  <2>4. CASE \E reconfigure \in BOOLEAN : Shutdown(reconfigure)
    BY <1>0, <2>4, PoolAssumption DEF Shutdown, Shape, OwnerTypes, NoPool, Pools
  <2> QED BY <2>1, <2>2, <2>3, <2>4, OwnerSteps
<1>2. RecvShape'
  <2>1. CASE UNCHANGED <<rpc, ritem, rpool>>
    BY <1>1, <2>1 DEF Shape, Pools
  <2>2. ASSUME NEW i \in Items, Receive(i)
        PROVE  RecvShape'
    <3>1. configs' = configs
      BY <2>2 DEF Receive, ownerVars
    <3> QED BY <1>0, <2>2, <3>1 DEF Receive, Shape, StubTypes, OwnerTypes
  <2>3. ASSUME NEW s \in Stubs, ReceiverStep(s)
        PROVE  RecvShape'
    <3>1. configs' = configs
      BY <2>3 DEF ReceiverStep, EnqueueRefused, Enqueue, InlineRefuse, InlineRun, InlineStart,
         InlineReturn,
         InlineEnd, ownerVars
    <3> QED BY <1>0, <2>3, <3>1 DEF ReceiverStep, EnqueueRefused, Enqueue, InlineRefuse,
           InlineRun, InlineStart, InlineReturn, InlineEnd, Idle, Shape, StubTypes
  <2>4. \/ UNCHANGED <<rpc, ritem, rpool>>
        \/ \E i \in Items : Receive(i)
        \/ \E s \in Stubs : ReceiverStep(s)
    <3>1. CASE UNCHANGED vars
      BY <3>1 DEF vars, recvVars
    <3>2. ASSUME NEW w \in Workers, WorkerStep(w) \/ WorkerTimeout(w)
          PROVE  UNCHANGED recvVars
      BY <3>2 DEF WorkerStep, WorkerTimeout, WorkerWait, WorkerStop, ExitIdleWorker, WorkerPop,
         WorkerRefuse, WorkerRun, WorkerStart, WorkerReturn, WorkerReply, WorkerThrow, WorkerLeave,
         WorkerAgain, WorkerRetire
    <3>3. ASSUME NEW s \in Stubs, \/ DrainStep(s) \/ PauseRoseProcessing(s) \/ Destroy(s)
                                  \/ ResumeRoseProcessing(s)
          PROVE  UNCHANGED recvVars
      BY <3>3 DEF DrainStep, RejectQueued, AwaitInflight, PauseRoseProcessing, Destroy,
         ResumeRoseProcessing
    <3>4. ASSUME \/ JoinStop \/ JoinReject \/ JoinThreads \/ Configure
                 \/ \E reconfigure \in BOOLEAN : Shutdown(reconfigure)
          PROVE  UNCHANGED recvVars
      BY <3>4 DEF JoinStop, JoinReject, JoinThreads, Configure, Shutdown
    <3> QED BY <3>1, <3>2, <3>3, <3>4 DEF Next, OwnerStep, recvVars
  <2> QED BY <2>1, <2>2, <2>3, <2>4
<1>3. ThreadShape'
  <2>1. CASE UNCHANGED <<wVars, running, idle, live, inflight>>
    BY <1>0, <1>1, <2>1 DEF wVars, Shape, ThreadTypes, Pools, NoPool
  <2>2. ASSUME NEW w \in Workers, WorkerStep(w) \/ WorkerTimeout(w)
        PROVE  ThreadShape'
    <3>0. configs' = configs
      BY <2>2 DEF WorkerStep, WorkerTimeout, WorkerWait, WorkerStop, ExitIdleWorker, WorkerPop,
         WorkerRefuse, WorkerRun, WorkerStart, WorkerReturn, WorkerReply, WorkerThrow, WorkerLeave,
         WorkerAgain, WorkerRetire, ownerVars
    <3>1. CASE WorkerPop(w)
      BY <1>0, <3>0, <3>1, PoppedItem DEF WorkerPop, Shape, ThreadTypes, Woken, NoPool
    <3>2. CASE WorkerStop(w)
      BY <1>0, <1>1, <3>0, <3>2 DEF WorkerStop, NotifyAll, Shape, ThreadTypes, Inside, NoPool
    <3>3. CASE ExitIdleWorker(w) \/ WorkerRetire(w)
      BY <1>0, <1>1, <3>0, <3>3 DEF ExitIdleWorker, WorkerRetire, Awake, Shape, ThreadTypes,
         Inside, NoPool
    <3>4. CASE WorkerWait(w) \/ WorkerTimeout(w) \/ WorkerAgain(w) \/ WorkerLeave(w)
      BY <1>0, <3>0, <3>4 DEF WorkerWait, WorkerTimeout, WorkerAgain, WorkerLeave, Shape,
         ThreadTypes, Inside
    <3>5. CASE WorkerRefuse(w) \/ WorkerRun(w) \/ WorkerStart(w) \/ WorkerReturn(w)
               \/ WorkerReply(w) \/ WorkerThrow(w)
      BY <1>0, <3>0, <3>5 DEF WorkerRefuse, WorkerRun, WorkerStart, WorkerReturn, WorkerReply,
         WorkerThrow,
         Shape, ThreadTypes, Inside
    <3> QED BY <2>2, <3>1, <3>2, <3>3, <3>4, <3>5 DEF WorkerStep
  <2>3. ASSUME NEW s \in Stubs, Enqueue(s)
        PROVE  ThreadShape'
    <3>1. rpool[s] \in Pools /\ rpool[s] <= configs /\ rpool[s] # NoPool /\ configs' = configs
      BY <2>3 DEF Enqueue, Shape, ownerVars, Pools, NoPool
    <3>2. CASE NeedsWorker(rpool[s], queue[rpool[s]] \cup {ritem[s]}, live[rpool[s]])
      BY <1>0, <2>3, <3>1, <3>2 DEF Enqueue, MayStart, Shape, ThreadTypes, Inside
    <3>3. CASE ~NeedsWorker(rpool[s], queue[rpool[s]] \cup {ritem[s]}, live[rpool[s]])
      BY <1>0, <2>3, <3>1, <3>3 DEF Enqueue, NotifyOne, Waiting, Shape, ThreadTypes, Inside
    <3> QED BY <3>2, <3>3
  <2>4. ASSUME Configure
        PROVE  ThreadShape'
    BY <1>0, <1>1, <2>4, NextGeneration DEF Configure, MayStart, Shape, ThreadTypes, Inside,
       Pools, NoPool
  <2>5. ASSUME JoinStop
        PROVE  ThreadShape'
    BY <1>0, <2>5 DEF JoinStop, NotifyAll, Shape, ThreadTypes, Inside
  <2> QED BY <2>1, <2>2, <2>3, <2>4, <2>5, ThreadSteps
<1> QED BY <1>1, <1>2, <1>3 DEF Shape

-----------------------------------------------------------------------------
(* The counters *)

\* A thread moves, or is started, and everything that counts threads moves with it.
LEMMA WorkerMoves ==
  ASSUME TypeOK, Shape, NEW w \in Workers, WorkerStep(w) \/ WorkerTimeout(w)
  PROVE  Moves(w)
<1>0. ThreadTypes /\ IntCounters
  BY DEF TypeOK, CounterTypes, IntCounters
<1> USE <1>0 DEF IntCounters, ThreadTypes, Moves, One, Sleeps, Serves, Attends, Waiting, Woken,
        Inside
<1>1. CASE WorkerWait(w)
  <2>1. wpool[w] \in Pools
    BY <1>1, PoolOfThread DEF WorkerWait
  <2> QED BY <1>1, <2>1 DEF WorkerWait
<1>2. CASE WorkerTimeout(w)
  BY <1>2 DEF WorkerTimeout, poolVars
<1>3. CASE WorkerStop(w)
  <2>1. wpool[w] \in Pools /\ wpool[w] # NoPool
    BY <1>3, PoolOfThread DEF WorkerStop, Awake, Pools, NoPool
  <2> QED BY <1>3, <2>1 DEF WorkerStop, Awake, IdleAfter, NotifyAll, NoPool, Pools
<1>4. CASE ExitIdleWorker(w)
  <2>1. wpool[w] \in Pools /\ wpool[w] # NoPool
    BY <1>4, PoolOfThread DEF ExitIdleWorker, Awake, Pools, NoPool
  <2>2. CASE live[wpool[w]] > 1
    <3>1. /\ live' = [live EXCEPT ![wpool[w]] = @ - 1]
          /\ wpc' = [wpc EXCEPT ![w] = "none"] /\ wpool' = [wpool EXCEPT ![w] = NoPool]
          /\ idle' = [idle EXCEPT ![wpool[w]] = @ - (IF wpc[w] = "start" THEN 0 ELSE 1)]
          /\ UNCHANGED <<running, witem, inflight>>
      BY <1>4, <2>2 DEF ExitIdleWorker, IdleAfter
    <3>2. wpc[w] = "start" \/ wpc[w] \in Woken
      BY <1>4 DEF ExitIdleWorker, Awake
    <3> QED BY <2>1, <3>1, <3>2 DEF NoPool, Pools
  <2>3. CASE ~(live[wpool[w]] > 1)
    BY <1>4, <2>1, <2>3 DEF ExitIdleWorker, Awake, IdleAfter
  <2> QED BY <2>2, <2>3
<1>5. CASE WorkerPop(w)
  <2>1. wpool[w] \in Pools /\ StubOf[First(queue[wpool[w]])] \in Stubs
    BY <1>5, PoppedItem
  <2> QED BY <1>5, <2>1 DEF WorkerPop, Awake, IdleAfter
<1>6. CASE WorkerRefuse(w) \/ WorkerRun(w) \/ WorkerStart(w) \/ WorkerReturn(w)
           \/ WorkerReply(w) \/ WorkerThrow(w)
  BY <1>6 DEF WorkerRefuse, WorkerRun, WorkerStart, WorkerReturn, WorkerReply, WorkerThrow, poolVars
<1>7. CASE WorkerLeave(w)
  <2>1. StubOf[witem[w]] \in Stubs
    BY <1>7, StubOfThread DEF WorkerLeave
  <2> QED BY <1>7, <2>1 DEF WorkerLeave, poolVars
<1>8. CASE WorkerAgain(w)
  <2>1. wpool[w] \in Pools
    BY <1>8, PoolOfThread DEF WorkerAgain
  <2> QED BY <1>8, <2>1 DEF WorkerAgain
<1>9. CASE WorkerRetire(w)
  <2>1. wpool[w] \in Pools /\ wpool[w] # NoPool
    BY <1>9, PoolOfThread DEF WorkerRetire, Pools, NoPool
  <2> QED BY <1>9, <2>1 DEF WorkerRetire, NoPool, Pools
<1> QED BY <1>1, <1>2, <1>3, <1>4, <1>5, <1>6, <1>7, <1>8, <1>9 DEF WorkerStep

\* One step keeps the four counters and the in-flight map exact.
LEMMA CountersStep ==
  ASSUME TypeOK, Shape, CountersExact, [Next]_vars
  PROVE  CountersExact' /\ CounterTypes'
<1>0. ThreadTypes /\ IntCounters /\ IntCounters'
  BY IntCountersStep DEF TypeOK, CounterTypes, IntCounters
<1>1. CASE UNCHANGED <<wVars, running, idle, live, inflight>>
  <2>1. CounterTypes'
    BY <1>1 DEF TypeOK, CounterTypes
  <2>2. UNCHANGED <<wpool, wpc, witem, running, idle, live, inflight>>
    BY <1>1 DEF wVars
  <2>3. CountersExact'
    <3>1. \A p \in Pools : Threads(p)' = Threads(p)
      BY <2>2 DEF Threads
    <3>2. \A p \in Pools : /\ At(p, Waiting \cup Woken)' = At(p, Waiting \cup Woken)
                            /\ At(p, Inside \cup {"relock", "retire"})'
                                 = At(p, Inside \cup {"relock", "retire"})
      BY <2>2 DEF At
    <3>3. \A s \in Stubs : {w \in Workers : wpc[w] \in Inside /\ StubOf[witem[w]] = s}'
                            = {w \in Workers : wpc[w] \in Inside /\ StubOf[witem[w]] = s}
      BY <2>2
    <3> QED BY <2>2, <3>1, <3>2, <3>3 DEF CountersExact
  <2> QED BY <2>1, <2>3
<1>2. ASSUME NEW w \in Workers, Moves(w)
      PROVE  CountersExact' /\ CounterTypes'
  <2>1. CountersExact'
    BY <1>0, <1>2, CountersMove
  <2>2. \A P \in SUBSET Workers : Cardinality(P) \in Nat
    BY WorkersAssumption, FS_Subset, FS_CardinalityType
  <2>3. \A p \in Pools : idle'[p] \in Nat /\ live'[p] \in Nat /\ running'[p] \in Nat
    BY <2>1, <2>2 DEF CountersExact, At, Threads
  <2>4. \A s \in Stubs : inflight'[s] \in Nat
    BY <2>1, <2>2 DEF CountersExact
  <2> QED BY <1>0, <2>1, <2>3, <2>4 DEF IntCounters, CounterTypes
<1>3. PICK v \in Workers : TRUE
  BY PoolAssumption, WorkersAssumption, FS_EmptySet
<1>4. ASSUME NEW s \in Stubs, Enqueue(s)
      PROVE  \E w \in Workers : Moves(w)
  <2>1. rpool[s] \in Pools /\ rpool[s] # NoPool /\ UNCHANGED <<running, idle, witem, inflight>>
    BY <1>4 DEF Enqueue, Shape, Pools, NoPool
  <2>2. CASE NeedsWorker(rpool[s], queue[rpool[s]] \cup {ritem[s]}, live[rpool[s]])
    <3>1. PICK w \in MayStart : wpc' = [wpc EXCEPT ![w] = "start"]
                                /\ wpool' = [wpool EXCEPT ![w] = rpool[s]]
      BY <1>4, <2>2 DEF Enqueue
    <3>2. live' = [live EXCEPT ![rpool[s]] = @ + 1]
      BY <1>4, <2>2 DEF Enqueue
    <3>3. w \in Workers /\ wpc[w] = "none" /\ wpool[w] = NoPool /\ NoPool \notin Pools
      BY DEF MayStart, Shape, Pools, NoPool
    <3>4. Moves(w)
      BY <1>0, <2>1, <3>1, <3>2, <3>3 DEF Moves, One, Sleeps, Serves, Attends, ThreadTypes,
         IntCounters, Waiting, Woken, Inside
    <3> QED BY <3>3, <3>4
  <2>3. CASE ~NeedsWorker(rpool[s], queue[rpool[s]] \cup {ritem[s]}, live[rpool[s]])
    <3>1. UNCHANGED <<wpool, live>> /\ wpc' \in NotifyOne(rpool[s], wpc)
      BY <1>4, <2>3 DEF Enqueue
    <3>2. \A w \in Workers : wpc'[w] = wpc[w] \/ (wpc[w] \in Waiting /\ wpc'[w] \in Woken)
      BY <1>0, <3>1 DEF NotifyOne, ThreadTypes, Waiting, Woken
    <3>3. Moves(v)
      BY <1>0, <1>3, <2>1, <3>1, <3>2 DEF Moves, One, Sleeps, Serves, Attends, Waiting, Woken,
         Inside
    <3> QED BY <3>3
  <2> QED BY <2>2, <2>3
<1>5. ASSUME Configure
      PROVE  \E w \in Workers : Moves(w)
  <2>1. configs + 1 \in Pools /\ NoPool \notin Pools
    BY <1>5, NextGeneration DEF Pools, NoPool
  <2>2. PICK w \in MayStart : wpc' = [wpc EXCEPT ![w] = "start"]
                              /\ wpool' = [wpool EXCEPT ![w] = configs + 1]
    BY <1>5 DEF Configure
  <2>3. /\ live' = [live EXCEPT ![configs + 1] = @ + 1]
        /\ UNCHANGED <<running, idle, witem, inflight>>
    BY <1>5 DEF Configure
  <2>4. w \in Workers /\ wpc[w] = "none" /\ wpool[w] = NoPool
    BY DEF MayStart, Shape
  <2>5. Moves(w)
    BY <1>0, <2>1, <2>2, <2>3, <2>4 DEF Moves, One, Sleeps, Serves, Attends, ThreadTypes,
       IntCounters, Waiting, Woken, Inside
  <2> QED BY <2>4, <2>5
<1>6. ASSUME JoinStop
      PROVE  \E w \in Workers : Moves(w)
  <2>1. UNCHANGED <<running, idle, live, wpool, witem, inflight>>
    BY <1>6 DEF JoinStop
  <2>2. \A w \in Workers : wpc'[w] = wpc[w] \/ (wpc[w] \in Waiting /\ wpc'[w] \in Woken)
    BY <1>6 DEF JoinStop, NotifyAll, Waiting, Woken
  <2>3. Moves(v)
    BY <1>0, <1>3, <2>1, <2>2 DEF Moves, One, Sleeps, Serves, Attends, Waiting, Woken, Inside
  <2> QED BY <2>3
<1> QED BY <1>1, <1>2, <1>4, <1>5, <1>6, WorkerMoves, ThreadSteps

-----------------------------------------------------------------------------
(* What is decided by looking at a counter *)

\* One step keeps the queues finite and the depth within its bound: a pop moves
\* one item from the queue into a handler, and only Enqueue adds one.
LEMMA DepthStep ==
  ASSUME TypeOK, Shape, FiniteQueues, DepthBound, [Next]_vars
  PROVE  FiniteQueues' /\ DepthBound'
<1>0. QueueTypes /\ CounterTypes
  BY DEF TypeOK
<1>1. \A p \in Pools : Cardinality(queue[p]) \in Nat /\ running[p] \in Nat
  BY <1>0, FS_CardinalityType DEF FiniteQueues, CounterTypes
<1>2. ASSUME \A p \in Pools :
               /\ IsFiniteSet(queue'[p]) /\ Cardinality(queue'[p]) \in Nat /\ running'[p] \in Int
               /\ \/ Cardinality(queue'[p]) + running'[p] <= Cardinality(queue[p]) + running[p]
                  \/ MaxElements > 0 => Cardinality(queue'[p]) + running'[p] <= MaxElements
      PROVE  FiniteQueues' /\ DepthBound'
  BY <1>1, <1>2, PoolAssumption DEF FiniteQueues, DepthBound
<1>3. CASE UNCHANGED <<queue, running>>
  BY <1>3 DEF FiniteQueues, DepthBound
<1>4. ASSUME NEW w \in Workers, WorkerPop(w)
      PROVE  FiniteQueues' /\ DepthBound'
  <2> DEFINE p == wpool[w]
             i == First(queue[p])
  <2>1. p \in Pools /\ i \in queue[p]
    BY <1>4, PoppedItem
  <2>2. queue' = [queue EXCEPT ![p] = @ \ {i}] /\ running' = [running EXCEPT ![p] = @ + 1]
    BY <1>4 DEF WorkerPop
  <2>3. IsFiniteSet(queue[p] \ {i}) /\ Cardinality(queue[p] \ {i}) = Cardinality(queue[p]) - 1
    BY <2>1, FS_RemoveElement DEF FiniteQueues
  <2>4. Cardinality(queue[p] \ {i}) \in Nat
    BY <2>3, FS_CardinalityType
  <2> HIDE DEF p, i
  <2>5. \A q \in Pools : queue'[q] = IF q = p THEN queue[p] \ {i} ELSE queue[q]
    BY <1>0, <2>2 DEF QueueTypes
  <2>6. \A q \in Pools : running'[q] = IF q = p THEN running[p] + 1 ELSE running[q]
    BY <1>0, <2>2 DEF CounterTypes
  <2> QED BY <1>1, <1>2, <2>1, <2>3, <2>4, <2>5, <2>6 DEF FiniteQueues
<1>5. ASSUME NEW w \in Workers, WorkerAgain(w) \/ WorkerRetire(w)
      PROVE  FiniteQueues' /\ DepthBound'
  <2>1. UNCHANGED queue /\ running' = [running EXCEPT ![wpool[w]] = @ - 1]
    BY <1>5 DEF WorkerAgain, WorkerRetire
  <2>2. \A q \in Pools : running'[q] \in Int /\ running'[q] <= running[q]
    BY <1>0, <2>1 DEF CounterTypes
  <2> QED BY <1>1, <1>2, <2>1, <2>2 DEF FiniteQueues
<1>6. ASSUME NEW s \in Stubs, Enqueue(s)
      PROVE  FiniteQueues' /\ DepthBound'
  <2> DEFINE p == rpool[s]
             i == ritem[s]
  <2>1. p \in Pools /\ ~Full(p) /\ queue' = [queue EXCEPT ![p] = queue[p] \cup {i}]
        /\ running' = running
    BY <1>6 DEF Enqueue, Shape
  <2>2. IsFiniteSet(queue[p] \cup {i}) /\ Cardinality(queue[p] \cup {i}) <= Cardinality(queue[p]) + 1
    <3>1. PICK old : old = queue[p]
      OBVIOUS
    <3>2. IsFiniteSet(old) /\ Cardinality(old) \in Nat
      BY <1>1, <2>1, <3>1 DEF FiniteQueues
    <3>3. IsFiniteSet(old \cup {i})
            /\ Cardinality(old \cup {i}) = IF i \in old THEN Cardinality(old) ELSE Cardinality(old) + 1
      BY <3>2, FS_AddElement
    <3>4. Cardinality(old \cup {i}) <= Cardinality(old) + 1
      BY SMT, <3>2, <3>3
    <3> QED BY <3>1, <3>3, <3>4
  <2>3. Cardinality(queue[p] \cup {i}) \in Nat
    BY <2>2, FS_CardinalityType
  <2>4. MaxElements > 0 => Cardinality(queue[p]) + running[p] < MaxElements
    BY <1>1, <2>1, PoolAssumption DEF Full
  <2> HIDE DEF p, i
  <2>5. \A q \in Pools : queue'[q] = IF q = p THEN queue[p] \cup {i} ELSE queue[q]
    BY <1>0, <2>1 DEF QueueTypes
  <2>6. MaxElements > 0 => Cardinality(queue[p] \cup {i}) + running[p] <= MaxElements
    BY <1>1, <2>1, <2>2, <2>3, <2>4, PoolAssumption
  <2>7. \A q \in Pools : /\ IsFiniteSet(queue'[q]) /\ Cardinality(queue'[q]) \in Nat
                         /\ running'[q] = running[q] /\ running'[q] \in Int
    BY <1>1, <2>1, <2>2, <2>3, <2>5 DEF FiniteQueues
  <2>8. \A q \in Pools \ {p} : queue'[q] = queue[q]
    BY <2>5
  <2>9. queue'[p] = queue[p] \cup {i}
    BY <2>1, <2>5
  <2>10. FiniteQueues'
    BY <2>7 DEF FiniteQueues
  <2>11. ASSUME MaxElements > 0, NEW q \in Pools
         PROVE  Cardinality(queue'[q]) + running'[q] <= MaxElements
    <3>1. CASE q = p
      BY <2>6, <2>7, <2>9, <2>11, <3>1
    <3>2. CASE q # p
      <4>1. queue'[q] = queue[q] /\ running'[q] = running[q]
        BY <2>7, <2>8, <2>11, <3>2
      <4>2. Cardinality(queue[q]) + running[q] <= MaxElements
        BY <2>11 DEF DepthBound
      <4> QED BY <4>1, <4>2
    <3> QED BY <3>1, <3>2
  <2> QED BY <2>10, <2>11 DEF DepthBound
<1>7. ASSUME \A p \in Pools : queue'[p] \subseteq queue[p], UNCHANGED running
      PROVE  FiniteQueues' /\ DepthBound'
  <2>1. \A p \in Pools : IsFiniteSet(queue'[p]) /\ Cardinality(queue'[p]) <= Cardinality(queue[p])
    BY <1>7, FS_Subset DEF FiniteQueues
  <2>2. \A p \in Pools : Cardinality(queue'[p]) \in Nat
    BY <2>1, FS_CardinalityType
  <2> QED BY <1>1, <1>2, <1>7, <2>1, <2>2
<1>8. ASSUME NEW s \in Stubs, RejectQueued(s)
      PROVE  FiniteQueues' /\ DepthBound'
  BY <1>7, <1>8 DEF RejectQueued
<1>9. ASSUME JoinStop
      PROVE  FiniteQueues' /\ DepthBound'
  BY <1>0, <1>7, <1>9 DEF JoinStop, QueueTypes
<1>10. \/ UNCHANGED running
       \/ \E w \in Workers : WorkerPop(w) \/ WorkerAgain(w) \/ WorkerRetire(w)
  <2>1. ASSUME NEW w \in Workers, WorkerStep(w) \/ WorkerTimeout(w)
        PROVE  UNCHANGED running \/ WorkerPop(w) \/ WorkerAgain(w) \/ WorkerRetire(w)
    BY <2>1 DEF WorkerStep, WorkerTimeout, WorkerWait, WorkerStop, ExitIdleWorker, WorkerRefuse,
       WorkerRun, WorkerStart, WorkerReturn, WorkerReply, WorkerThrow, WorkerLeave, poolVars
  <2>2. ASSUME Configure \/ JoinStop \/ \E s \in Stubs : Enqueue(s)
        PROVE  UNCHANGED running
    BY <2>2 DEF Configure, JoinStop, Enqueue
  <2> QED BY <2>1, <2>2, ThreadSteps
<1>11. \/ UNCHANGED queue
       \/ \E w \in Workers : WorkerPop(w)
       \/ \E s \in Stubs : Enqueue(s) \/ RejectQueued(s)
       \/ JoinStop
  BY QueueSteps
<1> QED BY <1>3, <1>4, <1>5, <1>6, <1>8, <1>9, <1>10, <1>11

\* One step keeps the number of threads of a pool within its bound: a new one
\* is counted in live under the lock that looked at live.
LEMMA ThreadBoundStep ==
  ASSUME TypeOK, Shape, CountersExact, ThreadBound, CountersExact', [Next]_vars
  PROVE  ThreadBound'
<1>0. CounterTypes /\ MaxThreads \in Nat /\ 1 <= MaxThreads
  BY PoolAssumption DEF TypeOK
<1>1. \A p \in Pools : live[p] \in Nat /\ live[p] <= MaxThreads
  BY <1>0 DEF CounterTypes, CountersExact, ThreadBound
<1>2. ASSUME \A p \in Pools : live'[p] <= MaxThreads
      PROVE  ThreadBound'
  BY <1>2 DEF CountersExact, ThreadBound
<1>3. CASE UNCHANGED live
  BY <1>1, <1>2, <1>3
<1>4. ASSUME NEW w \in Workers, WorkerStop(w) \/ ExitIdleWorker(w) \/ WorkerRetire(w)
      PROVE  ThreadBound'
  <2>1. \A p \in Pools : live'[p] \in {live[p], live[p] - 1}
    BY <1>0, <1>4 DEF WorkerStop, ExitIdleWorker, WorkerRetire, CounterTypes
  <2> QED BY <1>0, <1>1, <1>2, <2>1
<1>5. ASSUME NEW s \in Stubs, Enqueue(s)
      PROVE  ThreadBound'
  <2>1. rpool[s] \in Pools
    BY <1>5 DEF Enqueue, Shape
  <2>2. CASE NeedsWorker(rpool[s], queue[rpool[s]] \cup {ritem[s]}, live[rpool[s]])
    <3>1. live' = [live EXCEPT ![rpool[s]] = @ + 1] /\ live[rpool[s]] < MaxThreads
      BY <1>5, <2>2 DEF Enqueue, NeedsWorker
    <3> QED BY <1>0, <1>1, <1>2, <2>1, <3>1 DEF CounterTypes
  <2>3. CASE ~NeedsWorker(rpool[s], queue[rpool[s]] \cup {ritem[s]}, live[rpool[s]])
    BY <1>3, <1>5, <2>3 DEF Enqueue
  <2> QED BY <2>2, <2>3
<1>6. ASSUME Configure
      PROVE  ThreadBound'
  <2>1. configs + 1 \in Pools /\ configs \in Nat
    BY <1>6, NextGeneration
  <2>2. Threads(configs + 1) = {}
    BY <2>1 DEF Threads, Shape
  <2>3. live[configs + 1] = 0
    BY <2>1, <2>2, FS_EmptySet DEF CountersExact
  <2>4. live' = [live EXCEPT ![configs + 1] = @ + 1]
    BY <1>6 DEF Configure
  <2> QED BY <1>0, <1>1, <1>2, <2>1, <2>3, <2>4 DEF CounterTypes
<1>7. \/ UNCHANGED live
      \/ \E w \in Workers : WorkerStop(w) \/ ExitIdleWorker(w) \/ WorkerRetire(w)
      \/ \E s \in Stubs : Enqueue(s)
      \/ Configure
  <2>1. ASSUME NEW w \in Workers, WorkerStep(w) \/ WorkerTimeout(w)
        PROVE  UNCHANGED live \/ WorkerStop(w) \/ ExitIdleWorker(w) \/ WorkerRetire(w)
    BY <2>1 DEF WorkerStep, WorkerTimeout, WorkerWait, WorkerPop, WorkerRefuse, WorkerRun,
       WorkerStart,
       WorkerReturn, WorkerReply, WorkerThrow, WorkerLeave, WorkerAgain, poolVars
  <2>2. ASSUME JoinStop
        PROVE  UNCHANGED live
    BY <2>2 DEF JoinStop
  <2> QED BY <2>1, <2>2, ThreadSteps
<1> QED BY <1>3, <1>4, <1>5, <1>6, <1>7

-----------------------------------------------------------------------------
(* Pause *)

\* The steps that touch a gate or the thread that pauses or destroys a stub.
LEMMA GateSteps ==
  ASSUME [Next]_vars
  PROVE  \/ UNCHANGED <<gate, ctl>>
         \/ \E s \in Stubs : \/ RejectQueued(s) \/ AwaitInflight(s)
                             \/ PauseRoseProcessing(s) \/ Destroy(s) \/ ResumeRoseProcessing(s)
<1>1. CASE UNCHANGED vars
  BY <1>1 DEF vars, stubVars
<1>2. ASSUME NEW w \in Workers, WorkerStep(w) \/ WorkerTimeout(w)
      PROVE  UNCHANGED stubVars
  BY <1>2 DEF WorkerStep, WorkerTimeout, WorkerWait, WorkerStop, ExitIdleWorker, WorkerPop,
     WorkerRefuse, WorkerRun, WorkerStart, WorkerReturn, WorkerReply, WorkerThrow, WorkerLeave,
     WorkerAgain,
     WorkerRetire
<1>3. ASSUME NEW i \in Items, Receive(i)
      PROVE  UNCHANGED stubVars
  BY <1>3 DEF Receive
<1>4. ASSUME NEW s \in Stubs, ReceiverStep(s)
      PROVE  UNCHANGED stubVars
  BY <1>4 DEF ReceiverStep, EnqueueRefused, Enqueue, InlineRefuse, InlineRun, InlineStart,
     InlineReturn,
     InlineEnd
<1>5. ASSUME \/ JoinStop \/ JoinReject \/ JoinThreads \/ Configure
             \/ \E reconfigure \in BOOLEAN : Shutdown(reconfigure)
      PROVE  UNCHANGED stubVars
  BY <1>5 DEF JoinStop, JoinReject, JoinThreads, Configure, Shutdown
<1> QED BY <1>1, <1>2, <1>3, <1>4, <1>5 DEF Next, OwnerStep, DrainStep, stubVars

\* A gate opens only when its stub is resumed.
LEMMA GateShutStep ==
  ASSUME TypeOK, GateShut, [Next]_vars
  PROVE  GateShut'
<1>0. StubTypes
  BY DEF TypeOK
<1>1. CASE UNCHANGED <<gate, ctl>>
  BY <1>1 DEF GateShut
<1>2. ASSUME NEW s \in Stubs, RejectQueued(s) \/ AwaitInflight(s)
      PROVE  GateShut'
  BY <1>0, <1>2 DEF RejectQueued, AwaitInflight, GateShut, StubTypes
<1>3. ASSUME NEW s \in Stubs, PauseRoseProcessing(s) \/ Destroy(s) \/ ResumeRoseProcessing(s)
      PROVE  GateShut'
  BY <1>0, <1>3 DEF PauseRoseProcessing, Destroy, ResumeRoseProcessing, GateShut, StubTypes
<1> QED BY <1>1, <1>2, <1>3, GateSteps

\* When the in-flight count of a stub is zero no thread is inside for it.
LEMMA NobodyInside ==
  ASSUME CountersExact, NEW s \in Stubs, inflight[s] = 0, NEW w \in Workers, wpc[w] \in Inside
  PROVE  StubOf[witem[w]] # s
<1> DEFINE S == {v \in Workers : wpc[v] \in Inside /\ StubOf[witem[v]] = s}
<1>1. IsFiniteSet(S)
  BY WorkersAssumption, FS_Subset
<1>2. Cardinality(S) = 0
  BY DEF CountersExact
<1>3. S = {}
  BY <1>1, <1>2, FS_EmptySet
<1> QED BY <1>3

\* One step lets no thread into a handler of a stub whose pause has returned.
LEMMA PauseDrainsStep ==
  ASSUME TypeOK, Shape, GateShut, CountersExact, PauseDrains, [Next]_vars
  PROVE  PauseDrains'
<1>0. ThreadTypes /\ StubTypes
  BY DEF TypeOK
<1>1. ASSUME UNCHANGED ctl,
             \A w \in Workers : wpc'[w] \in {"cleared", "handler", "reply"} =>
               /\ witem'[w] = witem[w]
               /\ wpc[w] \in {"cleared", "handler", "reply"} \/ gate[StubOf[witem[w]]]
               /\ StubOf[witem[w]] \in Stubs
      PROVE  PauseDrains'
  BY <1>1 DEF PauseDrains, GateShut
<1>2. CASE UNCHANGED <<wpc, witem>>
  <2>1. CASE UNCHANGED <<gate, ctl>>
    BY <1>2, <2>1 DEF PauseDrains
  <2>2. ASSUME NEW s \in Stubs, AwaitInflight(s)
        PROVE  PauseDrains'
    <3>1. inflight[s] = 0
      BY <2>2 DEF AwaitInflight
    <3>2. \A w \in Workers : wpc[w] \in {"cleared", "handler", "reply"} => StubOf[witem[w]] # s
      BY <3>1, NobodyInside DEF Inside
    <3>3. \A r \in Stubs \ {s} : ctl'[r] = ctl[r]
      BY <1>0, <2>2 DEF AwaitInflight, StubTypes
    <3> QED BY <1>2, <3>2, <3>3 DEF PauseDrains
  <2>3. ASSUME NEW s \in Stubs, \/ RejectQueued(s) \/ PauseRoseProcessing(s) \/ Destroy(s)
                                \/ ResumeRoseProcessing(s)
        PROVE  PauseDrains'
    <3>1. ctl'[s] \notin {"closed", "dead"} /\ \A r \in Stubs \ {s} : ctl'[r] = ctl[r]
      BY <1>0, <2>3 DEF RejectQueued, PauseRoseProcessing, Destroy, ResumeRoseProcessing, StubTypes
    <3> QED BY <1>2, <3>1 DEF PauseDrains
  <2> QED BY <2>1, <2>2, <2>3, GateSteps
<1>3. ASSUME NEW w \in Workers, WorkerStep(w) \/ WorkerTimeout(w)
      PROVE  PauseDrains'
  <2>0. UNCHANGED ctl
    BY <1>3 DEF WorkerStep, WorkerTimeout, WorkerWait, WorkerStop, ExitIdleWorker, WorkerPop,
       WorkerRefuse, WorkerRun, WorkerStart, WorkerReturn, WorkerReply, WorkerThrow, WorkerLeave,
       WorkerAgain,
       WorkerRetire, stubVars
  <2>1. \A v \in Workers : wpc[v] \in {"popped", "cleared", "handler", "reply"} => StubOf[witem[v]] \in Stubs
    BY StubOfThread DEF Inside
  <2>2. \A v \in Workers : wpc'[v] \in {"cleared", "handler", "reply"} =>
          /\ witem'[v] = witem[v]
          /\ \/ wpc[v] \in {"cleared", "handler", "reply"}
             \/ wpc[v] = "popped" /\ gate[StubOf[witem[v]]]
    <3>1. CASE WorkerStop(w)
      BY <1>0, <3>1 DEF WorkerStop, NotifyAll, ThreadTypes
    <3>2. CASE WorkerRun(w) \/ WorkerStart(w) \/ WorkerReturn(w)
      BY <1>0, <3>2 DEF WorkerRun, WorkerStart, WorkerReturn, ThreadTypes
    <3>3. CASE \/ WorkerWait(w) \/ WorkerTimeout(w) \/ ExitIdleWorker(w) \/ WorkerPop(w)
               \/ WorkerAgain(w) \/ WorkerRetire(w)
      BY <1>0, <3>3 DEF WorkerWait, WorkerTimeout, ExitIdleWorker, WorkerPop, WorkerAgain,
         WorkerRetire, ThreadTypes
    <3>4. CASE WorkerRefuse(w) \/ WorkerReply(w) \/ WorkerThrow(w) \/ WorkerLeave(w)
      BY <1>0, <3>4 DEF WorkerRefuse, WorkerReply, WorkerThrow, WorkerLeave, ThreadTypes
    <3> QED BY <1>3, <3>1, <3>2, <3>3, <3>4 DEF WorkerStep
  <2> QED BY <1>1, <2>0, <2>1, <2>2
<1>4. ASSUME Configure \/ JoinStop \/ \E s \in Stubs : Enqueue(s)
      PROVE  PauseDrains'
  <2>1. UNCHANGED <<ctl, witem>>
    BY <1>4 DEF Configure, JoinStop, Enqueue, stubVars
  <2>2. \A v \in Workers : wpc'[v] \in {"cleared", "handler", "reply"} => wpc[v] = wpc'[v]
    <3>1. ASSUME Configure
          PROVE  \A v \in Workers : wpc'[v] \in {"cleared", "handler", "reply"} => wpc[v] = wpc'[v]
      BY <1>0, <3>1 DEF Configure, ThreadTypes
    <3>2. ASSUME JoinStop
          PROVE  \A v \in Workers : wpc'[v] \in {"cleared", "handler", "reply"} => wpc[v] = wpc'[v]
      BY <1>0, <3>2 DEF JoinStop, NotifyAll, ThreadTypes
    <3>3. ASSUME NEW s \in Stubs, Enqueue(s)
          PROVE  \A v \in Workers : wpc'[v] \in {"cleared", "handler", "reply"} => wpc[v] = wpc'[v]
      <4>1. \/ \E w \in MayStart : wpc' = [wpc EXCEPT ![w] = "start"]
            \/ wpc' \in NotifyOne(rpool[s], wpc)
        BY <3>3 DEF Enqueue
      <4> QED BY <1>0, <4>1 DEF NotifyOne, ThreadTypes
    <3> QED BY <1>4, <3>1, <3>2, <3>3
  <2>3. \A v \in Workers : wpc[v] \in {"cleared", "handler", "reply"} => StubOf[witem[v]] \in Stubs
    BY StubOfThread DEF Inside
  <2> QED BY <1>1, <2>1, <2>2, <2>3
<1> QED BY <1>2, <1>3, <1>4, ThreadSteps DEF wVars

-----------------------------------------------------------------------------
(* The theorems *)

LEMMA InitIInv == Init => IInv
<1> SUFFICES ASSUME Init PROVE IInv
  OBVIOUS
<1>0. MaxConfigs \in Nat /\ MaxThreads \in Nat /\ MaxElements \in Nat
  BY PoolAssumption
<1> USE <1>0 DEF Init, Pools, NoPool, NoItem
<1>1. QueueTypes /\ CounterTypes /\ StubTypes
  BY DEF QueueTypes, CounterTypes, StubTypes
<1>2. ThreadTypes /\ EndTypes
  BY DEF ThreadTypes, EndTypes, WorkerLabels
<1>8. OwnerTypes
  <2>1. current \in Pools \cup {NoPool} /\ opool \in Pools \cup {NoPool} /\ configs \in 0 .. MaxConfigs
    OBVIOUS
  <2>2. opc = "idle" /\ oitems = {} /\ again = FALSE
    OBVIOUS
  <2> QED BY <2>1, <2>2 DEF OwnerTypes
<1>3. Shape /\ GateShut /\ PauseDrains
  BY DEF Shape, GateShut, PauseDrains, Inside
<1>4. \A p \in Pools : /\ Threads(p) = {} /\ At(p, Waiting \cup Woken) = {}
                       /\ At(p, Inside \cup {"relock", "retire"}) = {}
  BY DEF Threads, At
<1>5. \A s \in Stubs : {w \in Workers : wpc[w] \in Inside /\ StubOf[witem[w]] = s} = {}
  BY DEF Inside
<1>6. CountersExact
  BY <1>4, <1>5, FS_EmptySet DEF CountersExact
<1>7. FiniteQueues /\ DepthBound
  BY FS_EmptySet DEF FiniteQueues, DepthBound
<1>9. ThreadBound
  <2>1. \A p \in Pools : Cardinality(Threads(p)) = 0
    BY <1>4, FS_EmptySet
  <2> QED BY <2>1 DEF ThreadBound
<1> QED BY <1>1, <1>2, <1>3, <1>6, <1>7, <1>8, <1>9 DEF IInv, TypeOK

LEMMA StepIInv == IInv /\ [Next]_vars => IInv'
<1> SUFFICES ASSUME IInv, [Next]_vars PROVE IInv'
  OBVIOUS
<1> USE DEF IInv
<1>1. CountersExact' /\ CounterTypes'
  BY CountersStep
<1>2. TypeOK'
  BY <1>1, QueueTypesStep, ThreadTypesStep, StubTypesStep, OwnerTypesStep, EndTypesStep DEF TypeOK
<1>3. Shape' /\ GateShut'
  BY ShapeStep, GateShutStep
<1>4. FiniteQueues' /\ DepthBound'
  BY DepthStep
<1>5. ThreadBound'
  BY <1>1, ThreadBoundStep
<1>6. PauseDrains'
  BY PauseDrainsStep
<1> QED BY <1>1, <1>2, <1>3, <1>4, <1>5, <1>6

\* IInv is an invariant for every number of generations, threads, stubs and invokes.
THEOREM Invariance == Spec => []IInv
  BY InitIInv, StepIInv, PTL DEF Spec

\* Every variable keeps its type; no counter of SnaccWorkerPoolState, nor an
\* entry of the in-flight map, is ever decremented below zero.
THEOREM TypeCorrect == Spec => []TypeOK
<1>1. IInv => TypeOK
  BY DEF IInv
<1> QED BY <1>1, Invariance, PTL

\* idleWorkers, liveWorkers, running and the in-flight map are exact whenever
\* the pool's mutex is free.
THEOREM CountersAreExact == Spec => []CountersExact
<1>1. IInv => CountersExact
  BY DEF IInv
<1> QED BY <1>1, Invariance, PTL

\* maxElements bounds waiting and running items together (Enqueue), and
\* maxThreads the threads of a pool (EnsureWorker, WorkerMain, Configure).
THEOREM LimitsAreKept == Spec => []LimitsHold
<1>1. IInv => LimitsHold
  BY DEF IInv, LimitsHold
<1> QED BY <1>1, Invariance, PTL

\* After PauseRoseProcessing or the destructor has returned from
\* RejectQueuedAndWait no pool thread is inside a handler of the stub.
THEOREM PauseHasDrained == Spec => []PauseDrains
<1>1. IInv => PauseDrains
  BY DEF IInv
<1> QED BY <1>1, Invariance, PTL
=============================================================================
