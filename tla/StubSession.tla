---------------------------- MODULE StubSession ----------------------------
(***************************************************************************)
(* One C++ stub (SnaccROSEBase) whose invokes are made by application      *)
(* threads and, nested, by its own pooled handlers.  The module composes   *)
(* three parts that OutboundInvoke and WorkerPools keep apart: the invoke  *)
(* id counter with its wrap, the map of pending operations keyed by that   *)
(* id, and a pause that first waits for the handlers and then completes    *)
(* the pending operations.  Each region under m_InternalProtectMutex is    *)
(* one step; Send succeeds; answers may come late, in any order, or never. *)
(***************************************************************************)
EXTENDS Naturals, FiniteSets

CONSTANTS
    Threads,    \* threads that call SendInvoke
    Handlers,   \* those that are pool workers of this stub
    Deadline,   \* those whose calls have a timeout; the others wait for ever (-1)
    IdLimit,    \* 99998 in the code
    None,       \* not a thread
    MaxCalls,   \* bound: invoke ids taken
    MaxPops,    \* bound: pooled items the workers pop
    MaxPauses   \* bound: pauses

ASSUME SessionAssumption ==
    /\ Handlers \subseteq Threads /\ Deadline \subseteq Threads
    /\ None \notin Threads
    /\ IdLimit \in Nat /\ IdLimit > 1
    /\ MaxCalls \in Nat /\ MaxPops \in Nat /\ MaxPauses \in Nat

Ids == 1..(IdLimit - 1)

\* Ids come round after this many calls.
Period == IdLimit - 1

VARIABLES
    processingAllowed,
    invokeCounter,      \* m_lInvokeCounter
    pc,                 \* where each thread is
    id,                 \* the invoke id of its call
    op,                 \* the operation AddPendingOperation gave it, named by its creator
    pending,            \* m_PendingOperations: id -> operation, None when absent
    signaled,           \* operations whose m_CompletedEvent is set
    answeredBy,         \* m_pAnswerMessage of each operation: the call it answers, 0 for none
    answers,            \* answers on their way: the call and the invoke id they name
    inflight,           \* handlers the pools count as running on this stub
    pause,              \* progress of PauseRoseProcessing
    calls, pops, pauses,
    serial,             \* history: the number of the call each thread is in
    wrapped             \* history: the ids came round on a call or an answer under way

counts == <<pops, pauses>>
idVars == <<invokeCounter, id, calls, serial, wrapped>>
opVars == <<op, pending, signaled, answeredBy, answers>>
vars == <<processingAllowed, pc, idVars, opVars, inflight, pause, counts>>

\* A thread is in a call from GetNextInvokeID until RemovePendingOperation, and holds
\* an operation once AddPendingOperation gave it one.
InCall == {"gate", "add", "wait", "remove"}
Active == {t \in Threads : pc[t] \in InCall}
Holding == {t \in Threads : pc[t] \in {"wait", "remove"}}

TypeOK ==
    /\ processingAllowed \in BOOLEAN /\ wrapped \in BOOLEAN
    /\ invokeCounter \in 0..Period
    /\ pc \in [Threads -> InCall \cup {"idle", "popped", "run", "reject"}]
    /\ id \in [Threads -> Ids]
    /\ op \in [Threads -> Threads]
    /\ pending \in [Ids -> Threads \cup {None}]
    /\ signaled \subseteq Threads
    /\ answeredBy \in [Threads -> Nat]
    /\ answers \subseteq (Nat \X Ids)
    /\ inflight \subseteq Handlers
    /\ pause \in {"none", "drain", "complete"}
    /\ calls \in Nat /\ pops \in Nat /\ pauses \in Nat
    /\ serial \in [Threads -> Nat]

Init ==
    /\ processingAllowed = TRUE /\ wrapped = FALSE
    /\ invokeCounter = 0
    /\ pc = [t \in Threads |-> "idle"]
    /\ id = [t \in Threads |-> 1]
    /\ op = [t \in Threads |-> t]
    /\ pending = [k \in Ids |-> None]
    /\ signaled = {} /\ answeredBy = [t \in Threads |-> 0] /\ answers = {}
    /\ inflight = {} /\ pause = "none"
    /\ calls = 0 /\ pops = 0 /\ pauses = 0
    /\ serial = [t \in Threads |-> 0]

-----------------------------------------------------------------------------
(* A worker pops an item of this stub and notes it as in flight, then looks *)
(* at the gate: the handler runs, or the item is rejected.                 *)

NoteInflight(t) ==
    /\ t \in Handlers /\ pc[t] = "idle" /\ pops < MaxPops
    /\ pops' = pops + 1
    /\ inflight' = inflight \cup {t}
    /\ pc' = [pc EXCEPT ![t] = "popped"]
    /\ UNCHANGED <<processingAllowed, idVars, opVars, pause, pauses>>

RunPooledInbound(t) ==
    /\ pc[t] = "popped"
    /\ pc' = [pc EXCEPT ![t] = IF processingAllowed THEN "run" ELSE "reject"]
    /\ UNCHANGED <<processingAllowed, idVars, opVars, inflight, pause, counts>>

\* Mutant: a rejected item is still counted as in flight.
HandlerReturnsLeaky(t) ==
    /\ pc[t] \in {"run", "reject"}
    /\ pc' = [pc EXCEPT ![t] = "idle"]
    /\ inflight' = IF pc[t] = "run" THEN inflight \ {t} ELSE inflight
    /\ UNCHANGED <<processingAllowed, idVars, opVars, pause, counts>>

\* The handler, or the reject, is done: NoteInflight(stub, -1).
HandlerReturns(t) ==
    /\ pc[t] \in {"run", "reject"}
    /\ pc' = [pc EXCEPT ![t] = "idle"]
    /\ inflight' = inflight \ {t}
    /\ UNCHANGED <<processingAllowed, idVars, opVars, pause, counts>>

-----------------------------------------------------------------------------
(* SendInvoke.                                                             *)

\* Mutant: the wrap comes back to the id that was used last.
NextInvokeIDSticks(n) == IF n + 1 >= IdLimit THEN n ELSE n + 1

\* The value after one more call of GetNextInvokeID.
NextInvokeID(n) == IF n + 1 >= IdLimit THEN 1 ELSE n + 1

\* The generated method takes an id, from a handler or from an application thread.
GetNextInvokeID(t) ==
    /\ \/ pc[t] = "run"
       \/ t \notin Handlers /\ pc[t] = "idle"
    /\ calls < MaxCalls
    /\ calls' = calls + 1
    /\ serial' = [serial EXCEPT ![t] = calls + 1]
    /\ invokeCounter' = NextInvokeID(invokeCounter)
    /\ id' = [id EXCEPT ![t] = NextInvokeID(invokeCounter)]
    /\ wrapped' = \/ wrapped
                  \/ \E s \in Active : serial[s] + Period <= calls + 1
                  \/ \E a \in answers : a[1] + Period <= calls + 1
    /\ pc' = [pc EXCEPT ![t] = "gate"]
    /\ UNCHANGED <<processingAllowed, opVars, inflight, pause, counts>>

\* Where a thread goes on after its call.
AfterCall(t) == IF t \in Handlers THEN "run" ELSE "idle"

\* CompleteIfProcessingShutdown
PassGate(t) ==
    /\ pc[t] = "gate"
    /\ pc' = [pc EXCEPT ![t] = IF processingAllowed THEN "add" ELSE AfterCall(t)]
    /\ UNCHANGED <<processingAllowed, idVars, opVars, inflight, pause, counts>>

\* AddPendingOperation: emplace does not replace an operation under the same id, and
\* the caller gets the operation that is in the map.  Then Send.
AddPendingOperation(t) ==
    LET k == id[t]
    IN  /\ pc[t] = "add"
        /\ IF pending[k] = None
             THEN /\ pending' = [pending EXCEPT ![k] = t]
                  /\ op' = [op EXCEPT ![t] = t]
                  /\ signaled' = signaled \ {t}
                  /\ answeredBy' = [answeredBy EXCEPT ![t] = 0]
             ELSE /\ op' = [op EXCEPT ![t] = pending[k]]
                  /\ UNCHANGED <<pending, signaled, answeredBy>>
        /\ answers' = answers \cup {<<serial[t], k>>}
        /\ pc' = [pc EXCEPT ![t] = "wait"]
        /\ UNCHANGED <<processingAllowed, idVars, inflight, pause, counts>>

\* Mutant: an answer completes some pending operation, not the one with its id.
CompletePendingOperationAny(a) ==
    /\ a \in answers
    /\ answers' = answers \ {a}
    /\ \E k \in Ids :
         /\ pending[k] # None
         /\ answeredBy' = [answeredBy EXCEPT ![pending[k]] = a[1]]
         /\ signaled' = signaled \cup {pending[k]}
    /\ UNCHANGED <<processingAllowed, pc, idVars, op, pending, inflight, pause, counts>>

\* An answer arrives and completes the operation under its id, if there is one.
CompletePendingOperation(a) ==
    LET o == pending[a[2]]
    IN  /\ a \in answers
        /\ answers' = answers \ {a}
        /\ IF o = None
             THEN UNCHANGED <<answeredBy, signaled>>
             ELSE /\ answeredBy' = [answeredBy EXCEPT ![o] = a[1]]
                  /\ signaled' = signaled \cup {o}
        /\ UNCHANGED <<processingAllowed, pc, idVars, op, pending, inflight, pause, counts>>

\* The peer does not answer, or its answer is lost.
AnswerLost(a) ==
    /\ a \in answers
    /\ answers' = answers \ {a}
    /\ UNCHANGED <<processingAllowed, pc, idVars, op, pending, signaled, answeredBy, inflight, pause, counts>>

\* WaitForComplete returns: the event was signaled, and is reset.
WaitCompleted(t) ==
    /\ pc[t] = "wait" /\ op[t] \in signaled
    /\ signaled' = signaled \ {op[t]}
    /\ pc' = [pc EXCEPT ![t] = "remove"]
    /\ UNCHANGED <<processingAllowed, idVars, op, pending, answeredBy, answers, inflight, pause, counts>>

\* WaitForComplete times out.
WaitTimedOut(t) ==
    /\ pc[t] = "wait" /\ t \in Deadline
    /\ pc' = [pc EXCEPT ![t] = "remove"]
    /\ UNCHANGED <<processingAllowed, idVars, opVars, inflight, pause, counts>>

RemovePendingOperation(t) ==
    /\ pc[t] = "remove"
    /\ pending' = [pending EXCEPT ![id[t]] = None]
    /\ pc' = [pc EXCEPT ![t] = AfterCall(t)]
    /\ UNCHANGED <<processingAllowed, idVars, op, signaled, answeredBy, answers, inflight, pause, counts>>

-----------------------------------------------------------------------------
(* PauseRoseProcessing, by a thread that runs no handler of this stub.     *)

ShutGate ==
    /\ pause = "none" /\ pauses < MaxPauses
    /\ pauses' = pauses + 1
    /\ processingAllowed' = FALSE
    /\ pause' = "drain"
    /\ UNCHANGED <<pc, idVars, opVars, inflight, pops>>

\* RejectQueuedAndWait returns when no handler of the stub is in flight.
RejectQueuedAndWait ==
    /\ pause = "drain" /\ inflight = {}
    /\ pause' = "complete"
    /\ UNCHANGED <<processingAllowed, pc, idVars, opVars, inflight, counts>>

\* Every operation in the map gets ROSE_TE_SHUTDOWN; an answer it has is kept.
CompleteAllPendingOperations ==
    /\ pause = "complete"
    /\ signaled' = signaled \cup {pending[k] : k \in {j \in Ids : pending[j] # None}}
    /\ pause' = "none"
    /\ UNCHANGED <<processingAllowed, pc, idVars, op, pending, answeredBy, answers, inflight, counts>>

ResumeRoseProcessing ==
    /\ pause = "none" /\ ~processingAllowed
    /\ processingAllowed' = TRUE
    /\ UNCHANGED <<pc, idVars, opVars, inflight, pause, counts>>

-----------------------------------------------------------------------------
OfThread(t) ==
    \/ NoteInflight(t) \/ RunPooledInbound(t) \/ HandlerReturns(t)
    \/ GetNextInvokeID(t) \/ PassGate(t) \/ AddPendingOperation(t)
    \/ WaitCompleted(t) \/ WaitTimedOut(t) \/ RemovePendingOperation(t)
OfPeer == \E a \in answers : CompletePendingOperation(a) \/ AnswerLost(a)
OfPause == ShutGate \/ RejectQueuedAndWait \/ CompleteAllPendingOperations \/ ResumeRoseProcessing

Next ==
    \/ \E t \in Threads : OfThread(t)
    \/ OfPeer
    \/ OfPause

\* Threads run, a handler ends, a deadline passes, the pause continues when it can.
\* The peer need not answer and the application need not call or resume.
Fairness ==
    /\ \A t \in Threads :
         /\ WF_vars(RunPooledInbound(t)) /\ WF_vars(PassGate(t)) /\ WF_vars(AddPendingOperation(t))
         /\ WF_vars(WaitCompleted(t) \/ WaitTimedOut(t)) /\ WF_vars(RemovePendingOperation(t))
         /\ WF_vars(HandlerReturns(t) \/ (t \in Handlers /\ GetNextInvokeID(t)))
    /\ WF_vars(RejectQueuedAndWait) /\ WF_vars(CompleteAllPendingOperations)

Spec == Init /\ [][Next]_vars
LiveSpec == Spec /\ Fairness

-----------------------------------------------------------------------------
(* Properties.                                                             *)

\* The assertion of AddPendingOperation, and what it is for: a caller waits on an
\* operation of its own that is in the map under its id, so no two callers share an
\* event and none removes the operation of another.  It holds as long as the ids do
\* not come round while a call or an answer is under way.
OwnOperation ==
    ~wrapped => \A t \in Holding : op[t] = t /\ pending[id[t]] = t

\* A caller is given the answer to its own call, also when the answer to an earlier
\* call that timed out arrives after its id was left or taken again.
OwnAnswer ==
    ~wrapped => \A t \in Holding : answeredBy[op[t]] \in {0, serial[t]}

\* PauseRoseProcessing returns, although it waits for handlers that may themselves be
\* waiting for an answer, if every call a handler makes has a deadline; and whoever waits
\* when the pause gets to the pending operations is released, with or without a deadline.
PauseEnds ==
    /\ pause # "none" ~> pause = "none"
    /\ \A t \in Threads : (pause = "complete" /\ pc[t] = "wait") ~> (pc[t] # "wait" \/ wrapped)
=============================================================================
