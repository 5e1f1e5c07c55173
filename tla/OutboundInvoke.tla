--------------------------- MODULE OutboundInvoke ---------------------------
(***************************************************************************)
(* The outbound half of SnaccROSEBase: SendInvoke, SendInvokeAsync and     *)
(* SendEvent, the map of pending operations, the receiver that completes   *)
(* them, the watchdog thread that times asynchronous ones out, and the     *)
(* processing gate (PauseRoseProcessing, ResumeRoseProcessing and the      *)
(* destructor).                                                            *)
(*                                                                         *)
(* A call is one SendInvoke/SendInvokeAsync/SendEvent on a thread of its   *)
(* own.  One step is one region under m_InternalProtectMutex or            *)
(* m_watchdogMutex, or one access outside both.  Invoke ids are taken to   *)
(* be distinct, so the pending map is the set inMap together with op.      *)
(*                                                                         *)
(* Time is relative: a deadline is the number of ticks left and Tick ages  *)
(* all of them together, so there is no bound on how long a behaviour is.  *)
(***************************************************************************)
EXTENDS Integers, FiniteSets, Sequences

CONSTANTS
  Calls,         \* the calls that may be made
  Asks,          \* what the calls may ask for
  SendOutcomes,  \* what SendBinaryDataBlockEx may do
  Answers,       \* what the peer may answer
  MaxPauses,     \* bound on the number of pauses, for each choice of what is asked
  Reuse          \* a new operation may get the memory of one that was freed

NoDeadline == -1
NoAnswer == "none"

\* What a call asks for: the function called, the ticks it waits (-1 is no
\* deadline, 0 is fire-and-forget) and whether the session blocks the operation.
Requests == [how : {"sync", "async", "event"}, timeout : Nat \cup {NoDeadline}, blocked : BOOLEAN]

\* The code CompletePendingOperation derives from the kind of an answer.  A
\* "garbled" answer is a result whose envelope decodes and whose payload does not.
RoseResult == [result  |-> "NOERROR",     garbled |-> "NOERROR",
               error   |-> "ERROR_VALUE", reject  |-> "REJECT"]

Codes == {"NOERROR", "ERROR_VALUE", "REJECT", "DECODE_FAILED", "TIMEOUT",
          "SHUTDOWN", "TRANSPORTFAILED", "REMOTENOTCAPABLE"}
TransportErrors == {"TRANSPORTFAILED", "SHUTDOWN", "TIMEOUT"}

ASSUME CallsAssumption ==
  /\ Asks \subseteq [Calls -> Requests]
  /\ SendOutcomes \subseteq {"ok", "fail", "throw"}
  /\ Answers \subseteq DOMAIN RoseResult
  /\ MaxPauses \in [Asks -> Nat] /\ Reuse \in BOOLEAN
ASSUME NamesAssumption == Calls \cap {"none", "receiver", "watchdog", "pauser"} = {}

VARIABLES
  ask,       \* what each call asks for, the same throughout
  gate,      \* m_bProcessingAllowed
  inMap,     \* the keys of m_PendingOperations
  op,        \* the pending operation of each call
  count,     \* m_asyncDeadlineCount
  pc,        \* where each call is
  res,       \* lRoseResult of each call
  until,     \* ticks left of the wait of each synchronous call
  wire,      \* what the transport holds of each call
  fin,       \* the rest of FinishAsyncInvoke after it claimed the operation
  cbs,       \* results handed to the completion callback of each call
  telem,     \* outcomes reported to OnInvokeProcessed for each call
  wdpc, wdNext, wdList, \* the watchdog thread, its nextDeadline and timedOutInvokeIds
  stopReq,   \* m_watchdogStopRequested
  running,   \* m_watchdogThreadRunning
  ppc, plist, dying, \* the thread that pauses, its asyncInvokeIds, in the destructor
  pauses,    \* pauses so far
  shut,      \* history: calls a pause completed while they had no answer
  heirs      \* operations that may sit where the operation of a call was freed

callVars == <<ask, pc, res, until, wire>>
wdVars   == <<wdpc, wdNext, wdList, stopReq, running>>
mapVars  == <<inMap, op, count>>
pauseVars == <<gate, ppc, plist, dying, pauses, shut>>
vars == <<callVars, wdVars, mapVars, heirs, pauseVars, fin, cbs, telem>>

-----------------------------------------------------------------------------
(* State *)

IsSync(c) == ask[c].how = "sync"
IsAsync(c) == ask[c].how = "async"
IsEvent(c) == ask[c].how = "event"
HasCallback(c) == IsAsync(c) /\ ask[c].timeout # 0

NewOp == [async |-> FALSE, ctx |-> FALSE, stamp |-> FALSE, deadline |-> NoDeadline,
          result |-> "NOERROR", answer |-> NoAnswer, signaled |-> FALSE]
NotFinishing == [pc |-> "none", by |-> "none", res |-> "NOERROR", ctx |-> FALSE, at |-> "none"]

\* Where SendInvokeAsync is while its operation can be found and is not written yet.
Registering == {"context", "stamp", "arm", "count"}

Init ==
  /\ ask \in Asks
  /\ gate = TRUE /\ ppc = "open" /\ plist = {} /\ dying = FALSE
  /\ pauses = 0 /\ shut = {}
  /\ inMap = {} /\ op = [c \in Calls |-> NewOp] /\ count = 0
  /\ pc = [c \in Calls |-> "idle"] /\ res = [c \in Calls |-> "NOERROR"]
  /\ until = [c \in Calls |-> NoDeadline] /\ wire = [c \in Calls |-> "none"]
  /\ fin = [c \in Calls |-> NotFinishing]
  /\ heirs = [c \in Calls |-> {}]
  /\ cbs = [c \in Calls |-> <<>>] /\ telem = [c \in Calls |-> <<>>]
  /\ wdpc = "none" /\ wdNext = NoDeadline /\ wdList = {}
  /\ stopReq = FALSE /\ running = FALSE

\* A thread is busy while a FinishAsyncInvoke it runs has not returned.
Busy(t) == \E c \in Calls : fin[c].by = t /\ fin[c].pc \notin {"none", "done"}

\* FinishAsyncInvoke owns the operation it claimed and frees it on return.
Freed(c) == fin[c].pc = "done"

Goto(c, label) == pc' = [pc EXCEPT ![c] = label]

-----------------------------------------------------------------------------
(* Completion *)

\* Mutants: the result of decoding the payload is not looked at, or any
\* answer that decodes is a success.
DecodeUnchecked(r, k) == IF r \in TransportErrors THEN r ELSE RoseResult[k]
AnswerIsSuccess(r, k) ==
  IF r \in TransportErrors THEN r ELSE IF k = "garbled" THEN "DECODE_FAILED" ELSE "NOERROR"

\* What the caller is told about an answer: a transport error stands, a
\* payload that does not decode is DECODE_FAILED.
HandleInvokeResult(r, k) ==
  IF r \in TransportErrors THEN r
  ELSE IF k = "garbled" THEN "DECODE_FAILED" ELSE RoseResult[k]

\* The outcome FinalizeTelemetry reports.
FinalizeTelemetry(final, result, k) ==
  IF k # NoAnswer /\ final # result THEN "UNHANDLED"
  ELSE IF k = "error"  THEN "ERR"
  ELSE IF k = "reject" THEN "REJECT"
  ELSE IF k # NoAnswer THEN "RESULT"
  ELSE IF result # "NOERROR" THEN "UNHANDLED" ELSE "DISPATCHED"

Report(c, outcome) == telem' = [telem EXCEPT ![c] = Append(@, outcome)]

\* Mutant: the event is not signaled.
CompleteSilently(cs, r, k) ==
  op' = [c \in Calls |-> IF c \in cs THEN [op[c] EXCEPT !.result = r, !.answer = k] ELSE op[c]]

\* CompleteOperation on the synchronous operations cs.
CompleteOperation(cs, r, k) ==
  op' = [c \in Calls |->
           IF c \notin cs THEN op[c]
           ELSE [op[c] EXCEPT !.result = r, !.signaled = TRUE,
                              !.answer = IF k = NoAnswer THEN @ ELSE k]]

\* Mutant: an operation that was already claimed is found again.
FoundStale(c) == op[c].async

\* FinishAsyncInvoke's lookup and claim.
Found(c) == c \in inMap /\ op[c].async

\* Mutant: the count is not given back.
NeverRelease(c) == count

\* m_asyncDeadlineCount after the operation of c has left the map.
ReleaseDeadline(c) ==
  IF op[c].deadline # NoDeadline /\ count > 0 THEN count - 1 ELSE count

\* FinishAsyncInvoke under the lock: look the operation up, claim it, take it
\* out of the map.  A second call for the same id does nothing.  A
\* fire-and-forget operation drops the answer.  The field at is history: where
\* the thread that registers the operation was when another one claimed it.
FinishAsyncInvoke(c, r, k, t) ==
  IF Found(c)
  THEN /\ inMap' = inMap \ {c}
       /\ count' = ReleaseDeadline(c)
       /\ op' = [op EXCEPT ![c].result = r, ![c].answer = IF ask[c].timeout = 0 THEN @ ELSE k]
       /\ fin' = [fin EXCEPT ![c] = [pc |-> "context", by |-> t, res |-> r, ctx |-> FALSE,
                                     at |-> IF pc[c] \in Registering THEN pc[c] ELSE "none"]]
  ELSE UNCHANGED <<inMap, count, fin, op>>

\* What follows takes no lock.  The context is read, and with it the answer is decoded.
FinishContext(c) ==
  /\ fin[c].pc = "context"
  /\ fin' = [fin EXCEPT ![c].pc = "report", ![c].ctx = op[c].ctx,
                        ![c].res = IF op[c].ctx /\ op[c].answer # NoAnswer
                                   THEN HandleInvokeResult(@, op[c].answer) ELSE @]
  /\ UNCHANGED <<callVars, wdVars, mapVars, pauseVars, cbs, heirs, telem>>

\* EnsureOutboundTelemetry makes a record only of an operation that has its start time.
FinishReport(c) ==
  /\ fin[c].pc = "report"
  /\ fin' = [fin EXCEPT ![c].pc = "read"]
  /\ IF op[c].stamp THEN Report(c, FinalizeTelemetry(fin[c].res, op[c].result, op[c].answer))
                    ELSE UNCHANGED telem
  /\ UNCHANGED <<callVars, wdVars, mapVars, pauseVars, cbs, heirs>>

\* NotifyWatchdog, called by FinishAsyncInvoke: read the count, then ...
FinishRead(c) ==
  /\ fin[c].pc = "read"
  /\ fin' = [fin EXCEPT ![c].pc = IF count = 0 THEN "stop" ELSE "callback"]
  /\ UNCHANGED <<callVars, wdVars, mapVars, pauseVars, cbs, heirs, telem>>

\* ... ask the watchdog to stop, under the other mutex.
FinishStop(c) ==
  /\ fin[c].pc = "stop"
  /\ stopReq' = TRUE
  /\ fin' = [fin EXCEPT ![c].pc = "callback"]
  /\ UNCHANGED <<callVars, wdpc, wdNext, wdList, running, mapVars, pauseVars, cbs, heirs, telem>>

\* The completion callback, when the context had been stored and has one.
FinishCallback(c) ==
  /\ fin[c].pc = "callback"
  /\ fin' = [fin EXCEPT ![c].pc = "done"]
  /\ cbs' = IF HasCallback(c) /\ fin[c].ctx
            THEN [cbs EXCEPT ![c] = Append(@, fin[c].res)] ELSE cbs
  /\ UNCHANGED <<callVars, wdVars, mapVars, pauseVars, heirs, telem>>

-----------------------------------------------------------------------------
(* The calling thread, both kinds of invoke and events *)

\* CompleteIfProcessingShutdown and CompleteIfOperationBlocked: the call is
\* refused, reported, and an asynchronous one gets its callback here.
Refuse(c, r) ==
  /\ pc[c] = "idle" /\ ~dying
  /\ Goto(c, "returned") /\ res' = [res EXCEPT ![c] = r]
  /\ Report(c, "UNHANDLED")
  /\ cbs' = IF HasCallback(c) THEN [cbs EXCEPT ![c] = Append(@, r)] ELSE cbs
  /\ UNCHANGED <<ask, until, wire, wdVars, mapVars, pauseVars, heirs, fin>>

RefuseShutdown(c) == ~gate /\ Refuse(c, "SHUTDOWN")
RefuseBlocked(c) == gate /\ ask[c].blocked /\ Refuse(c, "REMOTENOTCAPABLE")

PassGate(c) ==
  /\ pc[c] = "idle" /\ ~dying
  /\ gate /\ ~ask[c].blocked
  /\ Goto(c, IF IsEvent(c) THEN "send" ELSE "add")
  /\ UNCHANGED <<ask, res, until, wire, wdVars, mapVars, pauseVars, fin, cbs, heirs, telem>>

AddPendingOperation(c) ==
  /\ pc[c] = "add"
  /\ inMap' = inMap \cup {c} /\ op' = [op EXCEPT ![c] = NewOp]
  /\ heirs' = [d \in Calls |-> IF Reuse /\ Freed(d) THEN heirs[d] \cup {c} ELSE heirs[d]]
  /\ Goto(c, IF IsAsync(c) THEN "mark" ELSE "send")
  /\ UNCHANGED <<ask, res, until, wire, wdVars, count, pauseVars, fin, cbs, telem>>

\* The transport call.  Once it accepted the bytes the answer may be received
\* before it returns.
Send(c, outcome) ==
  /\ pc[c] = "send" /\ outcome \in SendOutcomes
  /\ Goto(c, IF outcome = "throw" THEN "threw" ELSE "sent")
  /\ wire' = [wire EXCEPT ![c] = IF outcome = "ok" THEN "sent" ELSE @]
  /\ res' = [res EXCEPT ![c] = IF outcome = "ok" THEN "NOERROR" ELSE "TRANSPORTFAILED"]
  /\ UNCHANGED <<ask, until, wdVars, mapVars, pauseVars, fin, cbs, heirs, telem>>

EventSent(c) ==
  /\ pc[c] = "sent" /\ IsEvent(c)
  /\ Goto(c, "returned")
  /\ Report(c, IF res[c] = "NOERROR" THEN "EVENT" ELSE "UNHANDLED")
  /\ UNCHANGED <<ask, res, until, wire, wdVars, mapVars, pauseVars, fin, cbs, heirs>>

-----------------------------------------------------------------------------
(* SendInvoke after Send returned *)

SetResult(c, r) == op' = [op EXCEPT ![c].result = r]

\* No wait: the send failed or the call is fire-and-forget.
SkipWait(c) ==
  /\ pc[c] = "sent" /\ IsSync(c)
  /\ res[c] # "NOERROR" \/ ask[c].timeout = 0
  /\ SetResult(c, res[c])
  /\ Goto(c, "finish")
  /\ UNCHANGED <<ask, res, until, wire, wdVars, inMap, count, pauseVars, fin, cbs, heirs, telem>>

StartWait(c) ==
  /\ pc[c] = "sent" /\ IsSync(c)
  /\ res[c] = "NOERROR" /\ ask[c].timeout # 0
  /\ until' = [until EXCEPT ![c] = ask[c].timeout]
  /\ Goto(c, "wait")
  /\ UNCHANGED <<ask, res, wire, wdVars, mapVars, pauseVars, fin, cbs, heirs, telem>>

\* SyncEvent::waitfor returns true ...
WaitCompleted(c) ==
  /\ pc[c] = "wait" /\ op[c].signaled
  /\ op' = [op EXCEPT ![c].signaled = FALSE]
  /\ Goto(c, "woke")
  /\ UNCHANGED <<ask, res, until, wire, wdVars, inMap, count, pauseVars, fin, cbs, heirs, telem>>

\* ... or false, with the event still not set when the time was up.
WaitTimedOut(c) ==
  /\ pc[c] = "wait" /\ ~op[c].signaled /\ until[c] = 0
  /\ Goto(c, "timedout")
  /\ UNCHANGED <<ask, res, until, wire, wdVars, mapVars, pauseVars, fin, cbs, heirs, telem>>

ReadCompletion(c) ==
  /\ pc[c] = "woke"
  /\ res' = [res EXCEPT ![c] = IF op[c].answer # NoAnswer THEN "NOERROR" ELSE op[c].result]
  /\ Goto(c, "finish")
  /\ UNCHANGED <<ask, until, wire, wdVars, mapVars, pauseVars, fin, cbs, heirs, telem>>

RecordTimeout(c) ==
  /\ pc[c] = "timedout"
  /\ res' = [res EXCEPT ![c] = "TIMEOUT"] /\ SetResult(c, "TIMEOUT")
  /\ Goto(c, "finish")
  /\ UNCHANGED <<ask, until, wire, wdVars, inMap, count, pauseVars, fin, cbs, heirs, telem>>

HandleAnswer(c) ==
  /\ pc[c] = "finish" /\ IsSync(c)
  /\ res' = [res EXCEPT ![c] = IF op[c].answer = NoAnswer THEN @
                               ELSE HandleInvokeResult(@, op[c].answer)]
  /\ Goto(c, "telemetry")
  /\ UNCHANGED <<ask, until, wire, wdVars, mapVars, pauseVars, fin, cbs, heirs, telem>>

ReportCall(c) ==
  /\ pc[c] = "telemetry"
  /\ Report(c, FinalizeTelemetry(res[c], op[c].result, op[c].answer))
  /\ Goto(c, "remove")
  /\ UNCHANGED <<ask, res, until, wire, wdVars, mapVars, pauseVars, fin, cbs, heirs>>

RemovePendingOperation(c) ==
  /\ pc[c] = "remove"
  /\ inMap' = inMap \ {c}
  /\ Goto(c, "returned")
  /\ UNCHANGED <<ask, res, until, wire, wdVars, op, count, pauseVars, fin, cbs, heirs, telem>>

-----------------------------------------------------------------------------
(* SendInvokeAsync around Send *)

\* pendingOP is a reference into the map and the next writes take no lock:
\* another thread may claim the operation between any two of them, and sees
\* them as long as it has not freed the operation.  The fire-and-forget mark
\* is stored with m_bAsyncInvoke here, since an operation that is claimed
\* between those two has neither a context nor a start time.
MarkAsync(c) ==
  /\ pc[c] = "mark"
  /\ op' = [op EXCEPT ![c].async = TRUE]
  /\ Goto(c, "context")
  /\ UNCHANGED <<ask, res, until, wire, wdVars, inMap, count, pauseVars, fin, cbs, heirs, telem>>

StoreContext(c) ==
  /\ pc[c] = "context"
  /\ op' = IF Freed(c) THEN op ELSE [op EXCEPT ![c].ctx = TRUE]
  /\ Goto(c, "stamp")
  /\ UNCHANGED <<ask, res, until, wire, wdVars, inMap, count, pauseVars, fin, cbs, heirs, telem>>

\* m_chronoTelemetryCreated.
StampTelemetry(c) ==
  /\ pc[c] = "stamp"
  /\ op' = IF Freed(c) THEN op ELSE [op EXCEPT ![c].stamp = TRUE]
  /\ Goto(c, IF ask[c].timeout > 0 THEN "arm" ELSE "send")
  /\ UNCHANGED <<ask, res, until, wire, wdVars, inMap, count, pauseVars, fin, cbs, heirs, telem>>

ArmDeadline(c) ==
  /\ pc[c] = "arm"
  /\ op' = IF Freed(c) THEN op ELSE [op EXCEPT ![c].deadline = ask[c].timeout]
  /\ Goto(c, "count")
  /\ UNCHANGED <<ask, res, until, wire, wdVars, inMap, count, pauseVars, fin, cbs, heirs, telem>>

CountDeadline(c) ==
  /\ pc[c] = "count"
  /\ count' = count + 1
  /\ Goto(c, "ensure")
  /\ UNCHANGED <<ask, res, until, wire, wdVars, inMap, op, pauseVars, fin, cbs, heirs, telem>>

\* Mutant: the request to stop is not withdrawn for the next thread.
StopNotWithdrawn(c) ==
  /\ pc[c] = "ensure"
  /\ running' = TRUE
  /\ wdpc' = IF running THEN wdpc ELSE "scan"
  /\ Goto(c, "notify")
  /\ UNCHANGED <<ask, res, until, wire, wdNext, wdList, stopReq, mapVars, pauseVars, fin, cbs,
                 heirs, telem>>

\* A thread whose running flag is false has left its loop, so joining it
\* before the next one starts does not wait.
EnsureWatchdogRunning(c) ==
  /\ pc[c] = "ensure"
  /\ running' = TRUE
  /\ wdpc' = IF running THEN wdpc ELSE "scan"
  /\ stopReq' = (running /\ stopReq)
  /\ Goto(c, "notify")
  /\ UNCHANGED <<ask, res, until, wire, wdNext, wdList, mapVars, pauseVars, fin, cbs, heirs, telem>>

\* NotifyWatchdog reads the count and, when it is 0, sets the stop flag later.
NotifyRead(c) ==
  /\ pc[c] = "notify"
  /\ Goto(c, IF count = 0 THEN "notifystop" ELSE "send")
  /\ UNCHANGED <<ask, res, until, wire, wdVars, mapVars, pauseVars, fin, cbs, heirs, telem>>

NotifyStop(c) ==
  /\ pc[c] = "notifystop"
  /\ stopReq' = TRUE
  /\ Goto(c, "send")
  /\ UNCHANGED <<ask, res, until, wire, wdpc, wdNext, wdList, running, mapVars, pauseVars,
                 fin, cbs, heirs, telem>>

\* Mutant: only a failed send finishes the operation.
FinishOnFailureOnly(c) ==
  /\ pc[c] = "sent" /\ IsAsync(c) /\ (ask[c].timeout = 0 \/ res[c] # "NOERROR")
  /\ IF res[c] # "NOERROR" THEN FinishAsyncInvoke(c, res[c], NoAnswer, c)
     ELSE UNCHANGED <<inMap, count, fin, op>>
  /\ Goto(c, "finishing")
  /\ UNCHANGED <<ask, res, until, wire, wdVars, pauseVars, cbs, heirs, telem>>

\* Fire-and-forget, or the send failed: finish the operation here.  The id is
\* read from pendingOP.  When somebody else already finished the operation
\* that memory is free and may hold the id of an operation added since.
FinishAfterSend(c) ==
  /\ pc[c] = "sent" /\ IsAsync(c)
  /\ ask[c].timeout = 0 \/ res[c] # "NOERROR"
  /\ \E d \in {c} \cup heirs[c] : FinishAsyncInvoke(d, res[c], NoAnswer, c)
  /\ Goto(c, "finishing")
  /\ UNCHANGED <<ask, res, until, wire, wdVars, pauseVars, cbs, heirs, telem>>

ReturnAsync(c) ==
  /\ IsAsync(c)
  /\ \/ pc[c] = "sent" /\ ask[c].timeout # 0 /\ res[c] = "NOERROR"
     \/ pc[c] = "finishing" /\ ~Busy(c)
  /\ Goto(c, "returned")
  /\ UNCHANGED <<ask, res, until, wire, wdVars, mapVars, pauseVars, fin, cbs, heirs, telem>>

-----------------------------------------------------------------------------
(* The receiving thread: OnROSEMessage and CompletePendingOperation *)

\* An answer for an id that is not pending is ignored.  The second lookup in
\* FinishAsyncInvoke is merged with the first: when another thread wins the
\* claim in between, the answer is as good as late.
CompletePendingOperation(c, k) ==
  /\ wire[c] = "sent" /\ ~IsEvent(c) /\ ~dying
  /\ k \in Answers
  /\ wire' = [wire EXCEPT ![c] = k]
  /\ IF c \in inMap /\ ~op[c].async
     THEN /\ CompleteOperation({c}, RoseResult[k], k)
          /\ UNCHANGED <<inMap, count, fin>>
     ELSE FinishAsyncInvoke(c, RoseResult[k], k, "receiver")
  /\ UNCHANGED <<ask, pc, res, until, wdVars, pauseVars, cbs, heirs, telem>>

-----------------------------------------------------------------------------
(* The watchdog thread *)

Deadlines == {op[c].deadline : c \in {d \in inMap : op[d].async}} \ {NoDeadline}

WatchdogScan ==
  /\ wdpc = "scan"
  /\ wdNext' \in IF Deadlines = {} THEN {NoDeadline}
                 ELSE {d \in Deadlines : \A e \in Deadlines : d <= e}
  /\ wdpc' = "wait"
  /\ UNCHANGED <<callVars, wdList, stopReq, running, mapVars, pauseVars, fin, cbs, heirs, telem>>

\* Both waits wake on the stop flag.  With deadlines left the loop goes on and
\* the flag stays set.
WatchdogStopSeen ==
  /\ wdpc = "wait" /\ stopReq
  /\ wdpc' = IF count = 0 THEN "exit" ELSE "scan"
  /\ wdNext' = NoDeadline
  /\ UNCHANGED <<callVars, wdList, stopReq, running, mapVars, pauseVars, fin, cbs, heirs, telem>>

WatchdogWorkSeen ==
  /\ wdpc = "wait" /\ ~stopReq /\ wdNext = NoDeadline /\ count > 0
  /\ wdpc' = "scan"
  /\ wdNext' = NoDeadline
  /\ UNCHANGED <<callVars, wdList, stopReq, running, mapVars, pauseVars, fin, cbs, heirs, telem>>

WatchdogDeadline ==
  /\ wdpc = "wait" /\ ~stopReq /\ wdNext = 0
  /\ wdpc' = "process"
  /\ wdNext' = NoDeadline
  /\ UNCHANGED <<callVars, wdList, stopReq, running, mapVars, pauseVars, fin, cbs, heirs, telem>>

ProcessAsyncTimeouts ==
  /\ wdpc = "process"
  /\ wdList' = {c \in inMap : op[c].async /\ op[c].deadline = 0}
  /\ wdpc' = "finish"
  /\ UNCHANGED <<callVars, wdNext, stopReq, running, mapVars, pauseVars, fin, cbs, heirs, telem>>

WatchdogFinish(c) ==
  /\ wdpc = "finish" /\ ~Busy("watchdog") /\ c \in wdList
  /\ FinishAsyncInvoke(c, "TIMEOUT", NoAnswer, "watchdog")
  /\ wdList' = wdList \ {c}
  /\ UNCHANGED <<callVars, wdpc, wdNext, stopReq, running, pauseVars, cbs, heirs, telem>>

WatchdogLoop ==
  /\ wdpc = "finish" /\ ~Busy("watchdog") /\ wdList = {}
  /\ wdpc' = "scan"
  /\ UNCHANGED <<callVars, wdNext, wdList, stopReq, running, mapVars, pauseVars,
                 fin, cbs, heirs, telem>>

WatchdogExit ==
  /\ wdpc = "exit"
  /\ wdpc' = "none" /\ running' = FALSE
  /\ UNCHANGED <<callVars, wdNext, wdList, stopReq, mapVars, pauseVars, fin, cbs, heirs, telem>>

-----------------------------------------------------------------------------
(* Pause, resume and destruction *)

PauseRoseProcessing ==
  /\ ppc \in {"open", "closed"} /\ ~dying /\ pauses < MaxPauses[ask]
  /\ gate' = FALSE /\ ppc' = "complete" /\ pauses' = pauses + 1
  /\ UNCHANGED <<callVars, wdVars, mapVars, plist, dying, shut, fin, cbs, heirs, telem>>

\* The destructor pauses too.  No thread may be inside the object any more,
\* its own watchdog excepted.
Destroy ==
  /\ ppc \in {"open", "closed"} /\ ~dying
  /\ \A c \in Calls : pc[c] \in {"idle", "returned", "threw"}
  /\ ~Busy("receiver")
  /\ gate' = FALSE /\ ppc' = "complete" /\ dying' = TRUE
  /\ UNCHANGED <<callVars, wdVars, mapVars, plist, pauses, shut, fin, cbs, heirs, telem>>

CompleteAllPendingOperations ==
  /\ ppc = "complete"
  /\ plist' = {c \in inMap : op[c].async}
  /\ CompleteOperation({c \in inMap : ~op[c].async}, "SHUTDOWN", NoAnswer)
  /\ shut' = shut \cup {c \in inMap : op[c].answer = NoAnswer}
  /\ ppc' = "finish"
  /\ UNCHANGED <<callVars, wdVars, inMap, count, gate, dying, pauses, fin, cbs, heirs, telem>>

PauseFinish(c) ==
  /\ ppc = "finish" /\ ~Busy("pauser") /\ c \in plist
  /\ FinishAsyncInvoke(c, "SHUTDOWN", NoAnswer, "pauser")
  /\ plist' = plist \ {c}
  /\ UNCHANGED <<callVars, wdVars, gate, ppc, dying, pauses, shut, cbs, heirs, telem>>

PauseReturn ==
  /\ ppc = "finish" /\ ~Busy("pauser") /\ plist = {}
  /\ ppc' = IF dying THEN "stop" ELSE "closed"
  /\ UNCHANGED <<callVars, wdVars, mapVars, gate, plist, dying, pauses, shut,
                 fin, cbs, heirs, telem>>

ResumeRoseProcessing ==
  /\ ppc = "closed" /\ ~dying
  /\ gate' = TRUE /\ ppc' = "open"
  /\ UNCHANGED <<callVars, wdVars, mapVars, plist, dying, pauses, shut, fin, cbs, heirs, telem>>

StopWatchdogThread ==
  /\ ppc = "stop"
  /\ stopReq' = TRUE /\ ppc' = "join"
  /\ UNCHANGED <<callVars, wdpc, wdNext, wdList, running, mapVars, gate, plist, dying, pauses,
                 shut, fin, cbs, heirs, telem>>

\* Mutant: the destructor does not wait for the thread.
JoinSkipped ==
  /\ ppc = "join" /\ ppc' = "dead"
  /\ UNCHANGED <<callVars, wdVars, mapVars, gate, plist, dying, pauses, shut, fin, cbs, heirs,
                 telem>>

JoinWatchdogThread ==
  /\ ppc = "join" /\ wdpc = "none"
  /\ ppc' = "dead"
  /\ UNCHANGED <<callVars, wdVars, mapVars, gate, plist, dying, pauses, shut,
                 fin, cbs, heirs, telem>>

-----------------------------------------------------------------------------
(* Time *)

Aged(n) == IF n > 0 THEN n - 1 ELSE n

Tick ==
  /\ \/ wdNext > 0
     \/ \E c \in Calls : until[c] > 0 \/ (c \in inMap /\ op[c].deadline > 0)
  /\ op' = [c \in Calls |-> IF c \in inMap THEN [op[c] EXCEPT !.deadline = Aged(@)] ELSE op[c]]
  /\ until' = [c \in Calls |-> IF pc[c] = "wait" THEN Aged(until[c]) ELSE until[c]]
  /\ wdNext' = Aged(wdNext)
  /\ UNCHANGED <<ask, pc, res, wire, inMap, count, wdpc, wdList, stopReq, running, pauseVars,
                 fin, cbs, heirs, telem>>

-----------------------------------------------------------------------------
(* Specification *)

\* The steps of a call once it passed the gate.
CallStep(c) ==
  \/ AddPendingOperation(c) \/ (\E o \in SendOutcomes : Send(c, o)) \/ EventSent(c)
  \/ SkipWait(c) \/ StartWait(c) \/ WaitCompleted(c) \/ WaitTimedOut(c)
  \/ ReadCompletion(c) \/ RecordTimeout(c) \/ HandleAnswer(c) \/ ReportCall(c)
  \/ RemovePendingOperation(c)
  \/ MarkAsync(c) \/ StoreContext(c) \/ StampTelemetry(c) \/ ArmDeadline(c)
  \/ CountDeadline(c) \/ EnsureWatchdogRunning(c)
  \/ NotifyRead(c) \/ NotifyStop(c) \/ FinishAfterSend(c) \/ ReturnAsync(c)

FinishStep(c) ==
  FinishContext(c) \/ FinishReport(c) \/ FinishRead(c) \/ FinishStop(c) \/ FinishCallback(c)

WatchdogStep ==
  \/ WatchdogScan \/ WatchdogStopSeen \/ WatchdogWorkSeen \/ WatchdogDeadline
  \/ ProcessAsyncTimeouts \/ (\E c \in Calls : WatchdogFinish(c)) \/ WatchdogLoop
  \/ WatchdogExit

PauseStep ==
  \/ CompleteAllPendingOperations \/ (\E c \in Calls : PauseFinish(c)) \/ PauseReturn
  \/ StopWatchdogThread \/ JoinWatchdogThread

Next ==
  \/ \E c \in Calls :
       \/ RefuseShutdown(c) \/ RefuseBlocked(c) \/ PassGate(c)
       \/ CallStep(c) \/ FinishStep(c)
       \/ \E k \in Answers : CompletePendingOperation(c, k)
  \/ WatchdogStep
  \/ PauseRoseProcessing \/ Destroy \/ PauseStep \/ ResumeRoseProcessing
  \/ Tick

Spec == Init /\ [][Next]_vars

\* Threads that can run do run and time passes.  Nothing is assumed of the
\* peer, nor of the user: a call need not be made, nor a pause, nor a resume.
Fairness ==
  /\ \A c \in Calls : WF_vars(CallStep(c)) /\ WF_vars(FinishStep(c))
  /\ WF_vars(WatchdogStep) /\ WF_vars(PauseStep) /\ WF_vars(Tick)

FairSpec == Spec /\ Fairness

-----------------------------------------------------------------------------
(* Safety *)

PcLabels == {"idle", "add", "mark", "context", "stamp", "arm", "count", "ensure", "notify",
             "notifystop", "send", "sent", "wait", "woke", "timedout", "finish", "telemetry", "remove",
             "finishing", "returned", "threw"}
Outcomes == {"RESULT", "ERR", "REJECT", "UNHANDLED", "DISPATCHED", "EVENT"}
Ticks == Nat \cup {NoDeadline}
Operations == [async : BOOLEAN, ctx : BOOLEAN, stamp : BOOLEAN, deadline : Ticks, result : Codes,
               answer : Answers \cup {NoAnswer}, signaled : BOOLEAN]
Finishes == [pc : {"none", "context", "report", "read", "stop", "callback", "done"},
             by : Calls \cup {"none", "receiver", "watchdog", "pauser"}, res : Codes,
             ctx : BOOLEAN, at : Registering \cup {"none"}]

\* Every variable has the type of the code's field it stands for.
TypeOK ==
  /\ gate \in BOOLEAN /\ dying \in BOOLEAN /\ stopReq \in BOOLEAN /\ running \in BOOLEAN
  /\ ppc \in {"open", "complete", "finish", "closed", "stop", "join", "dead"}
  /\ wdpc \in {"none", "scan", "wait", "process", "finish", "exit"}
  /\ inMap \subseteq Calls /\ plist \subseteq Calls /\ wdList \subseteq Calls
  /\ shut \subseteq Calls
  /\ count \in Nat /\ pauses \in Nat /\ wdNext \in Ticks
  /\ op \in [Calls -> Operations] /\ fin \in [Calls -> Finishes]
  /\ pc \in [Calls -> PcLabels] /\ res \in [Calls -> Codes] /\ until \in [Calls -> Ticks]
  /\ ask \in [Calls -> Requests] /\ wire \in [Calls -> {"none", "sent"} \cup Answers]
  /\ heirs \in [Calls -> SUBSET Calls]
  /\ cbs \in [Calls -> Seq(Codes)] /\ telem \in [Calls -> Seq(Outcomes)]

OutcomeOf(r) ==
  CASE r = "NOERROR" -> "RESULT" [] r = "ERROR_VALUE" -> "ERR" [] r = "REJECT" -> "REJECT"
    [] OTHER -> "UNHANDLED"

\* Whoever gets to an asynchronous call first, the receiver, the watchdog, a
\* pause or the sender after a failed send, it completes once: a call that
\* waits for a result gets its callback, a fire-and-forget call none, and each
\* one telemetry record, which classifies the result the callback gets.  What
\* a pause claims before the sender has stored the context may be told nothing,
\* and before it has stored the start time may go unreported, but even then
\* nothing is told or reported twice (FinishAsyncInvoke, FinalizeTelemetry,
\* SendInvokeAsync).
CompletesOnce ==
  \A c \in Calls : IsAsync(c) =>
    /\ Len(cbs[c]) <= (IF HasCallback(c) THEN 1 ELSE 0) /\ Len(telem[c]) <= 1
    /\ Freed(c) /\ HasCallback(c) /\ fin[c].at # "context" => cbs[c] # <<>>
    /\ Freed(c) /\ fin[c].at \notin {"context", "stamp"} => telem[c] # <<>>
    /\ cbs[c] # <<>> /\ telem[c] # <<>> => telem[c] = <<OutcomeOf(cbs[c][1])>>

\* What a code told to the caller of c must rest on.
Explained(c, r) ==
  CASE r = "NOERROR" -> wire[c] = "result" \/ ask[c].timeout = 0
    [] r = "ERROR_VALUE" -> wire[c] = "error"
    [] r = "REJECT" -> wire[c] = "reject"
    [] r = "DECODE_FAILED" -> wire[c] = "garbled"
    [] r = "TIMEOUT" -> (IF IsAsync(c) THEN op[c].deadline ELSE until[c]) = 0
    [] r = "SHUTDOWN" -> pauses > 0 \/ dying
    [] r = "TRANSPORTFAILED" -> wire[c] = "none"
    [] r = "REMOTENOTCAPABLE" -> ask[c].blocked

\* No caller is told a lie: a result code means the peer sent that answer, a
\* timeout that the whole time passed, a shutdown that the session was paused
\* (SendInvoke's return value, the argument of the asynchronous callback).
ResultExplained ==
  \A c \in Calls :
    /\ IsSync(c) /\ pc[c] = "returned" => Explained(c, res[c])
    /\ \A i \in DOMAIN cbs[c] : Explained(c, cbs[c][i])

\* A synchronous or fire-and-forget call that has returned left nothing in
\* the pending map and was not reported twice, a synchronous one exactly once
\* (SendInvoke, SendInvokeAsync).
ReturnLeavesNothing ==
  \A c \in Calls : pc[c] = "returned" /\ ~IsEvent(c) /\ ~HasCallback(c) =>
    c \notin inMap /\ Len(telem[c]) <= 1 /\ (IsSync(c) => telem[c] # <<>>)

\* Once the destructor is through, no thread is left that uses the object and
\* no asynchronous call waits for a completion (~SnaccROSEBase).
QuietAfterDestroy ==
  ppc = "dead" => /\ wdpc = "none" /\ ~running
                  /\ \A c \in Calls : fin[c].pc \in {"none", "done"}
                  /\ \A c \in inMap : ~op[c].async

-----------------------------------------------------------------------------
(* The promise to the application *)

Begun == {c \in Calls : pc[c] # "idle"}
Due == {c \in Calls : (IF IsAsync(c) THEN op[c].deadline ELSE until[c]) = 0}

\* What each call was told: the argument of its callback, or what SendInvoke returned.
ToldTo ==
  [c \in Calls |-> IF HasCallback(c) THEN cbs[c]
                   ELSE IF IsSync(c) /\ pc[c] = "returned" THEN <<res[c]>> ELSE <<>>]

Contract == INSTANCE OutboundContract
  WITH begun <- Begun, told <- ToldTo, peer <- wire, open <- gate,
       closed <- (pauses > 0 \/ dying), due <- Due

\* However the threads interleave, the calls keep the promise of OutboundContract: a closed
\* session accepts none, a blocked one is not sent, and each is told one code at most, which
\* is justified when it is told and does not change afterwards (SendInvoke, SendInvokeAsync,
\* FinishAsyncInvoke, PauseRoseProcessing).
KeepsCallContract == Contract!Spec

-----------------------------------------------------------------------------
(* Liveness *)

\* Nobody waits in vain: a synchronous call that waits with a deadline
\* returns, whatever the peer and the other threads do (SyncEvent::waitfor),
\* and a pause releases every synchronous call it found in the map, one
\* without a deadline too (CompleteAllPendingOperations).
WaitersReleased ==
  \A c \in Calls :
    IsSync(c) /\ (c \in shut \/ (pc[c] = "wait" /\ ask[c].timeout > 0))
      ~> pc[c] \in {"returned", "threw"}

\* A request to stop the watchdog and a call that is registering cross: the
\* call finds the thread running and the request still to be acted upon, or
\* the request follows although a deadline was counted since the count was read.
StopCrosses ==
  \/ running /\ stopReq /\ \E c \in Calls : pc[c] = "ensure"
  \/ count > 0 /\ \E c \in Calls : pc[c] = "notifystop" \/ fin[c].pc = "stop"

\* Every asynchronous call with a deadline that was accepted is completed
\* through its callback, also when it was made after the watchdog had been
\* asked to stop, unless a pause claimed it before its context was stored.
\* Only where the two cross may the request outlive its reason, and then the
\* thread runs and times nothing out (SendInvokeAsync, EnsureWatchdogRunning,
\* NotifyWatchdog, the watchdog thread).
Accepted(c) == IsAsync(c) /\ pc[c] = "returned" /\ fin[c].at # "context"
DeadlineCallsBack ==
  \/ <>StopCrosses
  \/ \A c \in Calls : Accepted(c) /\ ask[c].timeout > 0 ~> cbs[c] # <<>>

\* The destructor returns, also when it was preceded by pauses and when
\* asynchronous calls are still pending: only a deadline that is counted after
\* its operation was claimed keeps the watchdog, and so the join, waiting
\* (~SnaccROSEBase, StopWatchdogThread, FinishAsyncInvoke, SendInvokeAsync).
DestructorReturns ==
  ppc = "join" /\ (\A c \in Calls : ask[c].timeout > 0 => fin[c].at = "none") ~> ppc = "dead"

-----------------------------------------------------------------------------
(* What the documentation says and the code does not do *)

\* "A late result or error for an invoke that pause already completed is
\* ignored. It must not turn that shutdown into a success".
LateAnswerIgnored ==
  \A c \in shut :
    IsSync(c) /\ pc[c] = "returned" /\ ask[c].timeout # 0 => res[c] \in TransportErrors
=============================================================================
