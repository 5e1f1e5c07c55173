------------------------ MODULE OutboundInvokeProofs ------------------------
(***************************************************************************)
(* What OutboundInvoke keeps for every number of calls, whatever they ask  *)
(* for and however often the session is paused.  The proofs have three     *)
(* layers.  The first follows each operation through the pending map: who  *)
(* owns it, who may still report it, which thread is inside the object.    *)
(* The second, which rests on the first, follows what the caller is told   *)
(* back to what happened.  It assumes that no operation is added where a   *)
(* freed one was read from (Reuse is FALSE), see FinishAfterSend.  The     *)
(* third adds the gate and the clocks.  With all three, every step is one  *)
(* that OutboundContract allows, or one that it does not see.              *)
(***************************************************************************)
EXTENDS OutboundInvoke, TLAPS

-----------------------------------------------------------------------------
(* The first layer: owners and records *)

\* Up to the transport call.
Early == {"idle", "add", "mark", "context", "stamp", "arm", "count", "ensure", "notify",
          "notifystop", "send"}

\* Which function runs through which labels.
Stage(c) ==
  /\ pc[c] \in {"mark", "context", "stamp", "arm", "count", "ensure", "notify", "notifystop",
               "finishing"} => IsAsync(c)
  /\ pc[c] \in {"wait", "woke", "timedout", "finish", "telemetry", "remove"} => IsSync(c)
  /\ pc[c] = "add" => ~IsEvent(c)
  /\ pc[c] \in Early => wire[c] = "none"

\* FinishAsyncInvoke is between its claim and its return.
Finishing == {"context", "report", "read", "stop", "callback"}

\* The operation of c in the map: there from AddPendingOperation until exactly one thread
\* claims it, and then with FinishAsyncInvoke's own state.
Owned(c) ==
  /\ IsEvent(c) \/ pc[c] \in {"idle", "add"} => c \notin inMap
  /\ pc[c] \in {"mark", "context", "stamp", "arm"} => c \in inMap \/ fin[c].pc # "none"
  /\ c \in inMap => fin[c].pc = "none"
  /\ fin[c].pc = "none" => fin[c].by = "none"
  /\ fin[c].pc # "none" => op[c].async
  /\ op[c].async => IsAsync(c) /\ pc[c] \notin {"idle", "add", "mark"}
  /\ IsAsync(c) /\ pc[c] \notin {"idle", "add", "mark"} /\ c \in inMap => op[c].async
  /\ heirs[c] # {} => Freed(c)

\* What SendInvokeAsync has written into the operation of c.  It can be missing for good only
\* when the operation was claimed before it was written.
Written(c) ==
  /\ op[c].ctx => op[c].async /\ pc[c] # "context"
  /\ op[c].stamp => op[c].ctx /\ pc[c] # "stamp"
  /\ IsAsync(c) /\ (c \in inMap \/ fin[c].pc \in Finishing) =>
       /\ pc[c] \notin {"idle", "add", "mark", "context"} => op[c].ctx
       /\ pc[c] \notin {"idle", "add", "mark", "context", "stamp"} => op[c].stamp
  /\ fin[c].pc # "none" /\ fin[c].at # "context" => op[c].ctx
  /\ fin[c].pc # "none" /\ fin[c].at \notin {"context", "stamp"} => op[c].stamp
  /\ fin[c].pc \notin {"none", "context"} /\ fin[c].at # "context" => fin[c].ctx

\* The call left the map before it returned.
Left(c) ==
  /\ IsSync(c) /\ pc[c] = "returned" => c \notin inMap
  /\ IsAsync(c) /\ ask[c].timeout = 0 /\ pc[c] \in {"finishing", "returned"} => c \notin inMap

\* What was reported of c so far.
Reported(c) ==
  /\ pc[c] \in {"idle", "add"} => cbs[c] = <<>> /\ telem[c] = <<>>
  /\ ~IsAsync(c) => cbs[c] = <<>>
  /\ IsAsync(c) /\ c \in inMap => cbs[c] = <<>> /\ telem[c] = <<>>
  /\ fin[c].pc \in Finishing => cbs[c] = <<>>
  /\ fin[c].pc \in {"context", "report"} => telem[c] = <<>>
  /\ fin[c].pc \notin {"none", "context", "report"} /\ fin[c].at \notin {"context", "stamp"} =>
       telem[c] # <<>>
  /\ Freed(c) /\ HasCallback(c) /\ fin[c].ctx => cbs[c] # <<>>
  /\ Len(cbs[c]) <= IF HasCallback(c) THEN 1 ELSE 0
  /\ IsAsync(c) => Len(telem[c]) <= 1
  /\ IsSync(c) => Len(telem[c]) = IF pc[c] \in {"remove", "returned"} THEN 1 ELSE 0

PerCall == \A c \in Calls : Stage(c) /\ Owned(c) /\ Written(c) /\ Left(c) /\ Reported(c)

\* A FinishAsyncInvoke that has not returned has its thread where it was called.
Inside(c) ==
  fin[c].pc \in Finishing =>
    \/ fin[c].by = "receiver" /\ ~dying
    \/ fin[c].by = "watchdog" /\ wdpc = "finish"
    \/ fin[c].by = "pauser" /\ ppc = "finish"
    \/ fin[c].by \in Calls /\ pc[fin[c].by] = "finishing"

\* The destructor: nobody is inside, the asynchronous operations are taken one by one, then
\* the watchdog ends.
Dying ==
  /\ dying => \A c \in Calls : pc[c] \in {"idle", "returned", "threw"}
  /\ dying => ppc \in {"complete", "finish", "stop", "join", "dead"}
  /\ ppc \in {"stop", "join", "dead"} => dying /\ \A c \in inMap : ~op[c].async
  /\ dying /\ ppc = "finish" => \A c \in inMap : op[c].async => c \in plist
  /\ ppc = "dead" => wdpc = "none"

Threads ==
  /\ running <=> wdpc # "none"
  /\ \A c \in Calls : Inside(c)
  /\ Dying

OInv == TypeOK /\ PerCall /\ Threads

-----------------------------------------------------------------------------
(* The second layer: reasons *)

Paused == pauses > 0 \/ dying

\* The callback of c was, or will be, told r.
Told(c, r) ==
  /\ Explained(c, r)
  /\ r = "TRANSPORTFAILED" => pc[c] \in {"finishing", "returned"}
  /\ r = "TIMEOUT" => c \notin inMap

\* What FinishAsyncInvoke makes of the result and the answer it was claimed with.
Final(c) == IF op[c].answer = NoAnswer THEN op[c].result
            ELSE HandleInvokeResult(op[c].result, op[c].answer)

\* The operation was claimed with an answer, or with an error of the transport.
Settled(c) ==
  /\ op[c].answer # NoAnswer => op[c].ctx /\ op[c].result = RoseResult[op[c].answer]
  /\ op[c].answer = NoAnswer => op[c].result \in TransportErrors

\* What FinishAsyncInvoke will hand to the callback of the operation it claimed.
Promised(c) ==
  /\ Settled(c)
  /\ Told(c, Final(c))
  /\ fin[c].res = IF fin[c].pc = "context" THEN op[c].result ELSE Final(c)
  /\ fin[c].pc \notin {"context", "report"} /\ telem[c] # <<>> => telem[c] = <<OutcomeOf(Final(c))>>

\* The asynchronous operation of c.
AsyncReason(c) ==
  /\ pc[c] \in {"idle", "add", "mark", "context", "stamp", "arm"} => op[c].deadline = NoDeadline
  /\ c \in wdList => op[c].async /\ op[c].deadline = 0
  /\ HasCallback(c) /\ fin[c].pc # "none" => Promised(c)
  /\ cbs[c] # <<>> => /\ Told(c, cbs[c][1]) /\ pc[c] # "idle"
                      /\ telem[c] # <<>> => telem[c] = <<OutcomeOf(cbs[c][1])>>

\* The synchronous call c.
SyncReason(c) ==
  /\ op[c].answer # NoAnswer => wire[c] = op[c].answer
  /\ op[c].result = "SHUTDOWN" => Paused
  /\ pc[c] = "sent" => res[c] \in {"NOERROR", "TRANSPORTFAILED"}
  /\ pc[c] = "sent" /\ res[c] = "TRANSPORTFAILED" => wire[c] = "none"
  /\ IsSync(c) /\ (pc[c] = "woke" \/ (pc[c] \in {"send", "sent", "wait"} /\ op[c].signaled)) =>
       op[c].answer # NoAnswer \/ op[c].result = "SHUTDOWN"
  /\ pc[c] = "timedout" => until[c] = 0
  /\ pc[c] = "finish" =>
       \/ res[c] \in TransportErrors /\ Explained(c, res[c])
       \/ res[c] = "NOERROR" /\ (op[c].answer # NoAnswer \/ ask[c].timeout = 0)
  /\ IsSync(c) /\ pc[c] \in {"telemetry", "remove", "returned"} => Explained(c, res[c])

Reasons ==
  /\ ~gate \/ ppc \in {"complete", "finish"} => Paused
  /\ \A c \in Calls : heirs[c] = {} /\ AsyncReason(c) /\ SyncReason(c)

-----------------------------------------------------------------------------
(* The first layer is inductive *)

\* FinalizeTelemetry reports one of the outcomes.
LEMMA FinalizeTelemetryType ==
  ASSUME NEW f, NEW r, NEW k
  PROVE  FinalizeTelemetry(f, r, k) \in Outcomes
  BY DEF FinalizeTelemetry, Outcomes

\* What an answer is turned into is a result code.
LEMMA HandleInvokeResultType ==
  ASSUME NEW r \in Codes, NEW k \in Answers
  PROVE  HandleInvokeResult(r, k) \in Codes
  BY CallsAssumption DEF HandleInvokeResult, RoseResult, Codes

\* A call is refused.
LEMMA RefuseStep ==
  ASSUME NEW c \in Calls, NEW r \in {"SHUTDOWN", "REMOTENOTCAPABLE"}, OInv, Refuse(c, r)
  PROVE  OInv'
<1>1. TypeOK'
  <2>1. telem' \in [Calls -> Seq(Outcomes)]
    BY DEF OInv, TypeOK, Refuse, Report, Outcomes
  <2>2. r \in Codes
    BY DEF Codes
  <2>3. cbs' \in [Calls -> Seq(Codes)]
    BY <2>2 DEF OInv, TypeOK, Refuse
  <2>4. res' \in [Calls -> Codes]
    BY <2>2 DEF OInv, TypeOK, Refuse
  <2> QED
    BY <2>1, <2>2, <2>3, <2>4 DEF OInv, Refuse, Goto, TypeOK, PcLabels, callVars, wdVars, mapVars,
       pauseVars
<1>2. PerCall'
  <2> SUFFICES ASSUME NEW d \in Calls
               PROVE  (Stage(d) /\ Owned(d) /\ Written(d) /\ Left(d) /\ Reported(d))'
    BY DEF PerCall
  <2>1. Stage(d) /\ Owned(d) /\ Written(d) /\ Left(d) /\ Reported(d) /\ TypeOK
    BY DEF OInv, PerCall
  <2>2. CASE d # c
    BY <2>1, <2>2 DEF Refuse, Goto, Report, TypeOK, Stage, Finishing, Owned, Written, Left,
       Reported, Early, IsSync, IsAsync, IsEvent, HasCallback, Freed, callVars, wdVars, mapVars,
       pauseVars
  <2>3. CASE d = c
    <3>1. telem'[c] = <<"UNHANDLED">> /\ cbs'[c] = IF HasCallback(c) THEN <<r>> ELSE <<>>
      BY <2>1, <2>3 DEF Refuse, Goto, Report, TypeOK, Stage, Finishing, Owned, Written, Left,
         Reported, Early, IsSync, IsAsync, IsEvent, HasCallback, Freed, Requests
    <3> QED
      BY <2>1, <2>3, <3>1 DEF Refuse, Goto, Report, TypeOK, Stage, Finishing, Owned, Written, Left,
         Reported, Early, IsSync, IsAsync, IsEvent, HasCallback, Freed, callVars, wdVars, mapVars,
         pauseVars
  <2> QED
    BY <2>2, <2>3
<1>3. Threads'
  BY DEF OInv, PerCall, Refuse, Goto, Report, TypeOK, Threads, Inside, Finishing, Dying, callVars,
     wdVars, mapVars, pauseVars
<1> QED
  BY <1>1, <1>2, <1>3 DEF OInv

\* A call passes the gate.
LEMMA PassGateStep ==
  ASSUME NEW c \in Calls, OInv, PassGate(c)
  PROVE  OInv'
<1>1. TypeOK'
  BY DEF OInv, PassGate, Goto, TypeOK, PcLabels, Codes, Ticks, Operations, Finishes, Outcomes,
     NoDeadline, callVars, wdVars, mapVars, pauseVars
<1>2. PerCall'
  <2> SUFFICES ASSUME NEW d \in Calls
               PROVE  (Stage(d) /\ Owned(d) /\ Written(d) /\ Left(d) /\ Reported(d))'
    BY DEF PerCall
  <2>1. Stage(d) /\ Owned(d) /\ Written(d) /\ Left(d) /\ Reported(d) /\ TypeOK
    BY DEF OInv, PerCall
  <2> QED
    BY <2>1 DEF PassGate, Goto, TypeOK, Operations, Finishes, Requests, Stage, Finishing, Owned,
       Written, Left, Reported, Early, IsSync, IsAsync, IsEvent, HasCallback, Freed, callVars,
       wdVars, mapVars, pauseVars
<1>3. Threads'
  BY DEF OInv, PerCall, PassGate, Goto, TypeOK, Threads, Inside, Finishing, Dying, callVars,
     wdVars, mapVars, pauseVars
<1> QED
  BY <1>1, <1>2, <1>3 DEF OInv

\* The operation enters the map.
LEMMA AddPendingOperationStep ==
  ASSUME NEW c \in Calls, OInv, AddPendingOperation(c)
  PROVE  OInv'
<1>1. TypeOK'
  BY DEF OInv, AddPendingOperation, Goto, NewOp, Freed, TypeOK, PcLabels, Codes, Ticks,
     Operations, Finishes, Outcomes, NoDeadline, callVars, wdVars, mapVars, pauseVars
<1>2. PerCall'
  <2> SUFFICES ASSUME NEW d \in Calls
               PROVE  (Stage(d) /\ Owned(d) /\ Written(d) /\ Left(d) /\ Reported(d))'
    BY DEF PerCall
  <2>1. Stage(d) /\ Owned(d) /\ Written(d) /\ Left(d) /\ Reported(d) /\ TypeOK
    BY DEF OInv, PerCall
  <2> QED
    BY SMTT(60), <2>1 DEF AddPendingOperation, Goto, NewOp, Freed, TypeOK, Operations, Finishes,
       Requests, Stage, Finishing, Owned, Written, Left, Reported, Early, IsSync, IsAsync, IsEvent,
       HasCallback, Freed, callVars, wdVars, mapVars, pauseVars
<1>3. Threads'
  BY DEF OInv, PerCall, AddPendingOperation, Goto, NewOp, Freed, TypeOK, Threads, Inside,
     Finishing, Dying, callVars, wdVars, mapVars, pauseVars
<1> QED
  BY <1>1, <1>2, <1>3 DEF OInv

\* The transport call.
LEMMA SendStep ==
  ASSUME NEW c \in Calls, NEW o \in SendOutcomes, OInv, Send(c, o)
  PROVE  OInv'
<1>1. TypeOK'
  BY DEF OInv, Send, Goto, TypeOK, PcLabels, Codes, Ticks, Operations, Finishes, Outcomes,
     NoDeadline, callVars, wdVars, mapVars, pauseVars
<1>2. PerCall'
  <2> SUFFICES ASSUME NEW d \in Calls
               PROVE  (Stage(d) /\ Owned(d) /\ Written(d) /\ Left(d) /\ Reported(d))'
    BY DEF PerCall
  <2>1. Stage(d) /\ Owned(d) /\ Written(d) /\ Left(d) /\ Reported(d) /\ TypeOK
    BY DEF OInv, PerCall
  <2> QED
    BY <2>1 DEF Send, Goto, TypeOK, Operations, Finishes, Requests, Stage, Finishing, Owned,
       Written, Left, Reported, Early, IsSync, IsAsync, IsEvent, HasCallback, Freed, callVars,
       wdVars, mapVars, pauseVars
<1>3. Threads'
  BY DEF OInv, PerCall, Send, Goto, TypeOK, Threads, Inside, Finishing, Dying, callVars, wdVars,
     mapVars, pauseVars
<1> QED
  BY <1>1, <1>2, <1>3 DEF OInv

\* An event is sent.
LEMMA EventSentStep ==
  ASSUME NEW c \in Calls, OInv, EventSent(c)
  PROVE  OInv'
<1>1. TypeOK'
  BY DEF OInv, EventSent, Goto, Report, TypeOK, PcLabels, Codes, Ticks, Operations, Finishes,
     Outcomes, NoDeadline, callVars, wdVars, mapVars, pauseVars
<1>2. PerCall'
  <2> SUFFICES ASSUME NEW d \in Calls
               PROVE  (Stage(d) /\ Owned(d) /\ Written(d) /\ Left(d) /\ Reported(d))'
    BY DEF PerCall
  <2>1. Stage(d) /\ Owned(d) /\ Written(d) /\ Left(d) /\ Reported(d) /\ TypeOK
    BY DEF OInv, PerCall
  <2>2. /\ pc[c] = "sent" /\ IsEvent(c) /\ pc' = [pc EXCEPT ![c] = "returned"]
        /\ UNCHANGED <<ask, wire, inMap, op, fin, cbs, heirs>>
        /\ d # c => telem'[d] = telem[d]
    BY <2>1 DEF EventSent, Goto, Report, TypeOK, mapVars
  <2>3. pc'[d] = IF d = c THEN "returned" ELSE pc[d]
    BY <2>1, <2>2 DEF TypeOK
  <2>4. ~IsEvent(d) => d # c
    BY <2>2
  <2> QED
    BY <2>1, <2>2, <2>3, <2>4 DEF Stage, Finishing, Owned, Written, Left, Reported, Early, IsSync,
       IsAsync, IsEvent, HasCallback, Freed
<1>3. Threads'
  BY DEF OInv, PerCall, EventSent, Goto, Report, TypeOK, Threads, Inside, Finishing, Dying,
     callVars, wdVars, mapVars, pauseVars
<1> QED
  BY <1>1, <1>2, <1>3 DEF OInv

\* SendInvoke does not wait.
LEMMA SkipWaitStep ==
  ASSUME NEW c \in Calls, OInv, SkipWait(c)
  PROVE  OInv'
<1>1. TypeOK'
  <2>1. op[c] \in Operations /\ c \in DOMAIN op
    BY DEF OInv, TypeOK
  <2>2. op' \in [Calls -> Operations]
    BY <2>1 DEF OInv, TypeOK, SkipWait, Goto, SetResult, Codes, Operations
  <2> QED
    BY <2>1, <2>2 DEF OInv, SkipWait, Goto, SetResult, Codes, TypeOK, PcLabels, callVars, wdVars,
       mapVars, pauseVars
<1>2. PerCall'
  <2> SUFFICES ASSUME NEW d \in Calls
               PROVE  (Stage(d) /\ Owned(d) /\ Written(d) /\ Left(d) /\ Reported(d))'
    BY DEF PerCall
  <2>1. Stage(d) /\ Owned(d) /\ Written(d) /\ Left(d) /\ Reported(d) /\ TypeOK
    BY DEF OInv, PerCall
  <2> QED
    BY <2>1 DEF SkipWait, Goto, SetResult, TypeOK, Operations, Finishes, Requests, Stage,
       Finishing, Owned, Written, Left, Reported, Early, IsSync, IsAsync, IsEvent, HasCallback,
       Freed, callVars, wdVars, mapVars, pauseVars
<1>3. Threads'
  BY DEF OInv, PerCall, SkipWait, Goto, SetResult, TypeOK, Threads, Inside, Finishing, Dying,
     callVars, wdVars, mapVars, pauseVars
<1> QED
  BY <1>1, <1>2, <1>3 DEF OInv

\* SendInvoke waits.
LEMMA StartWaitStep ==
  ASSUME NEW c \in Calls, OInv, StartWait(c)
  PROVE  OInv'
<1>1. TypeOK'
  BY DEF OInv, StartWait, Goto, Requests, TypeOK, PcLabels, Codes, Ticks, Operations, Finishes,
     Outcomes, NoDeadline, callVars, wdVars, mapVars, pauseVars
<1>2. PerCall'
  <2> SUFFICES ASSUME NEW d \in Calls
               PROVE  (Stage(d) /\ Owned(d) /\ Written(d) /\ Left(d) /\ Reported(d))'
    BY DEF PerCall
  <2>1. Stage(d) /\ Owned(d) /\ Written(d) /\ Left(d) /\ Reported(d) /\ TypeOK
    BY DEF OInv, PerCall
  <2> QED
    BY <2>1 DEF StartWait, Goto, Requests, TypeOK, Operations, Finishes, Requests, Stage,
       Finishing, Owned, Written, Left, Reported, Early, IsSync, IsAsync, IsEvent, HasCallback,
       Freed, callVars, wdVars, mapVars, pauseVars
<1>3. Threads'
  BY DEF OInv, PerCall, StartWait, Goto, Requests, TypeOK, Threads, Inside, Finishing, Dying,
     callVars, wdVars, mapVars, pauseVars
<1> QED
  BY <1>1, <1>2, <1>3 DEF OInv

\* The wait ends with the event.
LEMMA WaitCompletedStep ==
  ASSUME NEW c \in Calls, OInv, WaitCompleted(c)
  PROVE  OInv'
<1>1. TypeOK'
  <2>1. op[c] \in Operations /\ c \in DOMAIN op
    BY DEF OInv, TypeOK
  <2>2. op' \in [Calls -> Operations]
    BY <2>1 DEF OInv, TypeOK, WaitCompleted, Goto, Operations
  <2> QED
    BY <2>1, <2>2 DEF OInv, WaitCompleted, Goto, TypeOK, PcLabels, callVars, wdVars, mapVars,
       pauseVars
<1>2. PerCall'
  <2> SUFFICES ASSUME NEW d \in Calls
               PROVE  (Stage(d) /\ Owned(d) /\ Written(d) /\ Left(d) /\ Reported(d))'
    BY DEF PerCall
  <2>1. Stage(d) /\ Owned(d) /\ Written(d) /\ Left(d) /\ Reported(d) /\ TypeOK
    BY DEF OInv, PerCall
  <2> QED
    BY <2>1 DEF WaitCompleted, Goto, TypeOK, Operations, Finishes, Requests, Stage, Finishing,
       Owned, Written, Left, Reported, Early, IsSync, IsAsync, IsEvent, HasCallback, Freed,
       callVars, wdVars, mapVars, pauseVars
<1>3. Threads'
  BY DEF OInv, PerCall, WaitCompleted, Goto, TypeOK, Threads, Inside, Finishing, Dying, callVars,
     wdVars, mapVars, pauseVars
<1> QED
  BY <1>1, <1>2, <1>3 DEF OInv

\* The wait ends without it.
LEMMA WaitTimedOutStep ==
  ASSUME NEW c \in Calls, OInv, WaitTimedOut(c)
  PROVE  OInv'
<1>1. TypeOK'
  BY DEF OInv, WaitTimedOut, Goto, TypeOK, PcLabels, Codes, Ticks, Operations, Finishes, Outcomes,
     NoDeadline, callVars, wdVars, mapVars, pauseVars
<1>2. PerCall'
  <2> SUFFICES ASSUME NEW d \in Calls
               PROVE  (Stage(d) /\ Owned(d) /\ Written(d) /\ Left(d) /\ Reported(d))'
    BY DEF PerCall
  <2>1. Stage(d) /\ Owned(d) /\ Written(d) /\ Left(d) /\ Reported(d) /\ TypeOK
    BY DEF OInv, PerCall
  <2> QED
    BY <2>1 DEF WaitTimedOut, Goto, TypeOK, Operations, Finishes, Requests, Stage, Finishing,
       Owned, Written, Left, Reported, Early, IsSync, IsAsync, IsEvent, HasCallback, Freed,
       callVars, wdVars, mapVars, pauseVars
<1>3. Threads'
  BY DEF OInv, PerCall, WaitTimedOut, Goto, TypeOK, Threads, Inside, Finishing, Dying, callVars,
     wdVars, mapVars, pauseVars
<1> QED
  BY <1>1, <1>2, <1>3 DEF OInv

\* SendInvoke reads the completion.
LEMMA ReadCompletionStep ==
  ASSUME NEW c \in Calls, OInv, ReadCompletion(c)
  PROVE  OInv'
<1>1. TypeOK'
  BY DEF OInv, ReadCompletion, Goto, TypeOK, PcLabels, Codes, Ticks, Operations, Finishes,
     Outcomes, NoDeadline, callVars, wdVars, mapVars, pauseVars
<1>2. PerCall'
  <2> SUFFICES ASSUME NEW d \in Calls
               PROVE  (Stage(d) /\ Owned(d) /\ Written(d) /\ Left(d) /\ Reported(d))'
    BY DEF PerCall
  <2>1. Stage(d) /\ Owned(d) /\ Written(d) /\ Left(d) /\ Reported(d) /\ TypeOK
    BY DEF OInv, PerCall
  <2> QED
    BY <2>1 DEF ReadCompletion, Goto, TypeOK, Operations, Finishes, Requests, Stage, Finishing,
       Owned, Written, Left, Reported, Early, IsSync, IsAsync, IsEvent, HasCallback, Freed,
       callVars, wdVars, mapVars, pauseVars
<1>3. Threads'
  BY DEF OInv, PerCall, ReadCompletion, Goto, TypeOK, Threads, Inside, Finishing, Dying, callVars,
     wdVars, mapVars, pauseVars
<1> QED
  BY <1>1, <1>2, <1>3 DEF OInv

\* SendInvoke records the timeout.
LEMMA RecordTimeoutStep ==
  ASSUME NEW c \in Calls, OInv, RecordTimeout(c)
  PROVE  OInv'
<1>1. TypeOK'
  <2>1. op[c] \in Operations /\ c \in DOMAIN op
    BY DEF OInv, TypeOK
  <2>2. op' \in [Calls -> Operations]
    BY <2>1 DEF OInv, TypeOK, RecordTimeout, Goto, SetResult, Codes, Operations
  <2> QED
    BY <2>1, <2>2 DEF OInv, RecordTimeout, Goto, SetResult, Codes, TypeOK, PcLabels, callVars,
       wdVars, mapVars, pauseVars
<1>2. PerCall'
  <2> SUFFICES ASSUME NEW d \in Calls
               PROVE  (Stage(d) /\ Owned(d) /\ Written(d) /\ Left(d) /\ Reported(d))'
    BY DEF PerCall
  <2>1. Stage(d) /\ Owned(d) /\ Written(d) /\ Left(d) /\ Reported(d) /\ TypeOK
    BY DEF OInv, PerCall
  <2> QED
    BY <2>1 DEF RecordTimeout, Goto, SetResult, TypeOK, Operations, Finishes, Requests, Stage,
       Finishing, Owned, Written, Left, Reported, Early, IsSync, IsAsync, IsEvent, HasCallback,
       Freed, callVars, wdVars, mapVars, pauseVars
<1>3. Threads'
  BY DEF OInv, PerCall, RecordTimeout, Goto, SetResult, TypeOK, Threads, Inside, Finishing, Dying,
     callVars, wdVars, mapVars, pauseVars
<1> QED
  BY <1>1, <1>2, <1>3 DEF OInv

\* SendInvoke looks at the answer.
LEMMA HandleAnswerStep ==
  ASSUME NEW c \in Calls, OInv, HandleAnswer(c)
  PROVE  OInv'
<1>1. TypeOK'
  BY CallsAssumption DEF OInv, HandleAnswer, Goto, HandleInvokeResult, RoseResult,
     TransportErrors, TypeOK, PcLabels, Codes, Ticks, Operations, Finishes, Outcomes, NoDeadline,
     callVars, wdVars, mapVars, pauseVars
<1>2. PerCall'
  <2> SUFFICES ASSUME NEW d \in Calls
               PROVE  (Stage(d) /\ Owned(d) /\ Written(d) /\ Left(d) /\ Reported(d))'
    BY DEF PerCall
  <2>1. Stage(d) /\ Owned(d) /\ Written(d) /\ Left(d) /\ Reported(d) /\ TypeOK
    BY DEF OInv, PerCall
  <2> QED
    BY <2>1 DEF HandleAnswer, Goto, HandleInvokeResult, RoseResult, TransportErrors, TypeOK,
       Operations, Finishes, Requests, Stage, Finishing, Owned, Written, Left, Reported, Early,
       IsSync, IsAsync, IsEvent, HasCallback, Freed, callVars, wdVars, mapVars, pauseVars
<1>3. Threads'
  BY DEF OInv, PerCall, HandleAnswer, Goto, HandleInvokeResult, RoseResult, TransportErrors,
     TypeOK, Threads, Inside, Finishing, Dying, callVars, wdVars, mapVars, pauseVars
<1> QED
  BY <1>1, <1>2, <1>3 DEF OInv

\* SendInvoke reports.
LEMMA ReportCallStep ==
  ASSUME NEW c \in Calls, OInv, ReportCall(c)
  PROVE  OInv'
<1>1. TypeOK'
  BY FinalizeTelemetryType DEF OInv, ReportCall, Goto, Report, TypeOK, PcLabels, Codes, Ticks,
     Operations, Finishes, Outcomes, NoDeadline, callVars, wdVars, mapVars, pauseVars
<1>2. PerCall'
  <2> SUFFICES ASSUME NEW d \in Calls
               PROVE  (Stage(d) /\ Owned(d) /\ Written(d) /\ Left(d) /\ Reported(d))'
    BY DEF PerCall
  <2>1. Stage(d) /\ Owned(d) /\ Written(d) /\ Left(d) /\ Reported(d) /\ TypeOK
    BY DEF OInv, PerCall
  <2>2. CASE d # c
    BY <2>1, <2>2 DEF ReportCall, Report, Goto, TypeOK, Stage, Finishing, Owned, Written, Left,
       Reported, Early, IsSync, IsAsync, IsEvent, HasCallback, Freed, callVars, wdVars, mapVars,
       pauseVars
  <2>3. CASE d = c
    <3>1. IsSync(c) /\ Len(telem'[c]) = 1 /\ cbs[c] = <<>> /\ ~op[c].async
      BY <2>1, <2>3 DEF ReportCall, Report, TypeOK, Stage, Finishing, Owned, Written, Left,
         Reported, Early, IsSync, IsAsync, IsEvent, HasCallback, Freed, Requests
    <3> QED
      BY <2>1, <2>3, <3>1 DEF ReportCall, Goto, TypeOK, Stage, Finishing, Owned, Written, Left,
         Reported, Early, IsSync, IsAsync, IsEvent, HasCallback, Freed, callVars, wdVars, mapVars,
         pauseVars
  <2> QED
    BY <2>2, <2>3
<1>3. Threads'
  BY DEF OInv, PerCall, ReportCall, Goto, Report, TypeOK, Threads, Inside, Finishing, Dying,
     callVars, wdVars, mapVars, pauseVars
<1> QED
  BY <1>1, <1>2, <1>3 DEF OInv

\* SendInvoke takes the operation out of the map.
LEMMA RemovePendingOperationStep ==
  ASSUME NEW c \in Calls, OInv, RemovePendingOperation(c)
  PROVE  OInv'
<1>1. TypeOK'
  BY DEF OInv, RemovePendingOperation, Goto, TypeOK, PcLabels, Codes, Ticks, Operations, Finishes,
     Outcomes, NoDeadline, callVars, wdVars, mapVars, pauseVars
<1>2. PerCall'
  <2> SUFFICES ASSUME NEW d \in Calls
               PROVE  (Stage(d) /\ Owned(d) /\ Written(d) /\ Left(d) /\ Reported(d))'
    BY DEF PerCall
  <2>1. Stage(d) /\ Owned(d) /\ Written(d) /\ Left(d) /\ Reported(d) /\ TypeOK
    BY DEF OInv, PerCall
  <2> QED
    BY <2>1 DEF RemovePendingOperation, Goto, TypeOK, Operations, Finishes, Requests, Stage,
       Finishing, Owned, Written, Left, Reported, Early, IsSync, IsAsync, IsEvent, HasCallback,
       Freed, callVars, wdVars, mapVars, pauseVars
<1>3. Threads'
  BY DEF OInv, PerCall, RemovePendingOperation, Goto, TypeOK, Threads, Inside, Finishing, Dying,
     callVars, wdVars, mapVars, pauseVars
<1> QED
  BY <1>1, <1>2, <1>3 DEF OInv

\* SendInvokeAsync marks the operation.
LEMMA MarkAsyncStep ==
  ASSUME NEW c \in Calls, OInv, MarkAsync(c)
  PROVE  OInv'
<1>1. TypeOK'
  <2>1. op[c] \in Operations /\ c \in DOMAIN op
    BY DEF OInv, TypeOK
  <2>2. op' \in [Calls -> Operations]
    BY <2>1 DEF OInv, TypeOK, MarkAsync, Goto, Operations
  <2> QED
    BY <2>1, <2>2 DEF OInv, MarkAsync, Goto, TypeOK, PcLabels, callVars, wdVars, mapVars,
       pauseVars
<1>2. PerCall'
  <2> SUFFICES ASSUME NEW d \in Calls
               PROVE  (Stage(d) /\ Owned(d) /\ Written(d) /\ Left(d) /\ Reported(d))'
    BY DEF PerCall
  <2>1. Stage(d) /\ Owned(d) /\ Written(d) /\ Left(d) /\ Reported(d) /\ TypeOK
    BY DEF OInv, PerCall
  <2> QED
    BY <2>1 DEF MarkAsync, Goto, TypeOK, Operations, Finishes, Requests, Stage, Finishing, Owned,
       Written, Left, Reported, Early, IsSync, IsAsync, IsEvent, HasCallback, Freed, callVars,
       wdVars, mapVars, pauseVars
<1>3. Threads'
  BY DEF OInv, PerCall, MarkAsync, Goto, TypeOK, Threads, Inside, Finishing, Dying, callVars,
     wdVars, mapVars, pauseVars
<1> QED
  BY <1>1, <1>2, <1>3 DEF OInv

\* SendInvokeAsync stores the context, when the operation is still there.
LEMMA StoreContextStep ==
  ASSUME NEW c \in Calls, OInv, StoreContext(c)
  PROVE  OInv'
<1>1. TypeOK'
  <2>1. op[c] \in Operations /\ c \in DOMAIN op
    BY DEF OInv, TypeOK
  <2>2. op' \in [Calls -> Operations]
    BY <2>1 DEF OInv, TypeOK, StoreContext, Goto, Operations
  <2> QED
    BY <2>1, <2>2 DEF OInv, StoreContext, Goto, TypeOK, PcLabels, callVars, wdVars, mapVars,
       pauseVars
<1>2. PerCall'
  <2> SUFFICES ASSUME NEW d \in Calls
               PROVE  (Stage(d) /\ Owned(d) /\ Written(d) /\ Left(d) /\ Reported(d))'
    BY DEF PerCall
  <2>1. Stage(d) /\ Owned(d) /\ Written(d) /\ Left(d) /\ Reported(d) /\ TypeOK
    BY DEF OInv, PerCall
  <2> QED
    BY <2>1 DEF StoreContext, Goto, TypeOK, Operations, Finishes, Requests, Stage, Finishing, Owned,
       Written, Left, Reported, Early, IsSync, IsAsync, IsEvent, HasCallback, Freed, callVars,
       wdVars, mapVars, pauseVars
<1>3. Threads'
  BY DEF OInv, PerCall, StoreContext, Goto, TypeOK, Threads, Inside, Finishing, Dying, callVars,
     wdVars, mapVars, pauseVars
<1> QED
  BY <1>1, <1>2, <1>3 DEF OInv

\* SendInvokeAsync stores the start time, when the operation is still there.
LEMMA StampTelemetryStep ==
  ASSUME NEW c \in Calls, OInv, StampTelemetry(c)
  PROVE  OInv'
<1>1. TypeOK'
  <2>1. op[c] \in Operations /\ c \in DOMAIN op
    BY DEF OInv, TypeOK
  <2>2. op' \in [Calls -> Operations]
    BY <2>1 DEF OInv, TypeOK, StampTelemetry, Goto, Operations
  <2> QED
    BY <2>1, <2>2 DEF OInv, StampTelemetry, Goto, TypeOK, PcLabels, callVars, wdVars, mapVars,
       pauseVars
<1>2. PerCall'
  <2> SUFFICES ASSUME NEW d \in Calls
               PROVE  (Stage(d) /\ Owned(d) /\ Written(d) /\ Left(d) /\ Reported(d))'
    BY DEF PerCall
  <2>1. Stage(d) /\ Owned(d) /\ Written(d) /\ Left(d) /\ Reported(d) /\ TypeOK
    BY DEF OInv, PerCall
  <2> QED
    BY <2>1 DEF StampTelemetry, Goto, TypeOK, Operations, Finishes, Requests, Stage, Finishing,
       Owned, Written, Left, Reported, Early, IsSync, IsAsync, IsEvent, HasCallback, Freed,
       callVars, wdVars, mapVars, pauseVars
<1>3. Threads'
  BY DEF OInv, PerCall, StampTelemetry, Goto, TypeOK, Threads, Inside, Finishing, Dying, callVars,
     wdVars, mapVars, pauseVars
<1> QED
  BY <1>1, <1>2, <1>3 DEF OInv

\* SendInvokeAsync stores the deadline, when the operation is still there.
LEMMA ArmDeadlineStep ==
  ASSUME NEW c \in Calls, OInv, ArmDeadline(c)
  PROVE  OInv'
<1>1. TypeOK'
  <2>1. op[c] \in Operations /\ c \in DOMAIN op
    BY DEF OInv, TypeOK
  <2>2. op' \in [Calls -> Operations]
    BY <2>1 DEF OInv, TypeOK, ArmDeadline, Goto, Operations, Requests, Ticks, NoDeadline
  <2> QED
    BY <2>1, <2>2 DEF OInv, ArmDeadline, Goto, TypeOK, PcLabels, callVars, wdVars, mapVars,
       pauseVars
<1>2. PerCall'
  <2> SUFFICES ASSUME NEW d \in Calls
               PROVE  (Stage(d) /\ Owned(d) /\ Written(d) /\ Left(d) /\ Reported(d))'
    BY DEF PerCall
  <2>1. Stage(d) /\ Owned(d) /\ Written(d) /\ Left(d) /\ Reported(d) /\ TypeOK
    BY DEF OInv, PerCall
  <2> QED
    BY <2>1 DEF ArmDeadline, Goto, TypeOK, Operations, Finishes, Requests, Stage, Finishing, Owned,
       Written, Left, Reported, Early, IsSync, IsAsync, IsEvent, HasCallback, Freed, callVars,
       wdVars, mapVars, pauseVars
<1>3. Threads'
  BY DEF OInv, PerCall, ArmDeadline, Goto, TypeOK, Threads, Inside, Finishing, Dying, callVars,
     wdVars, mapVars, pauseVars
<1> QED
  BY <1>1, <1>2, <1>3 DEF OInv

\* The deadline is counted.
LEMMA CountDeadlineStep ==
  ASSUME NEW c \in Calls, OInv, CountDeadline(c)
  PROVE  OInv'
<1>1. TypeOK'
  BY DEF OInv, CountDeadline, Goto, TypeOK, PcLabels, Codes, Ticks, Operations, Finishes,
     Outcomes, NoDeadline, callVars, wdVars, mapVars, pauseVars
<1>2. PerCall'
  <2> SUFFICES ASSUME NEW d \in Calls
               PROVE  (Stage(d) /\ Owned(d) /\ Written(d) /\ Left(d) /\ Reported(d))'
    BY DEF PerCall
  <2>1. Stage(d) /\ Owned(d) /\ Written(d) /\ Left(d) /\ Reported(d) /\ TypeOK
    BY DEF OInv, PerCall
  <2> QED
    BY <2>1 DEF CountDeadline, Goto, TypeOK, Operations, Finishes, Requests, Stage, Finishing,
       Owned, Written, Left, Reported, Early, IsSync, IsAsync, IsEvent, HasCallback, Freed,
       callVars, wdVars, mapVars, pauseVars
<1>3. Threads'
  BY DEF OInv, PerCall, CountDeadline, Goto, TypeOK, Threads, Inside, Finishing, Dying, callVars,
     wdVars, mapVars, pauseVars
<1> QED
  BY <1>1, <1>2, <1>3 DEF OInv

\* The watchdog is started.
LEMMA EnsureWatchdogRunningStep ==
  ASSUME NEW c \in Calls, OInv, EnsureWatchdogRunning(c)
  PROVE  OInv'
<1>1. TypeOK'
  BY DEF OInv, EnsureWatchdogRunning, Goto, TypeOK, PcLabels, Codes, Ticks, Operations, Finishes,
     Outcomes, NoDeadline, callVars, wdVars, mapVars, pauseVars
<1>2. PerCall'
  <2> SUFFICES ASSUME NEW d \in Calls
               PROVE  (Stage(d) /\ Owned(d) /\ Written(d) /\ Left(d) /\ Reported(d))'
    BY DEF PerCall
  <2>1. Stage(d) /\ Owned(d) /\ Written(d) /\ Left(d) /\ Reported(d) /\ TypeOK
    BY DEF OInv, PerCall
  <2> QED
    BY <2>1 DEF EnsureWatchdogRunning, Goto, TypeOK, Operations, Finishes, Requests, Stage,
       Finishing, Owned, Written, Left, Reported, Early, IsSync, IsAsync, IsEvent, HasCallback,
       Freed, callVars, wdVars, mapVars, pauseVars
<1>3. Threads'
  BY DEF OInv, PerCall, EnsureWatchdogRunning, Goto, TypeOK, Threads, Inside, Finishing, Dying,
     callVars, wdVars, mapVars, pauseVars
<1> QED
  BY <1>1, <1>2, <1>3 DEF OInv

\* NotifyWatchdog reads the count.
LEMMA NotifyReadStep ==
  ASSUME NEW c \in Calls, OInv, NotifyRead(c)
  PROVE  OInv'
<1>1. TypeOK'
  BY DEF OInv, NotifyRead, Goto, TypeOK, PcLabels, Codes, Ticks, Operations, Finishes, Outcomes,
     NoDeadline, callVars, wdVars, mapVars, pauseVars
<1>2. PerCall'
  <2> SUFFICES ASSUME NEW d \in Calls
               PROVE  (Stage(d) /\ Owned(d) /\ Written(d) /\ Left(d) /\ Reported(d))'
    BY DEF PerCall
  <2>1. Stage(d) /\ Owned(d) /\ Written(d) /\ Left(d) /\ Reported(d) /\ TypeOK
    BY DEF OInv, PerCall
  <2> QED
    BY <2>1 DEF NotifyRead, Goto, TypeOK, Operations, Finishes, Requests, Stage, Finishing, Owned,
       Written, Left, Reported, Early, IsSync, IsAsync, IsEvent, HasCallback, Freed, callVars,
       wdVars, mapVars, pauseVars
<1>3. Threads'
  BY DEF OInv, PerCall, NotifyRead, Goto, TypeOK, Threads, Inside, Finishing, Dying, callVars,
     wdVars, mapVars, pauseVars
<1> QED
  BY <1>1, <1>2, <1>3 DEF OInv

\* NotifyWatchdog asks the watchdog to stop.
LEMMA NotifyStopStep ==
  ASSUME NEW c \in Calls, OInv, NotifyStop(c)
  PROVE  OInv'
<1>1. TypeOK'
  BY DEF OInv, NotifyStop, Goto, TypeOK, PcLabels, Codes, Ticks, Operations, Finishes, Outcomes,
     NoDeadline, callVars, wdVars, mapVars, pauseVars
<1>2. PerCall'
  <2> SUFFICES ASSUME NEW d \in Calls
               PROVE  (Stage(d) /\ Owned(d) /\ Written(d) /\ Left(d) /\ Reported(d))'
    BY DEF PerCall
  <2>1. Stage(d) /\ Owned(d) /\ Written(d) /\ Left(d) /\ Reported(d) /\ TypeOK
    BY DEF OInv, PerCall
  <2> QED
    BY <2>1 DEF NotifyStop, Goto, TypeOK, Operations, Finishes, Requests, Stage, Finishing, Owned,
       Written, Left, Reported, Early, IsSync, IsAsync, IsEvent, HasCallback, Freed, callVars,
       wdVars, mapVars, pauseVars
<1>3. Threads'
  BY DEF OInv, PerCall, NotifyStop, Goto, TypeOK, Threads, Inside, Finishing, Dying, callVars,
     wdVars, mapVars, pauseVars
<1> QED
  BY <1>1, <1>2, <1>3 DEF OInv

\* SendInvokeAsync returns.
LEMMA ReturnAsyncStep ==
  ASSUME NEW c \in Calls, OInv, ReturnAsync(c)
  PROVE  OInv'
<1>1. TypeOK'
  BY DEF OInv, ReturnAsync, Goto, Busy, TypeOK, PcLabels, Codes, Ticks, Operations, Finishes,
     Outcomes, NoDeadline, callVars, wdVars, mapVars, pauseVars
<1>2. PerCall'
  <2> SUFFICES ASSUME NEW d \in Calls
               PROVE  (Stage(d) /\ Owned(d) /\ Written(d) /\ Left(d) /\ Reported(d))'
    BY DEF PerCall
  <2>1. Stage(d) /\ Owned(d) /\ Written(d) /\ Left(d) /\ Reported(d) /\ TypeOK
    BY DEF OInv, PerCall
  <2> QED
    BY <2>1 DEF ReturnAsync, Goto, Busy, TypeOK, Operations, Finishes, Requests, Stage, Finishing,
       Owned, Written, Left, Reported, Early, IsSync, IsAsync, IsEvent, HasCallback, Freed,
       callVars, wdVars, mapVars, pauseVars
<1>3. Threads'
  BY DEF OInv, PerCall, ReturnAsync, Goto, Busy, TypeOK, Threads, Inside, Finishing, Dying,
     callVars, wdVars, mapVars, pauseVars
<1> QED
  BY <1>1, <1>2, <1>3 DEF OInv

\* FinishAsyncInvoke reads the context.
LEMMA FinishContextStep ==
  ASSUME NEW c \in Calls, OInv, FinishContext(c)
  PROVE  OInv'
<1> DEFINE r == IF op[c].ctx /\ op[c].answer # NoAnswer
                THEN HandleInvokeResult(fin[c].res, op[c].answer) ELSE fin[c].res
<1>1. fin' = [fin EXCEPT ![c].pc = "report", ![c].ctx = op[c].ctx, ![c].res = r]
  BY DEF FinishContext
<1>2. TypeOK'
  <2>1. fin[c] \in Finishes /\ op[c] \in Operations
    BY DEF OInv, TypeOK
  <2>2. r \in Codes
    BY <2>1, HandleInvokeResultType DEF Finishes, Operations, NoAnswer
  <2>3. fin' \in [Calls -> Finishes]
    BY <1>1, <2>1, <2>2 DEF OInv, TypeOK, Finishes, Operations
  <2> QED
    BY <2>3 DEF OInv, FinishContext, TypeOK, callVars, wdVars, mapVars, pauseVars
<1> HIDE DEF r
<1>3. PerCall'
  <2> SUFFICES ASSUME NEW d \in Calls
               PROVE  (Stage(d) /\ Owned(d) /\ Written(d) /\ Left(d) /\ Reported(d))'
    BY DEF PerCall
  <2>1. Stage(d) /\ Owned(d) /\ Written(d) /\ Left(d) /\ Reported(d) /\ TypeOK
    BY DEF OInv, PerCall
  <2> QED
    BY <1>1, <2>1 DEF FinishContext, TypeOK, Operations, Finishes, Requests, Stage, Finishing,
       Owned, Written, Left, Reported, Early, IsSync, IsAsync, IsEvent, HasCallback, Freed,
       callVars, wdVars, mapVars, pauseVars
<1>4. Threads'
  BY <1>1 DEF OInv, PerCall, FinishContext, TypeOK, Threads, Inside, Finishing, Dying, callVars,
     wdVars, mapVars, pauseVars
<1> QED
  BY <1>2, <1>3, <1>4 DEF OInv

\* FinishAsyncInvoke reports the call.
LEMMA FinishReportStep ==
  ASSUME NEW c \in Calls, OInv, FinishReport(c)
  PROVE  OInv'
<1>1. PICK o \in Outcomes :
        telem' = IF op[c].stamp THEN [telem EXCEPT ![c] = Append(@, o)] ELSE telem
  BY FinalizeTelemetryType DEF FinishReport, Report
<1>2. TypeOK'
  <2>1. fin[c] \in Finishes
    BY DEF OInv, TypeOK
  <2>2. fin' \in [Calls -> Finishes]
    BY <2>1 DEF OInv, TypeOK, FinishReport, Finishes
  <2>3. telem' \in [Calls -> Seq(Outcomes)]
    BY <1>1 DEF OInv, TypeOK
  <2> QED
    BY <2>2, <2>3 DEF OInv, FinishReport, TypeOK, callVars, wdVars, mapVars, pauseVars
<1>3. PerCall'
  <2> SUFFICES ASSUME NEW d \in Calls
               PROVE  (Stage(d) /\ Owned(d) /\ Written(d) /\ Left(d) /\ Reported(d))'
    BY DEF PerCall
  <2>1. Stage(d) /\ Owned(d) /\ Written(d) /\ Left(d) /\ Reported(d) /\ TypeOK
    BY DEF OInv, PerCall
  <2>2. /\ fin[c].pc = "report" /\ fin' = [fin EXCEPT ![c].pc = "read"]
        /\ UNCHANGED <<callVars, wdVars, mapVars, pauseVars, cbs, heirs>>
    BY DEF FinishReport
  <2>3. CASE d # c
    <3>1. fin'[d] = fin[d] /\ telem'[d] = telem[d]
      BY <1>1, <2>1, <2>2, <2>3 DEF TypeOK
    <3>2. UNCHANGED <<ask, pc, wire, inMap, op, cbs, heirs>>
      BY <2>2 DEF callVars, mapVars
    <3> QED
      BY <2>1, <3>1, <3>2 DEF Stage, Finishing, Owned, Written, Left, Reported, Early, IsSync,
         IsAsync, IsEvent, HasCallback, Freed
  <2>4. CASE d = c
    <3>0. telem[d] = <<>> /\ telem \in [Calls -> Seq(Outcomes)]
      BY <2>1, <2>2, <2>4 DEF Reported, TypeOK
    <3>1. telem'[d] = IF op[d].stamp THEN <<o>> ELSE <<>>
      BY <1>1, <2>4, <3>0
    <3>2. /\ fin'[d].pc = "read" /\ fin'[d].by = fin[d].by /\ fin'[d].at = fin[d].at
          /\ fin'[d].ctx = fin[d].ctx
      BY <2>1, <2>2, <2>4 DEF TypeOK, Finishes
    <3>3. Stage(d)' /\ Owned(d)' /\ Written(d)' /\ Left(d)'
      BY <2>1, <2>2, <2>4, <3>2 DEF Stage, Finishing, Owned, Written, Left, Early, IsSync,
         IsAsync, IsEvent, Freed, callVars, mapVars
    <3> QED
      BY <2>1, <2>2, <2>4, <3>1, <3>2, <3>3 DEF Finishing, Owned, Written, Reported, IsSync,
         IsAsync, HasCallback, Freed, callVars, mapVars
  <2> QED
    BY <2>3, <2>4
<1>4. Threads'
  BY DEF OInv, PerCall, FinishReport, TypeOK, Threads, Inside, Finishing, Dying, callVars,
     wdVars, mapVars, pauseVars
<1> QED
  BY <1>2, <1>3, <1>4 DEF OInv

\* FinishAsyncInvoke reads the count.
LEMMA FinishReadStep ==
  ASSUME NEW c \in Calls, OInv, FinishRead(c)
  PROVE  OInv'
<1>1. TypeOK'
  <2>1. fin[c] \in Finishes
    BY DEF OInv, TypeOK
  <2>2. fin' \in [Calls -> Finishes]
    BY <2>1 DEF OInv, TypeOK, FinishRead, Finishes
  <2> QED
    BY <2>1, <2>2 DEF OInv, FinishRead, TypeOK, PcLabels, callVars, wdVars, mapVars, pauseVars
<1>2. PerCall'
  <2> SUFFICES ASSUME NEW d \in Calls
               PROVE  (Stage(d) /\ Owned(d) /\ Written(d) /\ Left(d) /\ Reported(d))'
    BY DEF PerCall
  <2>1. Stage(d) /\ Owned(d) /\ Written(d) /\ Left(d) /\ Reported(d) /\ TypeOK
    BY DEF OInv, PerCall
  <2> QED
    BY <2>1 DEF FinishRead, TypeOK, Operations, Finishes, Requests, Stage, Finishing, Owned,
       Written, Left, Reported, Early, IsSync, IsAsync, IsEvent, HasCallback, Freed, callVars,
       wdVars, mapVars, pauseVars
<1>3. Threads'
  BY DEF OInv, PerCall, FinishRead, TypeOK, Threads, Inside, Finishing, Dying, callVars, wdVars,
     mapVars, pauseVars
<1> QED
  BY <1>1, <1>2, <1>3 DEF OInv

\* FinishAsyncInvoke asks the watchdog to stop.
LEMMA FinishStopStep ==
  ASSUME NEW c \in Calls, OInv, FinishStop(c)
  PROVE  OInv'
<1>1. TypeOK'
  <2>1. fin[c] \in Finishes
    BY DEF OInv, TypeOK
  <2>2. fin' \in [Calls -> Finishes]
    BY <2>1 DEF OInv, TypeOK, FinishStop, Finishes
  <2> QED
    BY <2>1, <2>2 DEF OInv, FinishStop, TypeOK, PcLabels, callVars, wdVars, mapVars, pauseVars
<1>2. PerCall'
  <2> SUFFICES ASSUME NEW d \in Calls
               PROVE  (Stage(d) /\ Owned(d) /\ Written(d) /\ Left(d) /\ Reported(d))'
    BY DEF PerCall
  <2>1. Stage(d) /\ Owned(d) /\ Written(d) /\ Left(d) /\ Reported(d) /\ TypeOK
    BY DEF OInv, PerCall
  <2> QED
    BY <2>1 DEF FinishStop, TypeOK, Operations, Finishes, Requests, Stage, Finishing, Owned,
       Written, Left, Reported, Early, IsSync, IsAsync, IsEvent, HasCallback, Freed, callVars,
       wdVars, mapVars, pauseVars
<1>3. Threads'
  BY DEF OInv, PerCall, FinishStop, TypeOK, Threads, Inside, Finishing, Dying, callVars, wdVars,
     mapVars, pauseVars
<1> QED
  BY <1>1, <1>2, <1>3 DEF OInv

\* FinishAsyncInvoke calls back and frees the operation.
LEMMA FinishCallbackStep ==
  ASSUME NEW c \in Calls, OInv, FinishCallback(c)
  PROVE  OInv'
<1>1. TypeOK'
  <2>1. fin[c] \in Finishes
    BY DEF OInv, TypeOK
  <2>2. fin' \in [Calls -> Finishes]
    BY <2>1 DEF OInv, TypeOK, FinishCallback, Finishes
  <2>3. cbs' \in [Calls -> Seq(Codes)]
    BY <2>1 DEF OInv, TypeOK, FinishCallback, Finishes
  <2> QED
    BY <2>1, <2>2, <2>3 DEF OInv, FinishCallback, TypeOK, PcLabels, callVars, wdVars, mapVars,
       pauseVars
<1>2. PerCall'
  <2> SUFFICES ASSUME NEW d \in Calls
               PROVE  (Stage(d) /\ Owned(d) /\ Written(d) /\ Left(d) /\ Reported(d))'
    BY DEF PerCall
  <2>1. Stage(d) /\ Owned(d) /\ Written(d) /\ Left(d) /\ Reported(d) /\ TypeOK
    BY DEF OInv, PerCall
  <2>2. /\ fin[c].pc = "callback" /\ fin' = [fin EXCEPT ![c].pc = "done"]
        /\ UNCHANGED <<ask, pc, wire, inMap, op, telem, heirs>>
    BY DEF FinishCallback, callVars, mapVars
  <2>3. CASE d # c
    <3>1. fin'[d] = fin[d] /\ cbs'[d] = cbs[d]
      BY <2>1, <2>2, <2>3 DEF FinishCallback, TypeOK
    <3>2. UNCHANGED <<ask, pc, wire, inMap, op, telem, heirs>>
      BY <2>2
    <3> QED
      BY <2>1, <3>1, <3>2 DEF Stage, Finishing, Owned, Written, Left, Reported, Early, IsSync,
         IsAsync, IsEvent, HasCallback, Freed
  <2>4. CASE d = c
    <3>1. /\ fin'[d].pc = "done" /\ fin'[d].by = fin[d].by /\ fin'[d].at = fin[d].at
          /\ fin'[d].ctx = fin[d].ctx
      BY <2>1, <2>2, <2>4 DEF TypeOK, Finishes
    <3>2. cbs[d] = <<>>
      BY <2>1, <2>2, <2>4 DEF Reported, Finishing
    <3>3. cbs'[d] = IF HasCallback(d) /\ fin[d].ctx THEN <<fin[d].res>> ELSE <<>>
      BY <2>1, <2>4, <3>2 DEF FinishCallback, TypeOK
    <3>4. Stage(d)' /\ Owned(d)' /\ Written(d)' /\ Left(d)'
      BY <2>1, <2>2, <2>4, <3>1 DEF Stage, Finishing, Owned, Written, Left, Early, IsSync,
         IsAsync, IsEvent, Freed
    <3>5. op[d].async /\ IsAsync(d) /\ d \notin inMap /\ pc[d] \notin {"idle", "add"}
      BY <2>1, <2>2, <2>4 DEF Owned
    <3>6. HasCallback(d)' = HasCallback(d) /\ IsAsync(d)' = IsAsync(d) /\ ~IsSync(d)'
      BY <2>2, <3>5 DEF HasCallback, IsAsync, IsSync
    <3>7. cbs'[d] # <<>> <=> HasCallback(d) /\ fin[d].ctx
      BY <3>3
    <3>8. Len(cbs'[d]) <= IF HasCallback(d) THEN 1 ELSE 0
      BY <3>3
    <3> QED
      BY <2>1, <2>2, <2>4, <3>1, <3>4, <3>5, <3>6, <3>7, <3>8 DEF Finishing, Reported, Freed
  <2> QED
    BY <2>3, <2>4
<1>3. Threads'
  BY DEF OInv, PerCall, FinishCallback, TypeOK, Threads, Inside, Finishing, Dying, callVars,
     wdVars, mapVars, pauseVars
<1> QED
  BY <1>1, <1>2, <1>3 DEF OInv

\* The watchdog thread: WatchdogScan.
LEMMA WatchdogScanStep ==
  ASSUME OInv, WatchdogScan
  PROVE  OInv'
<1>1. TypeOK'
  <2>1. Deadlines \subseteq Ticks
    BY DEF OInv, TypeOK, Deadlines, Operations
  <2>2. wdNext' \in Ticks
    BY <2>1 DEF WatchdogScan, Ticks
  <2> QED
    BY <2>1, <2>2 DEF OInv, WatchdogScan, TypeOK, PcLabels, callVars, wdVars, mapVars, pauseVars
<1>2. PerCall'
  <2> SUFFICES ASSUME NEW d \in Calls
               PROVE  (Stage(d) /\ Owned(d) /\ Written(d) /\ Left(d) /\ Reported(d))'
    BY DEF PerCall
  <2>1. Stage(d) /\ Owned(d) /\ Written(d) /\ Left(d) /\ Reported(d) /\ TypeOK
    BY DEF OInv, PerCall
  <2> QED
    BY <2>1 DEF WatchdogScan, TypeOK, Operations, Finishes, Requests, Stage, Finishing, Owned,
       Written, Left, Reported, Early, IsSync, IsAsync, IsEvent, HasCallback, Freed, callVars,
       wdVars, mapVars, pauseVars
<1>3. Threads'
  BY DEF OInv, PerCall, WatchdogScan, TypeOK, Threads, Inside, Finishing, Dying, callVars, wdVars,
     mapVars, pauseVars
<1> QED
  BY <1>1, <1>2, <1>3 DEF OInv

\* The watchdog thread: WatchdogStopSeen.
LEMMA WatchdogStopSeenStep ==
  ASSUME OInv, WatchdogStopSeen
  PROVE  OInv'
<1>1. TypeOK'
  BY DEF OInv, WatchdogStopSeen, TypeOK, PcLabels, Codes, Ticks, Operations, Finishes, Outcomes,
     NoDeadline, callVars, wdVars, mapVars, pauseVars
<1>2. PerCall'
  <2> SUFFICES ASSUME NEW d \in Calls
               PROVE  (Stage(d) /\ Owned(d) /\ Written(d) /\ Left(d) /\ Reported(d))'
    BY DEF PerCall
  <2>1. Stage(d) /\ Owned(d) /\ Written(d) /\ Left(d) /\ Reported(d) /\ TypeOK
    BY DEF OInv, PerCall
  <2> QED
    BY <2>1 DEF WatchdogStopSeen, TypeOK, Operations, Finishes, Requests, Stage, Finishing, Owned,
       Written, Left, Reported, Early, IsSync, IsAsync, IsEvent, HasCallback, Freed, callVars,
       wdVars, mapVars, pauseVars
<1>3. Threads'
  BY DEF OInv, PerCall, WatchdogStopSeen, TypeOK, Threads, Inside, Finishing, Dying, callVars,
     wdVars, mapVars, pauseVars
<1> QED
  BY <1>1, <1>2, <1>3 DEF OInv

\* The watchdog thread: WatchdogWorkSeen.
LEMMA WatchdogWorkSeenStep ==
  ASSUME OInv, WatchdogWorkSeen
  PROVE  OInv'
<1>1. TypeOK'
  BY DEF OInv, WatchdogWorkSeen, TypeOK, PcLabels, Codes, Ticks, Operations, Finishes, Outcomes,
     NoDeadline, callVars, wdVars, mapVars, pauseVars
<1>2. PerCall'
  <2> SUFFICES ASSUME NEW d \in Calls
               PROVE  (Stage(d) /\ Owned(d) /\ Written(d) /\ Left(d) /\ Reported(d))'
    BY DEF PerCall
  <2>1. Stage(d) /\ Owned(d) /\ Written(d) /\ Left(d) /\ Reported(d) /\ TypeOK
    BY DEF OInv, PerCall
  <2> QED
    BY <2>1 DEF WatchdogWorkSeen, TypeOK, Operations, Finishes, Requests, Stage, Finishing, Owned,
       Written, Left, Reported, Early, IsSync, IsAsync, IsEvent, HasCallback, Freed, callVars,
       wdVars, mapVars, pauseVars
<1>3. Threads'
  BY DEF OInv, PerCall, WatchdogWorkSeen, TypeOK, Threads, Inside, Finishing, Dying, callVars,
     wdVars, mapVars, pauseVars
<1> QED
  BY <1>1, <1>2, <1>3 DEF OInv

\* The watchdog thread: WatchdogDeadline.
LEMMA WatchdogDeadlineStep ==
  ASSUME OInv, WatchdogDeadline
  PROVE  OInv'
<1>1. TypeOK'
  BY DEF OInv, WatchdogDeadline, TypeOK, PcLabels, Codes, Ticks, Operations, Finishes, Outcomes,
     NoDeadline, callVars, wdVars, mapVars, pauseVars
<1>2. PerCall'
  <2> SUFFICES ASSUME NEW d \in Calls
               PROVE  (Stage(d) /\ Owned(d) /\ Written(d) /\ Left(d) /\ Reported(d))'
    BY DEF PerCall
  <2>1. Stage(d) /\ Owned(d) /\ Written(d) /\ Left(d) /\ Reported(d) /\ TypeOK
    BY DEF OInv, PerCall
  <2> QED
    BY <2>1 DEF WatchdogDeadline, TypeOK, Operations, Finishes, Requests, Stage, Finishing, Owned,
       Written, Left, Reported, Early, IsSync, IsAsync, IsEvent, HasCallback, Freed, callVars,
       wdVars, mapVars, pauseVars
<1>3. Threads'
  BY DEF OInv, PerCall, WatchdogDeadline, TypeOK, Threads, Inside, Finishing, Dying, callVars,
     wdVars, mapVars, pauseVars
<1> QED
  BY <1>1, <1>2, <1>3 DEF OInv

\* The watchdog thread: ProcessAsyncTimeouts.
LEMMA ProcessAsyncTimeoutsStep ==
  ASSUME OInv, ProcessAsyncTimeouts
  PROVE  OInv'
<1>1. TypeOK'
  BY DEF OInv, ProcessAsyncTimeouts, TypeOK, PcLabels, Codes, Ticks, Operations, Finishes,
     Outcomes, NoDeadline, callVars, wdVars, mapVars, pauseVars
<1>2. PerCall'
  <2> SUFFICES ASSUME NEW d \in Calls
               PROVE  (Stage(d) /\ Owned(d) /\ Written(d) /\ Left(d) /\ Reported(d))'
    BY DEF PerCall
  <2>1. Stage(d) /\ Owned(d) /\ Written(d) /\ Left(d) /\ Reported(d) /\ TypeOK
    BY DEF OInv, PerCall
  <2> QED
    BY <2>1 DEF ProcessAsyncTimeouts, TypeOK, Operations, Finishes, Requests, Stage, Finishing,
       Owned, Written, Left, Reported, Early, IsSync, IsAsync, IsEvent, HasCallback, Freed,
       callVars, wdVars, mapVars, pauseVars
<1>3. Threads'
  BY DEF OInv, PerCall, ProcessAsyncTimeouts, TypeOK, Threads, Inside, Finishing, Dying, callVars,
     wdVars, mapVars, pauseVars
<1> QED
  BY <1>1, <1>2, <1>3 DEF OInv

\* The watchdog thread: WatchdogLoop.
LEMMA WatchdogLoopStep ==
  ASSUME OInv, WatchdogLoop
  PROVE  OInv'
<1>1. TypeOK'
  BY DEF OInv, WatchdogLoop, Busy, TypeOK, PcLabels, Codes, Ticks, Operations, Finishes, Outcomes,
     NoDeadline, callVars, wdVars, mapVars, pauseVars
<1>2. PerCall'
  <2> SUFFICES ASSUME NEW d \in Calls
               PROVE  (Stage(d) /\ Owned(d) /\ Written(d) /\ Left(d) /\ Reported(d))'
    BY DEF PerCall
  <2>1. Stage(d) /\ Owned(d) /\ Written(d) /\ Left(d) /\ Reported(d) /\ TypeOK
    BY DEF OInv, PerCall
  <2> QED
    BY <2>1 DEF WatchdogLoop, Busy, TypeOK, Operations, Finishes, Requests, Stage, Finishing,
       Owned, Written, Left, Reported, Early, IsSync, IsAsync, IsEvent, HasCallback, Freed,
       callVars, wdVars, mapVars, pauseVars
<1>3. Threads'
  BY DEF OInv, PerCall, WatchdogLoop, Busy, TypeOK, Threads, Inside, Finishing, Dying, callVars,
     wdVars, mapVars, pauseVars
<1> QED
  BY <1>1, <1>2, <1>3 DEF OInv

\* The watchdog thread: WatchdogExit.
LEMMA WatchdogExitStep ==
  ASSUME OInv, WatchdogExit
  PROVE  OInv'
<1>1. TypeOK'
  BY DEF OInv, WatchdogExit, TypeOK, PcLabels, Codes, Ticks, Operations, Finishes, Outcomes,
     NoDeadline, callVars, wdVars, mapVars, pauseVars
<1>2. PerCall'
  <2> SUFFICES ASSUME NEW d \in Calls
               PROVE  (Stage(d) /\ Owned(d) /\ Written(d) /\ Left(d) /\ Reported(d))'
    BY DEF PerCall
  <2>1. Stage(d) /\ Owned(d) /\ Written(d) /\ Left(d) /\ Reported(d) /\ TypeOK
    BY DEF OInv, PerCall
  <2> QED
    BY <2>1 DEF WatchdogExit, TypeOK, Operations, Finishes, Requests, Stage, Finishing, Owned,
       Written, Left, Reported, Early, IsSync, IsAsync, IsEvent, HasCallback, Freed, callVars,
       wdVars, mapVars, pauseVars
<1>3. Threads'
  BY DEF OInv, PerCall, WatchdogExit, TypeOK, Threads, Inside, Finishing, Dying, callVars, wdVars,
     mapVars, pauseVars
<1> QED
  BY <1>1, <1>2, <1>3 DEF OInv

\* Pause and destruction: PauseRoseProcessing.
LEMMA PauseRoseProcessingStep ==
  ASSUME OInv, PauseRoseProcessing
  PROVE  OInv'
<1>1. TypeOK'
  <2>1. pauses' \in Nat /\ ppc' = "complete"
    BY DEF OInv, TypeOK, PauseRoseProcessing
  <2>2. gate' \in BOOLEAN
    BY Zenon DEF PauseRoseProcessing
  <2> QED
    BY <2>1, <2>2 DEF OInv, PauseRoseProcessing, TypeOK, PcLabels, callVars, wdVars, mapVars,
       pauseVars
<1>2. PerCall'
  <2> SUFFICES ASSUME NEW d \in Calls
               PROVE  (Stage(d) /\ Owned(d) /\ Written(d) /\ Left(d) /\ Reported(d))'
    BY DEF PerCall
  <2>1. Stage(d) /\ Owned(d) /\ Written(d) /\ Left(d) /\ Reported(d) /\ TypeOK
    BY DEF OInv, PerCall
  <2> QED
    BY <2>1 DEF PauseRoseProcessing, TypeOK, Operations, Finishes, Requests, Stage, Finishing,
       Owned, Written, Left, Reported, Early, IsSync, IsAsync, IsEvent, HasCallback, Freed,
       callVars, wdVars, mapVars, pauseVars
<1>3. Threads'
  BY DEF OInv, PerCall, PauseRoseProcessing, TypeOK, Threads, Inside, Finishing, Dying, callVars,
     wdVars, mapVars, pauseVars
<1> QED
  BY <1>1, <1>2, <1>3 DEF OInv

\* Pause and destruction: CompleteAllPendingOperations.
LEMMA CompleteAllPendingOperationsStep ==
  ASSUME OInv, CompleteAllPendingOperations
  PROVE  OInv'
<1>0. /\ op' \in [Calls -> Operations]
      /\ \A d \in Calls : /\ op'[d].async = op[d].async /\ op'[d].ctx = op[d].ctx
                          /\ op'[d].stamp = op[d].stamp
  <2>1. \A d \in Calls : op[d] \in Operations
    BY DEF OInv, TypeOK
  <2>2. op' = [d \in Calls |->
                IF d \notin {c \in inMap : ~op[c].async} THEN op[d]
                ELSE [op[d] EXCEPT !.result = "SHUTDOWN", !.signaled = TRUE]]
    BY DEF CompleteAllPendingOperations, CompleteOperation, NoAnswer
  <2>3. \A d \in Calls : LET o == [op[d] EXCEPT !.result = "SHUTDOWN", !.signaled = TRUE]
                         IN  /\ o \in Operations /\ o.async = op[d].async /\ o.ctx = op[d].ctx
                             /\ o.stamp = op[d].stamp
    BY <2>1 DEF Operations, Codes
  <2> QED
    BY <2>1, <2>2, <2>3
<1>1. TypeOK'
  BY <1>0 DEF OInv, CompleteAllPendingOperations, TypeOK, PcLabels, Codes, Ticks, Operations,
     Finishes, Outcomes, NoDeadline, callVars, wdVars, mapVars, pauseVars
<1>2. PerCall'
  <2> SUFFICES ASSUME NEW d \in Calls
               PROVE  (Stage(d) /\ Owned(d) /\ Written(d) /\ Left(d) /\ Reported(d))'
    BY DEF PerCall
  <2>1. Stage(d) /\ Owned(d) /\ Written(d) /\ Left(d) /\ Reported(d) /\ TypeOK
    BY DEF OInv, PerCall
  <2> QED
    BY <2>1, <1>0 DEF CompleteAllPendingOperations, TypeOK, Operations, Finishes, Requests, Stage,
       Finishing, Owned, Written, Left, Reported, Early, IsSync, IsAsync, IsEvent, HasCallback,
       Freed, callVars, wdVars, mapVars, pauseVars
<1>3. Threads'
  BY <1>0 DEF OInv, PerCall, CompleteAllPendingOperations, TypeOK, Threads, Inside, Finishing,
     Dying, callVars, wdVars, mapVars, pauseVars
<1> QED
  BY <1>1, <1>2, <1>3 DEF OInv

\* Pause and destruction: Destroy.
LEMMA DestroyStep ==
  ASSUME OInv, Destroy
  PROVE  OInv'
<1>1. TypeOK'
  BY DEF OInv, Destroy, Busy, TypeOK, PcLabels, Codes, Ticks, Operations, Finishes, Outcomes,
     NoDeadline, callVars, wdVars, mapVars, pauseVars
<1>2. PerCall'
  <2> SUFFICES ASSUME NEW d \in Calls
               PROVE  (Stage(d) /\ Owned(d) /\ Written(d) /\ Left(d) /\ Reported(d))'
    BY DEF PerCall
  <2>1. Stage(d) /\ Owned(d) /\ Written(d) /\ Left(d) /\ Reported(d) /\ TypeOK
    BY DEF OInv, PerCall
  <2> QED
    BY <2>1 DEF Destroy, Busy, TypeOK, Operations, Finishes, Requests, Stage, Finishing, Owned,
       Written, Left, Reported, Early, IsSync, IsAsync, IsEvent, HasCallback, Freed, callVars,
       wdVars, mapVars, pauseVars
<1>3. Threads'
  BY DEF OInv, PerCall, Destroy, Busy, TypeOK, Threads, Inside, Finishing, Dying, callVars, wdVars,
     mapVars, pauseVars
<1> QED
  BY <1>1, <1>2, <1>3 DEF OInv

\* Pause and destruction: PauseReturn.
LEMMA PauseReturnStep ==
  ASSUME OInv, PauseReturn
  PROVE  OInv'
<1>1. TypeOK'
  BY DEF OInv, PauseReturn, Busy, TypeOK, PcLabels, Codes, Ticks, Operations, Finishes, Outcomes,
     NoDeadline, callVars, wdVars, mapVars, pauseVars
<1>2. PerCall'
  <2> SUFFICES ASSUME NEW d \in Calls
               PROVE  (Stage(d) /\ Owned(d) /\ Written(d) /\ Left(d) /\ Reported(d))'
    BY DEF PerCall
  <2>1. Stage(d) /\ Owned(d) /\ Written(d) /\ Left(d) /\ Reported(d) /\ TypeOK
    BY DEF OInv, PerCall
  <2> QED
    BY <2>1 DEF PauseReturn, Busy, TypeOK, Operations, Finishes, Requests, Stage, Finishing, Owned,
       Written, Left, Reported, Early, IsSync, IsAsync, IsEvent, HasCallback, Freed, callVars,
       wdVars, mapVars, pauseVars
<1>3. Threads'
  BY DEF OInv, PerCall, PauseReturn, Busy, TypeOK, Threads, Inside, Finishing, Dying, callVars,
     wdVars, mapVars, pauseVars
<1> QED
  BY <1>1, <1>2, <1>3 DEF OInv

\* Pause and destruction: ResumeRoseProcessing.
LEMMA ResumeRoseProcessingStep ==
  ASSUME OInv, ResumeRoseProcessing
  PROVE  OInv'
<1>1. TypeOK'
  BY DEF OInv, ResumeRoseProcessing, TypeOK, PcLabels, Codes, Ticks, Operations, Finishes,
     Outcomes, NoDeadline, callVars, wdVars, mapVars, pauseVars
<1>2. PerCall'
  <2> SUFFICES ASSUME NEW d \in Calls
               PROVE  (Stage(d) /\ Owned(d) /\ Written(d) /\ Left(d) /\ Reported(d))'
    BY DEF PerCall
  <2>1. Stage(d) /\ Owned(d) /\ Written(d) /\ Left(d) /\ Reported(d) /\ TypeOK
    BY DEF OInv, PerCall
  <2> QED
    BY <2>1 DEF ResumeRoseProcessing, TypeOK, Operations, Finishes, Requests, Stage, Finishing,
       Owned, Written, Left, Reported, Early, IsSync, IsAsync, IsEvent, HasCallback, Freed,
       callVars, wdVars, mapVars, pauseVars
<1>3. Threads'
  BY DEF OInv, PerCall, ResumeRoseProcessing, TypeOK, Threads, Inside, Finishing, Dying, callVars,
     wdVars, mapVars, pauseVars
<1> QED
  BY <1>1, <1>2, <1>3 DEF OInv

\* Pause and destruction: StopWatchdogThread.
LEMMA StopWatchdogThreadStep ==
  ASSUME OInv, StopWatchdogThread
  PROVE  OInv'
<1>1. TypeOK'
  BY DEF OInv, StopWatchdogThread, TypeOK, PcLabels, Codes, Ticks, Operations, Finishes, Outcomes,
     NoDeadline, callVars, wdVars, mapVars, pauseVars
<1>2. PerCall'
  <2> SUFFICES ASSUME NEW d \in Calls
               PROVE  (Stage(d) /\ Owned(d) /\ Written(d) /\ Left(d) /\ Reported(d))'
    BY DEF PerCall
  <2>1. Stage(d) /\ Owned(d) /\ Written(d) /\ Left(d) /\ Reported(d) /\ TypeOK
    BY DEF OInv, PerCall
  <2> QED
    BY <2>1 DEF StopWatchdogThread, TypeOK, Operations, Finishes, Requests, Stage, Finishing,
       Owned, Written, Left, Reported, Early, IsSync, IsAsync, IsEvent, HasCallback, Freed,
       callVars, wdVars, mapVars, pauseVars
<1>3. Threads'
  BY DEF OInv, PerCall, StopWatchdogThread, TypeOK, Threads, Inside, Finishing, Dying, callVars,
     wdVars, mapVars, pauseVars
<1> QED
  BY <1>1, <1>2, <1>3 DEF OInv

\* Pause and destruction: JoinWatchdogThread.
LEMMA JoinWatchdogThreadStep ==
  ASSUME OInv, JoinWatchdogThread
  PROVE  OInv'
<1>1. TypeOK'
  BY DEF OInv, JoinWatchdogThread, TypeOK, PcLabels, Codes, Ticks, Operations, Finishes, Outcomes,
     NoDeadline, callVars, wdVars, mapVars, pauseVars
<1>2. PerCall'
  <2> SUFFICES ASSUME NEW d \in Calls
               PROVE  (Stage(d) /\ Owned(d) /\ Written(d) /\ Left(d) /\ Reported(d))'
    BY DEF PerCall
  <2>1. Stage(d) /\ Owned(d) /\ Written(d) /\ Left(d) /\ Reported(d) /\ TypeOK
    BY DEF OInv, PerCall
  <2> QED
    BY <2>1 DEF JoinWatchdogThread, TypeOK, Operations, Finishes, Requests, Stage, Finishing,
       Owned, Written, Left, Reported, Early, IsSync, IsAsync, IsEvent, HasCallback, Freed,
       callVars, wdVars, mapVars, pauseVars
<1>3. Threads'
  BY DEF OInv, PerCall, JoinWatchdogThread, TypeOK, Threads, Inside, Finishing, Dying, callVars,
     wdVars, mapVars, pauseVars
<1> QED
  BY <1>1, <1>2, <1>3 DEF OInv

\* Time passes.
LEMMA TickStep ==
  ASSUME OInv, Tick
  PROVE  OInv'
<1>0. /\ op' \in [Calls -> Operations]
      /\ \A d \in Calls : op'[d].async = op[d].async /\ op'[d].ctx = op[d].ctx
  <2>1. \A d \in Calls : op[d] \in Operations
    BY DEF OInv, TypeOK
  <2>2. \A d \in Calls : LET o == [op[d] EXCEPT !.deadline = Aged(@)]
                         IN  o \in Operations /\ o.async = op[d].async /\ o.ctx = op[d].ctx
    BY <2>1 DEF Operations, Ticks, NoDeadline, Aged
  <2> QED
    BY <2>1, <2>2 DEF Tick
<1>1. TypeOK'
  BY SMTT(60), <1>0 DEF OInv, Tick, Aged, TypeOK, PcLabels, Codes, Ticks, Operations, Finishes,
     Outcomes, NoDeadline, callVars, wdVars, mapVars, pauseVars
<1>2. PerCall'
  <2> SUFFICES ASSUME NEW d \in Calls
               PROVE  (Stage(d) /\ Owned(d) /\ Written(d) /\ Left(d) /\ Reported(d))'
    BY DEF PerCall
  <2>1. Stage(d) /\ Owned(d) /\ Written(d) /\ Left(d) /\ Reported(d) /\ TypeOK
    BY DEF OInv, PerCall
  <2> QED
    BY SMTT(60), <2>1, <1>0 DEF Tick, Aged, TypeOK, Operations, Finishes, Requests, Stage,
       Finishing, Owned, Written, Left, Reported, Early, IsSync, IsAsync, IsEvent, HasCallback,
       Freed, callVars, wdVars, mapVars, pauseVars
<1>3. Threads'
  BY <1>0 DEF OInv, PerCall, Tick, Aged, TypeOK, Threads, Inside, Finishing, Dying, callVars,
     wdVars, mapVars, pauseVars
<1> QED
  BY <1>1, <1>2, <1>3 DEF OInv

\* Nothing changes.
LEMMA StutterStep ==
  ASSUME OInv, UNCHANGED vars
  PROVE  OInv'
<1>1. TypeOK'
  BY DEF OInv, vars, TypeOK, PcLabels, Codes, Ticks, Operations, Finishes, Outcomes, NoDeadline,
     callVars, wdVars, mapVars, pauseVars
<1>2. PerCall'
  <2> SUFFICES ASSUME NEW d \in Calls
               PROVE  (Stage(d) /\ Owned(d) /\ Written(d) /\ Left(d) /\ Reported(d))'
    BY DEF PerCall
  <2>1. Stage(d) /\ Owned(d) /\ Written(d) /\ Left(d) /\ Reported(d) /\ TypeOK
    BY DEF OInv, PerCall
  <2> QED
    BY <2>1 DEF vars, TypeOK, Operations, Finishes, Requests, Stage, Finishing, Owned, Written,
       Left, Reported, Early, IsSync, IsAsync, IsEvent, HasCallback, Freed, callVars, wdVars,
       mapVars, pauseVars
<1>3. Threads'
  BY DEF OInv, PerCall, vars, TypeOK, Threads, Inside, Finishing, Dying, callVars, wdVars, mapVars,
     pauseVars
<1> QED
  BY <1>1, <1>2, <1>3 DEF OInv

-----------------------------------------------------------------------------
(* FinishAsyncInvoke in the first layer *)

\* Thread t claims the operation of c, and stores a result and an answer in it.
ClaimedBy(c, t) ==
  /\ Found(c) /\ inMap' = inMap \ {c}
  /\ \E r \in Codes, k \in Answers \cup {NoAnswer} :
       /\ op' = [op EXCEPT ![c].result = r, ![c].answer = k]
       /\ fin' = [fin EXCEPT ![c] = [pc |-> "context", by |-> t, res |-> r, ctx |-> FALSE,
                                     at |-> IF pc[c] \in Registering THEN pc[c] ELSE "none"]]

\* Nobody claims anything.
NotClaimed == UNCHANGED <<inMap, fin, op>>

\* FinishAsyncInvoke claims the operation or does nothing.
LEMMA FinishClaims ==
  ASSUME TypeOK, NEW c \in Calls, NEW r \in Codes, NEW k \in Answers \cup {NoAnswer}, NEW t,
         FinishAsyncInvoke(c, r, k, t)
  PROVE  /\ ClaimedBy(c, t) \/ (~Found(c) /\ NotClaimed)
         /\ count' \in Nat
<1>1. CASE ~Found(c)
  BY <1>1 DEF FinishAsyncInvoke, NotClaimed, TypeOK
<1>2. CASE Found(c)
  <2>1. PICK l \in Answers \cup {NoAnswer} :
          op' = [op EXCEPT ![c].result = r, ![c].answer = l]
    <3>1. op[c].answer \in Answers \cup {NoAnswer}
      BY DEF TypeOK, Operations
    <3> QED
      BY <1>2, <3>1 DEF FinishAsyncInvoke
  <2>2. /\ inMap' = inMap \ {c} /\ count' = ReleaseDeadline(c)
        /\ fin' = [fin EXCEPT ![c] = [pc |-> "context", by |-> t, res |-> r, ctx |-> FALSE,
                                      at |-> IF pc[c] \in Registering THEN pc[c] ELSE "none"]]
    BY <1>2 DEF FinishAsyncInvoke
  <2>3. count' \in Nat
    BY <2>2 DEF ReleaseDeadline, TypeOK
  <2> QED
    BY <1>2, <2>1, <2>2, <2>3 DEF ClaimedBy
<1> QED
  BY <1>1, <1>2

\* What a claim leaves of each operation, and of its place in FinishAsyncInvoke.
LEMMA ClaimWrites ==
  ASSUME TypeOK, NEW c \in Calls, NEW t, ClaimedBy(c, t)
  PROVE  /\ \A d \in Calls \ {c} : op'[d] = op[d] /\ fin'[d] = fin[d]
         /\ op'[c].async = op[c].async /\ op'[c].ctx = op[c].ctx
         /\ op'[c].stamp = op[c].stamp /\ op'[c].deadline = op[c].deadline
         /\ fin'[c].pc = "context" /\ fin'[c].by = t
         /\ fin'[c].at = IF pc[c] \in Registering THEN pc[c] ELSE "none"
  BY DEF ClaimedBy, TypeOK, Operations

\* Its variables keep their types, and no other mark of an operation changes.
LEMMA ClaimType ==
  ASSUME TypeOK, NEW c \in Calls, NEW t \in Calls \cup {"receiver", "watchdog", "pauser"},
         ClaimedBy(c, t) \/ NotClaimed
  PROVE  /\ inMap' \subseteq inMap /\ inMap' \subseteq Calls
         /\ \A d \in Calls : op'[d].async = op[d].async
         /\ op' \in [Calls -> Operations] /\ fin' \in [Calls -> Finishes]
<1>1. CASE NotClaimed
  BY <1>1 DEF NotClaimed, TypeOK
<1>2. CASE ClaimedBy(c, t)
  <2>1. PICK r \in Codes, k \in Answers \cup {NoAnswer} :
          /\ op' = [op EXCEPT ![c].result = r, ![c].answer = k]
          /\ fin' = [fin EXCEPT ![c] = [pc |-> "context", by |-> t, res |-> r, ctx |-> FALSE,
                                        at |-> IF pc[c] \in Registering THEN pc[c] ELSE "none"]]
    BY <1>2 DEF ClaimedBy
  <2>2. fin' \in [Calls -> Finishes]
    BY <2>1 DEF TypeOK, Finishes
  <2>3. op[c] \in Operations /\ op' \in [Calls -> Operations]
    <3>1. op[c] \in Operations
      BY DEF TypeOK
    <3>2. [op[c] EXCEPT !.result = r, !.answer = k] \in Operations
      BY <3>1 DEF Operations
    <3> QED
      BY <2>1, <3>1, <3>2 DEF TypeOK
  <2>4. \A d \in Calls : op'[d].async = op[d].async
    BY <1>2, ClaimWrites
  <2> QED
    BY <1>2, <2>2, <2>3, <2>4 DEF ClaimedBy, TypeOK
<1> QED
  BY <1>1, <1>2

\* A step that claims at most one operation, and lets a sender whose operation is gone go
\* on, keeps what is known of each call.
LEMMA ClaimPerCall ==
  ASSUME OInv, NEW c \in Calls, NEW t \in Calls \cup {"receiver", "watchdog", "pauser"},
         ClaimedBy(c, t) \/ NotClaimed, UNCHANGED <<ask, heirs, cbs, telem>>,
         \A e \in Calls :
           \/ pc'[e] = pc[e]
           \/ pc[e] = "sent" /\ pc'[e] = "finishing" /\ IsAsync(e) /\ e \notin inMap',
         \A e \in Calls : wire'[e] = wire[e] \/ pc[e] \notin Early
  PROVE  PerCall'
<1> SUFFICES ASSUME NEW d \in Calls
             PROVE  (Stage(d) /\ Owned(d) /\ Written(d) /\ Left(d) /\ Reported(d))'
  BY DEF PerCall
<1>1. Stage(d) /\ Owned(d) /\ Written(d) /\ Left(d) /\ Reported(d) /\ TypeOK
  BY DEF OInv, PerCall
<1>2. Stage(d)'
  BY <1>1 DEF Stage, Early, IsSync, IsAsync, IsEvent
<1>3. CASE NotClaimed \/ d # c
  <2>1. /\ d \in inMap' <=> d \in inMap
        /\ fin'[d] = fin[d] /\ telem'[d] = telem[d] /\ op'[d] = op[d]
    <3>1. CASE NotClaimed
      BY <3>1 DEF NotClaimed
    <3>2. CASE ClaimedBy(c, t) /\ d # c
      <4>1. op'[d] = op[d] /\ fin'[d] = fin[d]
        BY <1>1, <3>2, ClaimWrites
      <4>2. inMap' = inMap \ {c}
        BY <3>2 DEF ClaimedBy
      <4> QED
        BY <3>2, <4>1, <4>2
    <3> QED
      BY <1>3, <3>1, <3>2
  <2> QED
    BY <1>1, <1>2, <2>1 DEF Finishing, Owned, Written, Left, Reported, IsSync, IsAsync, IsEvent,
       HasCallback, Freed
<1>4. CASE ClaimedBy(c, t) /\ d = c
  <2>0. d \in inMap /\ d \notin inMap' /\ op[d].async
    BY <1>4 DEF ClaimedBy, Found
  <2>1. /\ d \in inMap /\ d \notin inMap' /\ op[d].async
        /\ op'[d].async = op[d].async /\ op'[d].ctx = op[d].ctx /\ op'[d].stamp = op[d].stamp
        /\ fin'[d].pc = "context"
        /\ fin'[d].at = IF pc[d] \in Registering THEN pc[d] ELSE "none"
    BY <1>1, <1>4, <2>0, ClaimWrites
  <2>2. telem[d] = <<>> /\ cbs[d] = <<>> /\ IsAsync(d) /\ fin[d].pc = "none"
    BY <1>1, <2>1 DEF Reported, Owned
  <2>3. heirs[d] = {} /\ pc[d] \notin {"idle", "add", "mark"}
    BY <1>1, <2>1, <2>2 DEF Owned, Freed
  <2>4. Owned(d)'
    BY <1>1, <2>1, <2>2, <2>3 DEF Owned, IsAsync, IsEvent, Freed
  <2>5. Written(d)'
    BY <1>1, <2>1, <2>2, <2>3 DEF Written, Registering, Finishing, IsAsync
  <2> QED
    BY <1>1, <1>2, <2>1, <2>2, <2>3, <2>4, <2>5
      DEF Finishing, Left, Reported, IsSync, IsAsync, IsEvent, HasCallback, Freed
<1> QED
  BY <1>3, <1>4

\* Thread t is where it calls FinishAsyncInvoke from.
Calling(t) ==
  \/ t = "receiver" /\ ~dying
  \/ t = "watchdog" /\ wdpc = "finish"
  \/ t = "pauser" /\ ppc = "finish"
  \/ t \in Calls /\ pc[t] = "finishing"

\* A claim by a thread that is inside leaves every FinishAsyncInvoke with its thread.
LEMMA ClaimInside ==
  ASSUME OInv, NEW c \in Calls, NEW t \in Calls \cup {"receiver", "watchdog", "pauser"},
         ClaimedBy(c, t) \/ NotClaimed, Calling(t)', UNCHANGED <<dying, wdpc, ppc>>,
         \A e \in Calls : pc[e] = "finishing" => pc'[e] = "finishing"
  PROVE  \A e \in Calls : Inside(e)'
<1> SUFFICES ASSUME NEW e \in Calls PROVE Inside(e)'
  OBVIOUS
<1>1. Inside(e) /\ TypeOK
  BY DEF OInv, Threads
<1>2. CASE NotClaimed \/ e # c
  <2>1. fin'[e] = fin[e]
    BY <1>1, <1>2, ClaimWrites DEF NotClaimed
  <2> QED
    BY <1>1, <2>1 DEF Inside
<1>3. CASE ClaimedBy(c, t) /\ e = c
  <2>1. fin'[e].by = t
    BY <1>1, <1>3, ClaimWrites
  <2> QED
    BY <2>1 DEF Inside, Finishing, Calling
<1> QED
  BY <1>2, <1>3

\* SendInvokeAsync finishes the operation itself.
LEMMA FinishAfterSendStep ==
  ASSUME NEW c \in Calls, OInv, FinishAfterSend(c)
  PROVE  OInv'
<1>1. PICK d \in {c} \cup heirs[c] : FinishAsyncInvoke(d, res[c], NoAnswer, c)
  BY DEF FinishAfterSend
<1>2. d \in Calls /\ TypeOK /\ res[c] \in Codes
  BY <1>1 DEF OInv, TypeOK
<1>3. (ClaimedBy(d, c) \/ (~Found(d) /\ NotClaimed)) /\ count' \in Nat
  BY <1>1, <1>2, FinishClaims
<1>4. /\ pc[c] = "sent" /\ IsAsync(c) /\ pc' = [pc EXCEPT ![c] = "finishing"]
      /\ UNCHANGED <<ask, res, until, wire, wdVars, pauseVars, cbs, heirs, telem>>
  BY DEF FinishAfterSend, Goto
<1>5. /\ inMap' \subseteq inMap /\ inMap' \subseteq Calls
      /\ \A e \in Calls : op'[e].async = op[e].async
      /\ op' \in [Calls -> Operations] /\ fin' \in [Calls -> Finishes]
  BY <1>2, <1>3, ClaimType
<1>6. c \notin inMap'
  <2>1. c \in inMap => op[c].async /\ ~Freed(c)
    BY <1>4 DEF OInv, PerCall, Owned, Freed
  <2>2. heirs[c] # {} => Freed(c)
    BY DEF OInv, PerCall, Owned
  <2> QED
    BY <1>3, <1>5, <2>1, <2>2 DEF ClaimedBy, Found, NotClaimed
<1>7. TypeOK'
  BY ZenonT(60), <1>2, <1>3, <1>4, <1>5 DEF TypeOK, PcLabels, wdVars, pauseVars
<1>8. PerCall'
  BY <1>2, <1>3, <1>4, <1>6, ClaimPerCall DEF TypeOK
<1>9. Threads'
  <2>1. ~dying
    BY <1>4 DEF OInv, Threads, Dying
  <2>2. \A e \in Calls : Inside(e)'
    BY <1>2, <1>3, <1>4, ClaimInside DEF Calling, TypeOK, wdVars, pauseVars
  <2> QED
    BY <1>4, <2>1, <2>2 DEF OInv, Threads, Dying, wdVars, pauseVars
<1> QED
  BY <1>7, <1>8, <1>9 DEF OInv

\* The receiver completes an operation.
LEMMA CompletePendingOperationStep ==
  ASSUME NEW c \in Calls, NEW k \in Answers, OInv, CompletePendingOperation(c, k)
  PROVE  OInv'
<1>1. /\ wire[c] = "sent" /\ ~IsEvent(c) /\ ~dying /\ wire' = [wire EXCEPT ![c] = k]
      /\ UNCHANGED <<ask, pc, res, until, wdVars, pauseVars, cbs, heirs, telem>>
  BY DEF CompletePendingOperation
<1>2. TypeOK /\ pc[c] \notin Early
  BY <1>1 DEF OInv, PerCall, Stage
<1>3. RoseResult[k] \in Codes
  BY CallsAssumption DEF RoseResult, Codes
<1>4. CASE c \in inMap /\ ~op[c].async
  <2>1. /\ CompleteOperation({c}, RoseResult[k], k)
        /\ UNCHANGED <<inMap, count, fin>>
    BY <1>4 DEF CompletePendingOperation
  <2>2. op[c] \in Operations
    BY <1>2 DEF TypeOK
  <2>3. LET o == [op[c] EXCEPT !.result = RoseResult[k], !.signaled = TRUE,
                               !.answer = IF k = NoAnswer THEN @ ELSE k]
        IN  /\ o \in Operations /\ o.async = op[c].async /\ o.ctx = op[c].ctx
            /\ o.stamp = op[c].stamp
    BY <1>3, <2>2 DEF Operations
  <2>4. /\ op' \in [Calls -> Operations]
        /\ \A d \in Calls : /\ op'[d].async = op[d].async /\ op'[d].ctx = op[d].ctx
                         /\ op'[d].stamp = op[d].stamp
    BY <1>2, <2>1, <2>3 DEF CompleteOperation, TypeOK
  <2>5. TypeOK'
    BY <1>1, <1>2, <2>1, <2>4 DEF TypeOK, wdVars, pauseVars
  <2>6. PerCall'
    <3> SUFFICES ASSUME NEW d \in Calls
                 PROVE  (Stage(d) /\ Owned(d) /\ Written(d) /\ Left(d) /\ Reported(d))'
      BY DEF PerCall
    <3>1. Stage(d) /\ Owned(d) /\ Written(d) /\ Left(d) /\ Reported(d)
      BY DEF OInv, PerCall
    <3>2. Stage(d)'
      BY <1>1, <1>2, <3>1 DEF Stage, Early, IsSync, IsAsync, IsEvent, TypeOK
    <3> QED
      BY <1>1, <2>1, <2>4, <3>1, <3>2
        DEF Finishing, Owned, Written, Left, Reported, IsSync, IsAsync, IsEvent, HasCallback, Freed
  <2>7. Threads'
    BY <1>1, <1>2, <2>1, <2>4 DEF OInv, Threads, Inside, Finishing, Dying, TypeOK, wdVars, pauseVars
  <2> QED
    BY <2>5, <2>6, <2>7 DEF OInv
<1>5. CASE ~(c \in inMap /\ ~op[c].async)
  <2>1. FinishAsyncInvoke(c, RoseResult[k], k, "receiver")
    BY <1>5 DEF CompletePendingOperation
  <2>2. (ClaimedBy(c, "receiver") \/ NotClaimed) /\ count' \in Nat
    BY <1>2, <1>3, <2>1, FinishClaims
  <2>3. /\ inMap' \subseteq inMap /\ inMap' \subseteq Calls
      /\ \A d \in Calls : op'[d].async = op[d].async
        /\ op' \in [Calls -> Operations] /\ fin' \in [Calls -> Finishes]
    BY <1>2, <2>2, ClaimType
  <2>4. TypeOK'
    BY <1>1, <1>2, <2>2, <2>3 DEF TypeOK, wdVars, pauseVars
  <2>5. PerCall'
    BY <1>1, <1>2, <2>2, ClaimPerCall DEF TypeOK
  <2>6. \A e \in Calls : Inside(e)'
    BY <1>1, <2>2, ClaimInside DEF Calling, wdVars, pauseVars
  <2>7. Threads'
    BY <1>1, <2>3, <2>6 DEF OInv, Threads, Dying, wdVars, pauseVars
  <2> QED
    BY <2>4, <2>5, <2>7 DEF OInv
<1> QED
  BY <1>4, <1>5

\* The watchdog times an operation out.
LEMMA WatchdogFinishStep ==
  ASSUME NEW c \in Calls, OInv, WatchdogFinish(c)
  PROVE  OInv'
<1>1. /\ wdpc = "finish" /\ wdList' = wdList \ {c}
      /\ FinishAsyncInvoke(c, "TIMEOUT", NoAnswer, "watchdog")
      /\ UNCHANGED <<callVars, wdpc, wdNext, stopReq, running, pauseVars, cbs, heirs, telem>>
  BY DEF WatchdogFinish
<1>2. TypeOK /\ "TIMEOUT" \in Codes
  BY DEF OInv, Codes
<1>3. (ClaimedBy(c, "watchdog") \/ NotClaimed) /\ count' \in Nat
  BY <1>1, <1>2, FinishClaims
<1>4. /\ inMap' \subseteq inMap /\ inMap' \subseteq Calls
      /\ \A d \in Calls : op'[d].async = op[d].async
      /\ op' \in [Calls -> Operations] /\ fin' \in [Calls -> Finishes]
  BY <1>2, <1>3, ClaimType
<1>5. TypeOK'
  BY <1>1, <1>2, <1>3, <1>4 DEF TypeOK, callVars, pauseVars
<1>6. PerCall'
  BY <1>1, <1>3, ClaimPerCall DEF callVars
<1>7. \A e \in Calls : Inside(e)'
  BY <1>1, <1>3, ClaimInside DEF Calling, callVars, pauseVars
<1>8. Threads'
  BY <1>1, <1>4, <1>7 DEF OInv, Threads, Dying, callVars, pauseVars
<1> QED
  BY <1>5, <1>6, <1>8 DEF OInv

\* A pause completes an asynchronous operation.
LEMMA PauseFinishStep ==
  ASSUME NEW c \in Calls, OInv, PauseFinish(c)
  PROVE  OInv'
<1>1. /\ ppc = "finish" /\ plist' = plist \ {c}
      /\ FinishAsyncInvoke(c, "SHUTDOWN", NoAnswer, "pauser")
      /\ UNCHANGED <<callVars, wdVars, gate, ppc, dying, pauses, shut, cbs, heirs, telem>>
  BY DEF PauseFinish
<1>2. TypeOK /\ "SHUTDOWN" \in Codes
  BY DEF OInv, Codes
<1>3. (ClaimedBy(c, "pauser") \/ (~Found(c) /\ NotClaimed)) /\ count' \in Nat
  BY <1>1, <1>2, FinishClaims
<1>4. /\ inMap' \subseteq inMap /\ inMap' \subseteq Calls
      /\ \A d \in Calls : op'[d].async = op[d].async
      /\ op' \in [Calls -> Operations] /\ fin' \in [Calls -> Finishes]
  BY <1>2, <1>3, ClaimType
<1>5. TypeOK'
  BY <1>1, <1>2, <1>3, <1>4 DEF TypeOK, callVars, wdVars
<1>6. PerCall'
  BY <1>1, <1>3, ClaimPerCall DEF callVars
<1>7. \A e \in Calls : Inside(e)'
  BY <1>1, <1>3, ClaimInside DEF Calling, callVars, wdVars
<1>8. ~(c \in inMap' /\ op[c].async)
  BY <1>3 DEF ClaimedBy, NotClaimed, Found
<1>9. Threads'
  BY <1>1, <1>4, <1>7, <1>8 DEF OInv, Threads, Dying, callVars, wdVars
<1> QED
  BY <1>5, <1>6, <1>9 DEF OInv

\* The first layer holds before the first call.
LEMMA InitOInv == Init => OInv
<1> SUFFICES ASSUME Init PROVE OInv
  OBVIOUS
<1>1. TypeOK
  <2>1. ask \in [Calls -> Requests]
    BY CallsAssumption DEF Init
  <2>2. NewOp \in Operations /\ NotFinishing \in Finishes /\ NoDeadline \in Ticks
    BY DEF NewOp, NotFinishing, Operations, Finishes, Codes, Ticks, NoDeadline
  <2>3. op \in [Calls -> Operations] /\ fin \in [Calls -> Finishes] /\ until \in [Calls -> Ticks]
    BY <2>2 DEF Init
  <2>4. gate \in BOOLEAN /\ dying \in BOOLEAN /\ stopReq \in BOOLEAN /\ running \in BOOLEAN
    BY Zenon DEF Init
  <2>5. cbs \in [Calls -> Seq(Codes)] /\ telem \in [Calls -> Seq(Outcomes)]
    BY DEF Init
  <2>6. pc \in [Calls -> PcLabels] /\ res \in [Calls -> Codes]
    BY DEF Init, PcLabels, Codes
  <2> QED
    BY <2>1, <2>2, <2>3, <2>4, <2>5, <2>6 DEF Init, TypeOK
<1>2. PerCall
  BY DEF Init, PerCall, Stage, Finishing, Owned, Written, Left, Reported, NewOp, NotFinishing,
     HasCallback
<1>3. Threads
  BY DEF Init, Threads, Inside, Finishing, Dying, NotFinishing
<1> QED
  BY <1>1, <1>2, <1>3 DEF OInv

\* The first layer is inductive.
LEMMA OInvStep == OInv /\ [Next]_vars => OInv'
<1> SUFFICES ASSUME OInv, [Next]_vars PROVE OInv'
  OBVIOUS
<1>1. ASSUME NEW c \in Calls, CallStep(c) PROVE OInv'
  BY <1>1, AddPendingOperationStep, SendStep, EventSentStep, SkipWaitStep, StartWaitStep,
     WaitCompletedStep, WaitTimedOutStep, ReadCompletionStep, RecordTimeoutStep, HandleAnswerStep,
     ReportCallStep, RemovePendingOperationStep, MarkAsyncStep, StoreContextStep,
     StampTelemetryStep, ArmDeadlineStep, CountDeadlineStep, EnsureWatchdogRunningStep,
     NotifyReadStep, NotifyStopStep, FinishAfterSendStep, ReturnAsyncStep, Zenon DEF CallStep
<1>2. ASSUME NEW c \in Calls, FinishStep(c) PROVE OInv'
  BY <1>2, FinishContextStep, FinishReportStep, FinishReadStep, FinishStopStep, FinishCallbackStep,
     Zenon DEF FinishStep
<1>3. ASSUME WatchdogStep PROVE OInv'
  BY <1>3, WatchdogScanStep, WatchdogStopSeenStep, WatchdogWorkSeenStep, WatchdogDeadlineStep,
     ProcessAsyncTimeoutsStep, WatchdogFinishStep, WatchdogLoopStep, WatchdogExitStep, Zenon
     DEF WatchdogStep
<1>4. ASSUME PauseStep PROVE OInv'
  BY <1>4, CompleteAllPendingOperationsStep, PauseFinishStep, PauseReturnStep,
     StopWatchdogThreadStep, JoinWatchdogThreadStep, Zenon DEF PauseStep
<1>5. ASSUME NEW c \in Calls, RefuseShutdown(c) \/ RefuseBlocked(c) PROVE OInv'
  BY <1>5, RefuseStep DEF RefuseShutdown, RefuseBlocked
<1>6. CASE UNCHANGED vars
  BY <1>6, StutterStep
<1> QED
  BY <1>1, <1>2, <1>3, <1>4, <1>5, <1>6, PassGateStep, CompletePendingOperationStep,
     PauseRoseProcessingStep, DestroyStep, ResumeRoseProcessingStep, TickStep, Zenon DEF Next

\* It holds in every behaviour.
LEMMA OInvInvariant == Spec => []OInv
  BY InitOInv, OInvStep, PTL DEF Spec

-----------------------------------------------------------------------------
(* The second layer is inductive *)

\* What the peer may answer.
LEMMA AnswerKinds ==
  ASSUME NEW k \in Answers
  PROVE  k \in {"result", "error", "reject", "garbled"}
<1>1. DOMAIN RoseResult = {"result", "error", "reject", "garbled"}
  BY DEF RoseResult
<1>2. Answers \subseteq DOMAIN RoseResult
  BY CallsAssumption
<1> QED
  BY <1>1, <1>2

\* A reason stays one: answers are not taken back, time that is up stays up, and a pause
\* that was made was made.
LEMMA ExplainedStays ==
  ASSUME NEW c \in Calls, NEW r \in Codes, Explained(c, r), TypeOK, ask' = ask, Paused => Paused',
         \/ wire'[c] = wire[c] \/ wire[c] = "sent"
         \/ wire[c] = "none" /\ r # "TRANSPORTFAILED",
         r = "TIMEOUT" /\ IsAsync(c) /\ op[c].deadline = 0 => op'[c].deadline = 0,
         r = "TIMEOUT" /\ ~IsAsync(c) /\ until[c] = 0 => until'[c] = 0
  PROVE  Explained(c, r)'
<1>1. CASE r \in {"NOERROR", "ERROR_VALUE", "REJECT", "DECODE_FAILED"}
  BY <1>1 DEF Explained
<1>2. CASE r \in {"TRANSPORTFAILED", "REMOTENOTCAPABLE"}
  BY <1>2 DEF Explained
<1>3. CASE r = "SHUTDOWN"
  BY <1>3 DEF Explained, Paused
<1>4. CASE r = "TIMEOUT"
  BY <1>4 DEF Explained, IsAsync
<1> QED
  BY <1>1, <1>2, <1>3, <1>4 DEF Codes

\* What FinishAsyncInvoke computes is a result code.
LEMMA FinalType ==
  ASSUME TypeOK, NEW c \in Calls
  PROVE  Final(c) \in Codes
<1>1. op[c].result \in Codes /\ op[c].answer \in Answers \cup {NoAnswer}
  BY DEF TypeOK, Operations
<1> QED
  BY <1>1, HandleInvokeResultType DEF Final

\* What the callback of c is told stays true.
LEMMA AsyncStays ==
  ASSUME NEW c \in Calls, TypeOK, Stage(c), Owned(c), Reported(c), AsyncReason(c),
         ask' = ask, Paused => Paused',
         fin'[c].res = fin[c].res,
         \/ fin'[c].pc = fin[c].pc
         \/ {fin[c].pc, fin'[c].pc} \cap {"none", "context", "report"} = {},
         cbs'[c] = cbs[c], IsAsync(c) => telem'[c] = telem[c],
         fin[c].pc # "none" => /\ op'[c].answer = op[c].answer /\ op'[c].result = op[c].result
                               /\ op[c].ctx => op'[c].ctx,
         op[c].async => op'[c].async, op[c].deadline = 0 => op'[c].deadline = 0,
         wire'[c] = wire[c] \/ wire[c] = "sent" \/ pc[c] = "send",
         c \in inMap' => c \in inMap \/ pc[c] = "add",
         c \in wdList' => c \in wdList \/ (op'[c].async /\ op'[c].deadline = 0),
         pc'[c] \in {"idle", "add", "mark", "context", "stamp", "arm"} => op'[c].deadline = NoDeadline,
         pc'[c] = "idle" => pc[c] = "idle",
         pc[c] \in {"finishing", "returned"} => pc'[c] \in {"finishing", "returned"}
  PROVE  AsyncReason(c)'
<1>1. ASSUME NEW r \in Codes, Told(c, r), pc[c] \notin {"idle", "add"}, IsAsync(c)
      PROVE  Told(c, r)'
  <2>1. Explained(c, r)'
    BY <1>1, ExplainedStays DEF Told, Stage, Early, IsAsync
  <2> QED
    BY <1>1, <2>1 DEF Told
<1>2. ASSUME fin'[c].pc # "none", HasCallback(c)' PROVE Promised(c)'
  <2>1. /\ fin[c].pc # "none" /\ Promised(c) /\ pc[c] \notin {"idle", "add"} /\ IsAsync(c)
        /\ telem'[c] = telem[c]
    BY <1>2 DEF AsyncReason, Owned, HasCallback, IsAsync
  <2>2. /\ op'[c].answer = op[c].answer /\ op'[c].result = op[c].result
        /\ op[c].ctx => op'[c].ctx
    BY <2>1
  <2>3. Final(c)' = Final(c) /\ Settled(c)'
    BY <2>1, <2>2 DEF Final, Settled, Promised
  <2>4. PICK r \in Codes : r = Final(c)
    BY FinalType
  <2>5. Told(c, r)'
    BY <1>1, <2>1, <2>4 DEF Promised
  <2>6. Told(c, Final(c))'
    BY <2>3, <2>4, <2>5 DEF Told, Explained
  <2>7. (fin[c].res = IF fin[c].pc = "context" THEN op[c].result ELSE Final(c))'
    BY <2>1, <2>2, <2>3 DEF Promised
  <2>8. (fin[c].pc \notin {"context", "report"} /\ telem[c] # <<>> =>
           telem[c] = <<OutcomeOf(Final(c))>>)'
    BY <2>1, <2>3 DEF Promised, OutcomeOf
  <2> QED
    BY <2>3, <2>6, <2>7, <2>8 DEF Promised
<1>3. ASSUME cbs'[c] # <<>>
      PROVE  /\ Told(c, cbs[c][1])' /\ pc'[c] # "idle"
             /\ telem'[c] # <<>> => telem'[c] = <<OutcomeOf(cbs'[c][1])>>
  <2>1. /\ cbs[c][1] \in Codes /\ Told(c, cbs[c][1]) /\ pc[c] \notin {"idle", "add"} /\ IsAsync(c)
        /\ telem[c] # <<>> => telem[c] = <<OutcomeOf(cbs[c][1])>>
    BY <1>3 DEF AsyncReason, Reported, TypeOK
  <2>2. PICK r \in Codes : r = cbs[c][1]
    BY <2>1
  <2>3. Told(c, r)'
    BY <1>1, <2>1, <2>2
  <2>4. Told(c, cbs[c][1])'
    BY <2>2, <2>3 DEF Told, Explained
  <2> QED
    BY <2>1, <2>4
<1> QED
  BY <1>2, <1>3 DEF AsyncReason, OutcomeOf

\* What the synchronous call c is told stays true while it does not move.
LEMMA SyncStays ==
  ASSUME NEW c \in Calls, TypeOK, Stage(c), SyncReason(c), ask' = ask, Paused => Paused',
         pc'[c] = pc[c], res'[c] = res[c], op'[c].answer = op[c].answer,
         op'[c].result = op[c].result, op'[c].signaled = op[c].signaled,
         until[c] = 0 => until'[c] = 0,
         wire'[c] = wire[c] \/ (wire[c] = "sent" /\ op[c].answer = NoAnswer)
  PROVE  SyncReason(c)'
<1>1. ASSUME pc[c] \in {"finish", "telemetry", "remove", "returned"}, IsSync(c), Explained(c, res[c])
      PROVE  Explained(c, res[c])'
  <2>1. PICK r \in Codes : r = res[c]
    BY DEF TypeOK
  <2>2. Explained(c, r)'
    BY <1>1, <2>1, ExplainedStays DEF IsSync, IsAsync
  <2> QED
    BY <2>1, <2>2 DEF Explained
<1> QED
  BY <1>1 DEF SyncReason, Stage, IsSync

\* A call passes the gate.
LEMMA PassGateReason ==
  ASSUME NEW c \in Calls, OInv, Reasons, ~Reuse, PassGate(c)
  PROVE  Reasons'
<1>1. (~gate \/ ppc \in {"complete", "finish"} => Paused)'
  BY DEF Reasons, Paused, OInv, TypeOK, PassGate, Goto, callVars, wdVars, mapVars, pauseVars
<1>2. ASSUME NEW d \in Calls PROVE (heirs[d] = {} /\ AsyncReason(d) /\ SyncReason(d))'
  <2>1. /\ heirs[d] = {} /\ AsyncReason(d) /\ SyncReason(d) /\ TypeOK
        /\ Stage(d) /\ Owned(d) /\ Reported(d)
    BY DEF Reasons, OInv, PerCall
  <2>2. pc[d] \in {"idle", "add", "mark", "context", "stamp", "arm"} => op[d].deadline = NoDeadline
    BY <2>1 DEF AsyncReason
  <2>3. heirs'[d] = {}
    BY <2>1 DEF PassGate, Goto, callVars, wdVars, mapVars, pauseVars
  <2>4. AsyncReason(d)'
    BY <2>1, <2>2, AsyncStays DEF PassGate, Goto, Paused, Owned, IsAsync, IsSync, IsEvent,
       NoDeadline, TypeOK, callVars, wdVars, mapVars, pauseVars
  <2>5. SyncReason(d)'
    <3>1. CASE d # c
      BY <2>1, <2>2, <3>1, SyncStays DEF PassGate, Goto, Paused, TypeOK, callVars, wdVars,
         mapVars, pauseVars
    <3>2. CASE d = c
      BY <2>1, <2>2, <3>2 DEF PassGate, Goto, SyncReason, Explained, TransportErrors, Paused,
         IsSync, IsAsync, IsEvent, NoAnswer, Stage, Early, TypeOK, Operations, callVars, wdVars,
         mapVars, pauseVars
    <3> QED
      BY <3>1, <3>2
  <2> QED
    BY <2>3, <2>4, <2>5
<1> QED
  BY <1>1, <1>2 DEF Reasons

\* The operation enters the map.
LEMMA AddPendingOperationReason ==
  ASSUME NEW c \in Calls, OInv, Reasons, ~Reuse, AddPendingOperation(c)
  PROVE  Reasons'
<1>1. (~gate \/ ppc \in {"complete", "finish"} => Paused)'
  BY DEF Reasons, Paused, OInv, TypeOK, AddPendingOperation, Goto, NewOp, callVars, wdVars,
     mapVars, pauseVars
<1>2. ASSUME NEW d \in Calls PROVE (heirs[d] = {} /\ AsyncReason(d) /\ SyncReason(d))'
  <2>1. /\ heirs[d] = {} /\ AsyncReason(d) /\ SyncReason(d) /\ TypeOK
        /\ Stage(d) /\ Owned(d) /\ Reported(d)
    BY DEF Reasons, OInv, PerCall
  <2>2. pc[d] \in {"idle", "add", "mark", "context", "stamp", "arm"} => op[d].deadline = NoDeadline
    BY <2>1 DEF AsyncReason
  <2>3. heirs'[d] = {}
    BY <2>1 DEF AddPendingOperation, Goto, NewOp, callVars, wdVars, mapVars, pauseVars
  <2>4. AsyncReason(d)'
    BY <2>1, <2>2, AsyncStays DEF AddPendingOperation, Goto, NewOp, Paused, Owned, IsAsync,
       IsSync, IsEvent, NoDeadline, TypeOK, callVars, wdVars, mapVars, pauseVars
  <2>5. SyncReason(d)'
    <3>1. CASE d # c
      BY <2>1, <2>2, <3>1, SyncStays DEF AddPendingOperation, Goto, NewOp, Paused, TypeOK,
         callVars, wdVars, mapVars, pauseVars
    <3>2. CASE d = c
      BY <2>1, <2>2, <3>2 DEF AddPendingOperation, Goto, NewOp, SyncReason, Explained,
         TransportErrors, Paused, IsSync, IsAsync, IsEvent, NoAnswer, Stage, Early, TypeOK,
         Operations, callVars, wdVars, mapVars, pauseVars
    <3> QED
      BY <3>1, <3>2
  <2> QED
    BY <2>3, <2>4, <2>5
<1> QED
  BY <1>1, <1>2 DEF Reasons

\* The transport call.
LEMMA SendReason ==
  ASSUME NEW c \in Calls, NEW o \in SendOutcomes, OInv, Reasons, ~Reuse, Send(c, o)
  PROVE  Reasons'
<1>1. (~gate \/ ppc \in {"complete", "finish"} => Paused)'
  BY DEF Reasons, Paused, OInv, TypeOK, Send, Goto, callVars, wdVars, mapVars, pauseVars
<1>2. ASSUME NEW d \in Calls PROVE (heirs[d] = {} /\ AsyncReason(d) /\ SyncReason(d))'
  <2>1. /\ heirs[d] = {} /\ AsyncReason(d) /\ SyncReason(d) /\ TypeOK
        /\ Stage(d) /\ Owned(d) /\ Reported(d)
    BY DEF Reasons, OInv, PerCall
  <2>2. pc[d] \in {"idle", "add", "mark", "context", "stamp", "arm"} => op[d].deadline = NoDeadline
    BY <2>1 DEF AsyncReason
  <2>3. heirs'[d] = {}
    BY <2>1 DEF Send, Goto, callVars, wdVars, mapVars, pauseVars
  <2>4. AsyncReason(d)'
    BY <2>1, <2>2, AsyncStays DEF Send, Goto, Paused, Owned, IsAsync, IsSync, IsEvent, NoDeadline,
       TypeOK, callVars, wdVars, mapVars, pauseVars
  <2>5. SyncReason(d)'
    <3>1. CASE d # c
      BY <2>1, <2>2, <3>1, SyncStays DEF Send, Goto, Paused, TypeOK, callVars, wdVars, mapVars,
         pauseVars
    <3>2. CASE d = c
      BY <2>1, <2>2, <3>2 DEF Send, Goto, SyncReason, Explained, TransportErrors, Paused, IsSync,
         IsAsync, IsEvent, NoAnswer, Stage, Early, TypeOK, Operations, callVars, wdVars, mapVars,
         pauseVars
    <3> QED
      BY <3>1, <3>2
  <2> QED
    BY <2>3, <2>4, <2>5
<1> QED
  BY <1>1, <1>2 DEF Reasons

\* An event is sent.
LEMMA EventSentReason ==
  ASSUME NEW c \in Calls, OInv, Reasons, ~Reuse, EventSent(c)
  PROVE  Reasons'
<1>1. (~gate \/ ppc \in {"complete", "finish"} => Paused)'
  BY DEF Reasons, Paused, OInv, TypeOK, EventSent, Goto, Report, callVars, wdVars, mapVars,
     pauseVars
<1>2. ASSUME NEW d \in Calls PROVE (heirs[d] = {} /\ AsyncReason(d) /\ SyncReason(d))'
  <2>1. /\ heirs[d] = {} /\ AsyncReason(d) /\ SyncReason(d) /\ TypeOK
        /\ Stage(d) /\ Owned(d) /\ Reported(d)
    BY DEF Reasons, OInv, PerCall
  <2>2. pc[d] \in {"idle", "add", "mark", "context", "stamp", "arm"} => op[d].deadline = NoDeadline
    BY <2>1 DEF AsyncReason
  <2>3. heirs'[d] = {}
    BY <2>1 DEF EventSent, Goto, Report, callVars, wdVars, mapVars, pauseVars
  <2>4. AsyncReason(d)'
    BY <2>1, <2>2, AsyncStays DEF EventSent, Goto, Report, Paused, Owned, IsAsync, IsSync,
       IsEvent, NoDeadline, TypeOK, callVars, wdVars, mapVars, pauseVars
  <2>5. SyncReason(d)'
    <3>1. CASE d # c
      BY <2>1, <2>2, <3>1, SyncStays DEF EventSent, Goto, Report, Paused, TypeOK, callVars,
         wdVars, mapVars, pauseVars
    <3>2. CASE d = c
      BY <2>1, <2>2, <3>2 DEF EventSent, Goto, Report, SyncReason, Explained, TransportErrors,
         Paused, IsSync, IsAsync, IsEvent, NoAnswer, Stage, Early, TypeOK, Operations, callVars,
         wdVars, mapVars, pauseVars
    <3> QED
      BY <3>1, <3>2
  <2> QED
    BY <2>3, <2>4, <2>5
<1> QED
  BY <1>1, <1>2 DEF Reasons

\* SendInvoke does not wait.
LEMMA SkipWaitReason ==
  ASSUME NEW c \in Calls, OInv, Reasons, ~Reuse, SkipWait(c)
  PROVE  Reasons'
<1>0. \A d \in Calls : /\ op'[d].async = op[d].async /\ op'[d].ctx = op[d].ctx
                       /\ op'[d].deadline = op[d].deadline
                       /\ op'[d].answer = op[d].answer /\ op'[d].signaled = op[d].signaled
                       /\ op'[d].result = IF d = c THEN res[c] ELSE op[d].result
  BY DEF OInv, TypeOK, Operations, SkipWait, SetResult
<1>1. (~gate \/ ppc \in {"complete", "finish"} => Paused)'
  BY DEF Reasons, Paused, OInv, TypeOK, SkipWait, Goto, SetResult, callVars, wdVars, mapVars,
     pauseVars
<1>2. ASSUME NEW d \in Calls PROVE (heirs[d] = {} /\ AsyncReason(d) /\ SyncReason(d))'
  <2>1. /\ heirs[d] = {} /\ AsyncReason(d) /\ SyncReason(d) /\ TypeOK
        /\ Stage(d) /\ Owned(d) /\ Reported(d)
    BY DEF Reasons, OInv, PerCall
  <2>2. pc[d] \in {"idle", "add", "mark", "context", "stamp", "arm"} => op[d].deadline = NoDeadline
    BY <2>1 DEF AsyncReason
  <2>3. heirs'[d] = {}
    BY <2>1 DEF SkipWait, Goto, SetResult, callVars, wdVars, mapVars, pauseVars
  <2>4. AsyncReason(d)'
    <3>1. fin[d].pc # "none" => op'[d] = op[d]
      <4>1. d = c => fin[d].pc = "none"
        BY <2>1 DEF SkipWait, Stage, Owned, IsSync, IsAsync
      <4> QED
        BY <2>1, <4>1 DEF SkipWait, SetResult, TypeOK
    <3>2. /\ \A e \in Calls : e # c => pc'[e] = pc[e]
          /\ pc[c] = "sent" /\ pc'[c] = "finish"
          /\ UNCHANGED <<ask, wire, wdList, inMap, pauseVars, fin, cbs, telem>>
      BY <2>1 DEF SkipWait, Goto, TypeOK, wdVars
    <3> QED
      BY <1>0, <2>1, <2>2, <3>1, <3>2, AsyncStays DEF Paused, AsyncReason, pauseVars
  <2>5. SyncReason(d)'
    <3>1. CASE d # c
      BY <2>1, <2>2, <3>1, SyncStays, <1>0 DEF SkipWait, Goto, Paused, TypeOK, pauseVars
    <3>2. CASE d = c
      <4>1. /\ pc[c] = "sent" /\ pc'[c] = "finish" /\ IsSync(c)
            /\ UNCHANGED <<ask, res, until, wire, pauseVars>>
            /\ res[c] # "NOERROR" \/ ask[c].timeout = 0
        BY <2>1 DEF SkipWait, Goto, TypeOK
      <4>2. res[c] = "NOERROR" \/ (res[c] = "TRANSPORTFAILED" /\ wire[c] = "none")
        BY <2>1, <3>2, <4>1 DEF SyncReason
      <4>3. res[c] = "TRANSPORTFAILED" => Explained(c, res[c])'
        BY <4>1, <4>2 DEF Explained
      <4> QED
        BY <1>0, <2>1, <3>2, <4>1, <4>2, <4>3 DEF SyncReason, TransportErrors
    <3> QED
      BY <3>1, <3>2
  <2> QED
    BY <2>3, <2>4, <2>5
<1> QED
  BY <1>1, <1>2 DEF Reasons

\* SendInvoke waits.
LEMMA StartWaitReason ==
  ASSUME NEW c \in Calls, OInv, Reasons, ~Reuse, StartWait(c)
  PROVE  Reasons'
<1>1. (~gate \/ ppc \in {"complete", "finish"} => Paused)'
  BY DEF Reasons, Paused, OInv, TypeOK, StartWait, Goto, callVars, wdVars, mapVars, pauseVars
<1>2. ASSUME NEW d \in Calls PROVE (heirs[d] = {} /\ AsyncReason(d) /\ SyncReason(d))'
  <2>1. /\ heirs[d] = {} /\ AsyncReason(d) /\ SyncReason(d) /\ TypeOK
        /\ Stage(d) /\ Owned(d) /\ Reported(d)
    BY DEF Reasons, OInv, PerCall
  <2>2. pc[d] \in {"idle", "add", "mark", "context", "stamp", "arm"} => op[d].deadline = NoDeadline
    BY <2>1 DEF AsyncReason
  <2>3. heirs'[d] = {}
    BY <2>1 DEF StartWait, Goto, callVars, wdVars, mapVars, pauseVars
  <2>4. AsyncReason(d)'
    BY <2>1, <2>2, AsyncStays DEF StartWait, Goto, Paused, Owned, IsAsync, IsSync, IsEvent,
       NoDeadline, TypeOK, callVars, wdVars, mapVars, pauseVars
  <2>5. SyncReason(d)'
    <3>1. CASE d # c
      BY <2>1, <2>2, <3>1, SyncStays DEF StartWait, Goto, Paused, TypeOK, callVars, wdVars,
         mapVars, pauseVars
    <3>2. CASE d = c
      BY <2>1, <2>2, <3>2 DEF StartWait, Goto, SyncReason, Explained, TransportErrors, Paused,
         IsSync, IsAsync, IsEvent, NoAnswer, Stage, Early, TypeOK, Operations, callVars, wdVars,
         mapVars, pauseVars
    <3> QED
      BY <3>1, <3>2
  <2> QED
    BY <2>3, <2>4, <2>5
<1> QED
  BY <1>1, <1>2 DEF Reasons

\* The wait ends with the event.
LEMMA WaitCompletedReason ==
  ASSUME NEW c \in Calls, OInv, Reasons, ~Reuse, WaitCompleted(c)
  PROVE  Reasons'
<1>0. \A d \in Calls : /\ op'[d].async = op[d].async /\ op'[d].ctx = op[d].ctx
                       /\ op'[d].deadline = op[d].deadline
                       /\ op'[d].answer = op[d].answer /\ op'[d].result = op[d].result
  BY DEF OInv, TypeOK, Operations, WaitCompleted
<1>1. (~gate \/ ppc \in {"complete", "finish"} => Paused)'
  BY DEF Reasons, Paused, OInv, TypeOK, WaitCompleted, Goto, callVars, wdVars, mapVars, pauseVars
<1>2. ASSUME NEW d \in Calls PROVE (heirs[d] = {} /\ AsyncReason(d) /\ SyncReason(d))'
  <2>1. /\ heirs[d] = {} /\ AsyncReason(d) /\ SyncReason(d) /\ TypeOK
        /\ Stage(d) /\ Owned(d) /\ Reported(d)
    BY DEF Reasons, OInv, PerCall
  <2>2. pc[d] \in {"idle", "add", "mark", "context", "stamp", "arm"} => op[d].deadline = NoDeadline
    BY <2>1 DEF AsyncReason
  <2>3. heirs'[d] = {}
    BY <2>1 DEF WaitCompleted, Goto, callVars, wdVars, mapVars, pauseVars
  <2>4. AsyncReason(d)'
    <3>1. /\ \A e \in Calls : e # c => pc'[e] = pc[e]
          /\ pc[c] = "wait" /\ pc'[c] = "woke"
          /\ UNCHANGED <<ask, wire, wdList, inMap, pauseVars, fin, cbs, telem>>
      BY <2>1 DEF WaitCompleted, Goto, TypeOK, wdVars
    <3> QED
      BY <1>0, <2>1, <2>2, <3>1, AsyncStays DEF Paused, AsyncReason, pauseVars
  <2>5. SyncReason(d)'
    <3>1. CASE d # c
      BY <2>1, <2>2, <3>1, SyncStays, <1>0 DEF WaitCompleted, Goto, Paused, TypeOK, callVars,
         wdVars, mapVars, pauseVars
    <3>2. CASE d = c
      BY <2>1, <2>2, <3>2, <1>0 DEF WaitCompleted, Goto, SyncReason, Explained, TransportErrors,
         Paused, IsSync, IsAsync, IsEvent, NoAnswer, Stage, Early, TypeOK, Operations, callVars,
         wdVars, mapVars, pauseVars
    <3> QED
      BY <3>1, <3>2
  <2> QED
    BY <2>3, <2>4, <2>5
<1> QED
  BY <1>1, <1>2 DEF Reasons

\* The wait ends without it.
LEMMA WaitTimedOutReason ==
  ASSUME NEW c \in Calls, OInv, Reasons, ~Reuse, WaitTimedOut(c)
  PROVE  Reasons'
<1>1. (~gate \/ ppc \in {"complete", "finish"} => Paused)'
  BY DEF Reasons, Paused, OInv, TypeOK, WaitTimedOut, Goto, callVars, wdVars, mapVars, pauseVars
<1>2. ASSUME NEW d \in Calls PROVE (heirs[d] = {} /\ AsyncReason(d) /\ SyncReason(d))'
  <2>1. /\ heirs[d] = {} /\ AsyncReason(d) /\ SyncReason(d) /\ TypeOK
        /\ Stage(d) /\ Owned(d) /\ Reported(d)
    BY DEF Reasons, OInv, PerCall
  <2>2. pc[d] \in {"idle", "add", "mark", "context", "stamp", "arm"} => op[d].deadline = NoDeadline
    BY <2>1 DEF AsyncReason
  <2>3. heirs'[d] = {}
    BY <2>1 DEF WaitTimedOut, Goto, callVars, wdVars, mapVars, pauseVars
  <2>4. AsyncReason(d)'
    BY <2>1, <2>2, AsyncStays DEF WaitTimedOut, Goto, Paused, Owned, IsAsync, IsSync, IsEvent,
       NoDeadline, TypeOK, callVars, wdVars, mapVars, pauseVars
  <2>5. SyncReason(d)'
    <3>1. CASE d # c
      BY <2>1, <2>2, <3>1, SyncStays DEF WaitTimedOut, Goto, Paused, TypeOK, callVars, wdVars,
         mapVars, pauseVars
    <3>2. CASE d = c
      BY <2>1, <2>2, <3>2 DEF WaitTimedOut, Goto, SyncReason, Explained, TransportErrors, Paused,
         IsSync, IsAsync, IsEvent, NoAnswer, Stage, Early, TypeOK, Operations, callVars, wdVars,
         mapVars, pauseVars
    <3> QED
      BY <3>1, <3>2
  <2> QED
    BY <2>3, <2>4, <2>5
<1> QED
  BY <1>1, <1>2 DEF Reasons

\* SendInvoke reads the completion: the answer, or the shutdown that woke it.
LEMMA ReadCompletionReason ==
  ASSUME NEW c \in Calls, OInv, Reasons, ~Reuse, ReadCompletion(c)
  PROVE  Reasons'
<1>1. (~gate \/ ppc \in {"complete", "finish"} => Paused)'
  BY DEF Reasons, Paused, OInv, TypeOK, ReadCompletion, Goto, callVars, wdVars, mapVars, pauseVars
<1>2. ASSUME NEW d \in Calls PROVE (heirs[d] = {} /\ AsyncReason(d) /\ SyncReason(d))'
  <2>1. /\ heirs[d] = {} /\ AsyncReason(d) /\ SyncReason(d) /\ TypeOK
        /\ Stage(d) /\ Owned(d) /\ Reported(d)
    BY DEF Reasons, OInv, PerCall
  <2>2. pc[d] \in {"idle", "add", "mark", "context", "stamp", "arm"} => op[d].deadline = NoDeadline
    BY <2>1 DEF AsyncReason
  <2>3. heirs'[d] = {}
    BY <2>1 DEF ReadCompletion, Goto, callVars, wdVars, mapVars, pauseVars
  <2>4. AsyncReason(d)'
    BY <2>1, <2>2, AsyncStays DEF ReadCompletion, Goto, Paused, Owned, IsAsync, IsSync, IsEvent,
       NoDeadline, TypeOK, callVars, wdVars, mapVars, pauseVars
  <2>5. SyncReason(d)'
    <3>1. CASE d # c
      BY <2>1, <2>2, <3>1, SyncStays DEF ReadCompletion, Goto, Paused, TypeOK, callVars, wdVars,
         mapVars, pauseVars
    <3>2. CASE d = c
      BY ZenonT(60), <2>1, <2>2, <3>2 DEF ReadCompletion, Goto, SyncReason, Explained,
         TransportErrors, Paused, IsSync, IsAsync, IsEvent, NoAnswer, Stage, Early, TypeOK,
         Operations, callVars, wdVars, mapVars, pauseVars
    <3> QED
      BY <3>1, <3>2
  <2> QED
    BY <2>3, <2>4, <2>5
<1> QED
  BY <1>1, <1>2 DEF Reasons

\* SendInvoke records the timeout: the whole time passed.
LEMMA RecordTimeoutReason ==
  ASSUME NEW c \in Calls, OInv, Reasons, ~Reuse, RecordTimeout(c)
  PROVE  Reasons'
<1>0. \A d \in Calls : /\ op'[d].async = op[d].async /\ op'[d].ctx = op[d].ctx
                       /\ op'[d].deadline = op[d].deadline
  BY DEF OInv, TypeOK, Operations, RecordTimeout, SetResult
<1>1. (~gate \/ ppc \in {"complete", "finish"} => Paused)'
  BY DEF Reasons, Paused, OInv, TypeOK, RecordTimeout, Goto, SetResult, callVars, wdVars, mapVars,
     pauseVars
<1>2. ASSUME NEW d \in Calls PROVE (heirs[d] = {} /\ AsyncReason(d) /\ SyncReason(d))'
  <2>1. /\ heirs[d] = {} /\ AsyncReason(d) /\ SyncReason(d) /\ TypeOK
        /\ Stage(d) /\ Owned(d) /\ Reported(d)
    BY DEF Reasons, OInv, PerCall
  <2>2. pc[d] \in {"idle", "add", "mark", "context", "stamp", "arm"} => op[d].deadline = NoDeadline
    BY <2>1 DEF AsyncReason
  <2>3. heirs'[d] = {}
    BY <2>1 DEF RecordTimeout, Goto, SetResult, callVars, wdVars, mapVars, pauseVars
  <2>4. AsyncReason(d)'
    <3>1. fin[d].pc # "none" => op'[d] = op[d]
      <4>1. d = c => fin[d].pc = "none"
        BY <2>1 DEF RecordTimeout, Stage, Owned, IsSync, IsAsync
      <4> QED
        BY <2>1, <4>1 DEF RecordTimeout, SetResult, TypeOK
    <3>2. /\ \A e \in Calls : e # c => pc'[e] = pc[e]
          /\ pc[c] = "timedout" /\ pc'[c] = "finish"
          /\ UNCHANGED <<ask, wire, wdList, inMap, pauseVars, fin, cbs, telem>>
      BY <2>1 DEF RecordTimeout, Goto, TypeOK, wdVars
    <3> QED
      BY <1>0, <2>1, <2>2, <3>1, <3>2, AsyncStays DEF Paused, AsyncReason, pauseVars
  <2>5. SyncReason(d)'
    <3>1. CASE d # c
      BY <2>1, <2>2, <3>1, SyncStays, <1>0 DEF RecordTimeout, Goto, SetResult, Paused, TypeOK,
         callVars, wdVars, mapVars, pauseVars
    <3>2. CASE d = c
      BY SMTT(60), <2>1, <2>2, <3>2, <1>0 DEF RecordTimeout, Goto, SetResult, SyncReason, Explained,
         TransportErrors, Paused, IsSync, IsAsync, IsEvent, NoAnswer, Stage, Early, TypeOK,
         Operations, callVars, wdVars, mapVars, pauseVars
    <3> QED
      BY <3>1, <3>2
  <2> QED
    BY <2>3, <2>4, <2>5
<1> QED
  BY <1>1, <1>2 DEF Reasons

\* SendInvoke looks at the answer: a transport error stands, an answer is what the wire had.
LEMMA HandleAnswerReason ==
  ASSUME NEW c \in Calls, OInv, Reasons, ~Reuse, HandleAnswer(c)
  PROVE  Reasons'
<1>1. (~gate \/ ppc \in {"complete", "finish"} => Paused)'
  BY DEF Reasons, Paused, OInv, TypeOK, HandleAnswer, Goto, callVars, wdVars, mapVars, pauseVars
<1>2. ASSUME NEW d \in Calls PROVE (heirs[d] = {} /\ AsyncReason(d) /\ SyncReason(d))'
  <2>1. /\ heirs[d] = {} /\ AsyncReason(d) /\ SyncReason(d) /\ TypeOK
        /\ Stage(d) /\ Owned(d) /\ Reported(d)
    BY DEF Reasons, OInv, PerCall
  <2>2. pc[d] \in {"idle", "add", "mark", "context", "stamp", "arm"} => op[d].deadline = NoDeadline
    BY <2>1 DEF AsyncReason
  <2>3. heirs'[d] = {}
    BY <2>1 DEF HandleAnswer, Goto, callVars, wdVars, mapVars, pauseVars
  <2>4. AsyncReason(d)'
    BY <2>1, <2>2, AsyncStays DEF HandleAnswer, Goto, Paused, Owned, IsAsync, IsSync, IsEvent,
       NoDeadline, TypeOK, callVars, wdVars, mapVars, pauseVars
  <2>5. SyncReason(d)'
    <3>1. CASE d # c
      BY <2>1, <2>2, <3>1, SyncStays DEF HandleAnswer, Goto, Paused, TypeOK, callVars, wdVars,
         mapVars, pauseVars
    <3>2. CASE d = c
      <4>1. pc'[c] = "telemetry" /\ IsSync(c) /\ op' = op /\ wire' = wire /\ ask' = ask /\ until' = until
        BY <2>1 DEF HandleAnswer, Goto, TypeOK, mapVars
      <4>2. \/ res[c] \in TransportErrors /\ Explained(c, res[c]) /\ res'[c] = res[c]
            \/ op[c].answer = NoAnswer /\ ask[c].timeout = 0 /\ res'[c] = "NOERROR"
            \/ op[c].answer # NoAnswer /\ res'[c] = HandleInvokeResult("NOERROR", op[c].answer)
        BY <2>1, <3>2 DEF HandleAnswer, HandleInvokeResult, SyncReason, TypeOK
      <4>3. Explained(c, res[c])'
        <5>1. CASE res[c] \in TransportErrors /\ Explained(c, res[c]) /\ res'[c] = res[c]
          BY <4>1, <5>1 DEF HandleAnswer, Explained, TransportErrors, IsAsync, pauseVars
        <5>2. CASE op[c].answer = NoAnswer /\ ask[c].timeout = 0 /\ res'[c] = "NOERROR"
          BY <4>1, <5>2 DEF Explained
        <5>3. CASE op[c].answer # NoAnswer /\ res'[c] = HandleInvokeResult("NOERROR", op[c].answer)
          <6>1. wire[c] = op[c].answer /\ op[c].answer \in {"result", "error", "reject", "garbled"}
            <7>1. wire[c] = op[c].answer /\ op[c].answer \in Answers
              BY <2>1, <3>2, <5>3 DEF SyncReason, TypeOK, Operations
            <7>2. PICK k \in Answers : k = op[c].answer
              BY <7>1
            <7>3. k \in {"result", "error", "reject", "garbled"}
              BY <7>2, AnswerKinds
            <7> QED
              BY <7>1, <7>2, <7>3
          <6>2. <<op[c].answer, res'[c]>> \in {<<"result", "NOERROR">>, <<"error", "ERROR_VALUE">>,
                                             <<"reject", "REJECT">>, <<"garbled", "DECODE_FAILED">>}
            BY <5>3, <6>1 DEF HandleInvokeResult, RoseResult, TransportErrors
          <6> QED
            BY <4>1, <6>1, <6>2 DEF Explained
        <5> QED
          BY <4>2, <5>1, <5>2, <5>3
      <4> QED
        BY <2>1, <3>2, <4>1, <4>3 DEF SyncReason, HandleAnswer, Paused, pauseVars
    <3> QED
      BY <3>1, <3>2
  <2> QED
    BY <2>3, <2>4, <2>5
<1> QED
  BY <1>1, <1>2 DEF Reasons

\* SendInvoke reports.
LEMMA ReportCallReason ==
  ASSUME NEW c \in Calls, OInv, Reasons, ~Reuse, ReportCall(c)
  PROVE  Reasons'
<1>1. (~gate \/ ppc \in {"complete", "finish"} => Paused)'
  BY DEF Reasons, Paused, OInv, TypeOK, ReportCall, Goto, Report, callVars, wdVars, mapVars,
     pauseVars
<1>2. ASSUME NEW d \in Calls PROVE (heirs[d] = {} /\ AsyncReason(d) /\ SyncReason(d))'
  <2>1. /\ heirs[d] = {} /\ AsyncReason(d) /\ SyncReason(d) /\ TypeOK
        /\ Stage(d) /\ Owned(d) /\ Reported(d)
    BY DEF Reasons, OInv, PerCall
  <2>2. pc[d] \in {"idle", "add", "mark", "context", "stamp", "arm"} => op[d].deadline = NoDeadline
    BY <2>1 DEF AsyncReason
  <2>3. heirs'[d] = {}
    BY <2>1 DEF ReportCall, Goto, Report, callVars, wdVars, mapVars, pauseVars
  <2>4. AsyncReason(d)'
    BY <2>1, <2>2, AsyncStays DEF ReportCall, Goto, Report, Stage, Paused, Owned, IsAsync, IsSync,
       IsEvent, NoDeadline, TypeOK, callVars, wdVars, mapVars, pauseVars
  <2>5. SyncReason(d)'
    <3>1. CASE d # c
      BY <2>1, <2>2, <3>1, SyncStays DEF ReportCall, Goto, Report, Paused, TypeOK, callVars,
         wdVars, mapVars, pauseVars
    <3>2. CASE d = c
      BY <2>1, <2>2, <3>2 DEF ReportCall, Goto, Report, SyncReason, Explained, TransportErrors,
         Paused, IsSync, IsAsync, IsEvent, NoAnswer, Stage, Early, TypeOK, Operations, callVars,
         wdVars, mapVars, pauseVars
    <3> QED
      BY <3>1, <3>2
  <2> QED
    BY <2>3, <2>4, <2>5
<1> QED
  BY <1>1, <1>2 DEF Reasons

\* SendInvoke takes the operation out of the map.
LEMMA RemovePendingOperationReason ==
  ASSUME NEW c \in Calls, OInv, Reasons, ~Reuse, RemovePendingOperation(c)
  PROVE  Reasons'
<1>1. (~gate \/ ppc \in {"complete", "finish"} => Paused)'
  BY DEF Reasons, Paused, OInv, TypeOK, RemovePendingOperation, Goto, callVars, wdVars, mapVars,
     pauseVars
<1>2. ASSUME NEW d \in Calls PROVE (heirs[d] = {} /\ AsyncReason(d) /\ SyncReason(d))'
  <2>1. /\ heirs[d] = {} /\ AsyncReason(d) /\ SyncReason(d) /\ TypeOK
        /\ Stage(d) /\ Owned(d) /\ Reported(d)
    BY DEF Reasons, OInv, PerCall
  <2>2. pc[d] \in {"idle", "add", "mark", "context", "stamp", "arm"} => op[d].deadline = NoDeadline
    BY <2>1 DEF AsyncReason
  <2>3. heirs'[d] = {}
    BY <2>1 DEF RemovePendingOperation, Goto, callVars, wdVars, mapVars, pauseVars
  <2>4. AsyncReason(d)'
    BY <2>1, <2>2, AsyncStays DEF RemovePendingOperation, Goto, Paused, Owned, IsAsync, IsSync,
       IsEvent, NoDeadline, TypeOK, callVars, wdVars, mapVars, pauseVars
  <2>5. SyncReason(d)'
    <3>1. CASE d # c
      BY <2>1, <2>2, <3>1, SyncStays DEF RemovePendingOperation, Goto, Paused, TypeOK, callVars,
         wdVars, mapVars, pauseVars
    <3>2. CASE d = c
      BY <2>1, <2>2, <3>2 DEF RemovePendingOperation, Goto, SyncReason, Explained,
         TransportErrors, Paused, IsSync, IsAsync, IsEvent, NoAnswer, Stage, Early, TypeOK,
         Operations, callVars, wdVars, mapVars, pauseVars
    <3> QED
      BY <3>1, <3>2
  <2> QED
    BY <2>3, <2>4, <2>5
<1> QED
  BY <1>1, <1>2 DEF Reasons

\* SendInvokeAsync marks the operation.
LEMMA MarkAsyncReason ==
  ASSUME NEW c \in Calls, OInv, Reasons, ~Reuse, MarkAsync(c)
  PROVE  Reasons'
<1>0. \A d \in Calls : /\ op'[d].async = (d = c \/ op[d].async) /\ op'[d].ctx = op[d].ctx
                       /\ op'[d].deadline = op[d].deadline
                       /\ op'[d].answer = op[d].answer /\ op'[d].result = op[d].result
  BY ZenonT(60) DEF OInv, TypeOK, Operations, MarkAsync
<1>1. (~gate \/ ppc \in {"complete", "finish"} => Paused)'
  BY DEF Reasons, Paused, OInv, TypeOK, MarkAsync, Goto, callVars, wdVars, mapVars, pauseVars
<1>2. ASSUME NEW d \in Calls PROVE (heirs[d] = {} /\ AsyncReason(d) /\ SyncReason(d))'
  <2>1. /\ heirs[d] = {} /\ AsyncReason(d) /\ SyncReason(d) /\ TypeOK
        /\ Stage(d) /\ Owned(d) /\ Reported(d)
    BY DEF Reasons, OInv, PerCall
  <2>2. pc[d] \in {"idle", "add", "mark", "context", "stamp", "arm"} => op[d].deadline = NoDeadline
    BY <2>1 DEF AsyncReason
  <2>3. heirs'[d] = {}
    BY <2>1 DEF MarkAsync, Goto, callVars, wdVars, mapVars, pauseVars
  <2>4. AsyncReason(d)'
    BY <2>1, <2>2, AsyncStays, <1>0 DEF MarkAsync, Goto, Paused, Owned, IsAsync, IsSync, IsEvent,
       NoDeadline, TypeOK, callVars, wdVars, mapVars, pauseVars
  <2>5. SyncReason(d)'
    <3>1. CASE d # c
      BY <2>1, <2>2, <3>1, SyncStays, <1>0 DEF MarkAsync, Goto, Paused, TypeOK, callVars, wdVars,
         mapVars, pauseVars
    <3>2. CASE d = c
      BY <2>1, <2>2, <3>2, <1>0 DEF MarkAsync, Goto, SyncReason, Explained, TransportErrors,
         Paused, IsSync, IsAsync, IsEvent, NoAnswer, Stage, Early, TypeOK, Operations, callVars,
         wdVars, mapVars, pauseVars
    <3> QED
      BY <3>1, <3>2
  <2> QED
    BY <2>3, <2>4, <2>5
<1> QED
  BY <1>1, <1>2 DEF Reasons

\* SendInvokeAsync writes into the operation, unless it was freed: the context.
LEMMA StoreContextReason ==
  ASSUME NEW c \in Calls, OInv, Reasons, ~Reuse, StoreContext(c)
  PROVE  Reasons'
<1>0. \A d \in Calls : /\ op'[d].async = op[d].async /\ (op[d].ctx => op'[d].ctx)
                       /\ op'[d].answer = op[d].answer /\ op'[d].result = op[d].result
                       /\ op'[d].signaled = op[d].signaled
                       /\ op'[d].deadline = op[d].deadline
  BY DEF OInv, TypeOK, Operations, StoreContext
<1>1. (~gate \/ ppc \in {"complete", "finish"} => Paused)'
  BY DEF Reasons, Paused, OInv, TypeOK, StoreContext, Goto, callVars, wdVars, mapVars, pauseVars
<1>2. ASSUME NEW d \in Calls PROVE (heirs[d] = {} /\ AsyncReason(d) /\ SyncReason(d))'
  <2>1. /\ heirs[d] = {} /\ AsyncReason(d) /\ SyncReason(d) /\ TypeOK
        /\ Stage(d) /\ Owned(d) /\ Reported(d)
    BY DEF Reasons, OInv, PerCall
  <2>2. pc[d] \in {"idle", "add", "mark", "context", "stamp", "arm"} => op[d].deadline = NoDeadline
    BY <2>1 DEF AsyncReason
  <2>3. heirs'[d] = {}
    BY <2>1 DEF StoreContext
  <2>4. /\ pc[c] = "context" /\ pc'[c] \in {"stamp"} /\ \A e \in Calls : e = c \/ pc'[e] = pc[e]
        /\ UNCHANGED <<ask, res, until, wire, wdList, inMap, pauseVars, fin, cbs, telem>>
    BY <2>1 DEF StoreContext, Goto, TypeOK, wdVars
  <2>5. AsyncReason(d)'
    <3>1. op[d].deadline = 0 => op'[d].deadline = 0
      BY <1>0, <2>2, <2>4 DEF NoDeadline
    <3>2. pc'[d] \in {"idle", "add", "mark", "context", "stamp", "arm"} => op'[d].deadline = NoDeadline
      BY <1>0, <2>2, <2>4
    <3>3. d \in wdList => op'[d].async /\ op'[d].deadline = 0
      BY <1>0, <2>1, <3>1 DEF AsyncReason
    <3> QED
      BY <1>0, <2>1, <2>4, <3>1, <3>2, <3>3, AsyncStays DEF Paused, pauseVars
  <2>6. SyncReason(d)'
    <3>1. CASE d # c
      BY <1>0, <2>1, <2>4, <3>1, SyncStays DEF Paused, pauseVars
    <3>2. CASE d = c
      BY <1>0, <2>1, <2>4, <3>2 DEF SyncReason, Stage, Paused, IsSync, IsAsync, pauseVars
    <3> QED
      BY <3>1, <3>2
  <2> QED
    BY <2>3, <2>5, <2>6
<1> QED
  BY <1>1, <1>2 DEF Reasons

\* SendInvokeAsync writes into the operation, unless it was freed: the start time.
LEMMA StampTelemetryReason ==
  ASSUME NEW c \in Calls, OInv, Reasons, ~Reuse, StampTelemetry(c)
  PROVE  Reasons'
<1>0. \A d \in Calls : /\ op'[d].async = op[d].async /\ (op[d].ctx => op'[d].ctx)
                       /\ op'[d].answer = op[d].answer /\ op'[d].result = op[d].result
                       /\ op'[d].signaled = op[d].signaled
                       /\ op'[d].deadline = op[d].deadline
  BY DEF OInv, TypeOK, Operations, StampTelemetry
<1>1. (~gate \/ ppc \in {"complete", "finish"} => Paused)'
  BY DEF Reasons, Paused, OInv, TypeOK, StampTelemetry, Goto, callVars, wdVars, mapVars, pauseVars
<1>2. ASSUME NEW d \in Calls PROVE (heirs[d] = {} /\ AsyncReason(d) /\ SyncReason(d))'
  <2>1. /\ heirs[d] = {} /\ AsyncReason(d) /\ SyncReason(d) /\ TypeOK
        /\ Stage(d) /\ Owned(d) /\ Reported(d)
    BY DEF Reasons, OInv, PerCall
  <2>2. pc[d] \in {"idle", "add", "mark", "context", "stamp", "arm"} => op[d].deadline = NoDeadline
    BY <2>1 DEF AsyncReason
  <2>3. heirs'[d] = {}
    BY <2>1 DEF StampTelemetry
  <2>4. /\ pc[c] = "stamp" /\ pc'[c] \in {"arm", "send"} /\ \A e \in Calls : e = c \/ pc'[e] = pc[e]
        /\ UNCHANGED <<ask, res, until, wire, wdList, inMap, pauseVars, fin, cbs, telem>>
    BY <2>1 DEF StampTelemetry, Goto, TypeOK, wdVars
  <2>5. AsyncReason(d)'
    <3>1. op[d].deadline = 0 => op'[d].deadline = 0
      BY <1>0, <2>2, <2>4 DEF NoDeadline
    <3>2. pc'[d] \in {"idle", "add", "mark", "context", "stamp", "arm"} => op'[d].deadline = NoDeadline
      BY <1>0, <2>2, <2>4
    <3>3. d \in wdList => op'[d].async /\ op'[d].deadline = 0
      BY <1>0, <2>1, <3>1 DEF AsyncReason
    <3> QED
      BY <1>0, <2>1, <2>4, <3>1, <3>2, <3>3, AsyncStays DEF Paused, pauseVars
  <2>6. SyncReason(d)'
    <3>1. CASE d # c
      BY <1>0, <2>1, <2>4, <3>1, SyncStays DEF Paused, pauseVars
    <3>2. CASE d = c
      BY <1>0, <2>1, <2>4, <3>2 DEF SyncReason, Stage, Paused, IsSync, IsAsync, pauseVars
    <3> QED
      BY <3>1, <3>2
  <2> QED
    BY <2>3, <2>5, <2>6
<1> QED
  BY <1>1, <1>2 DEF Reasons

\* SendInvokeAsync writes into the operation, unless it was freed: the deadline.
LEMMA ArmDeadlineReason ==
  ASSUME NEW c \in Calls, OInv, Reasons, ~Reuse, ArmDeadline(c)
  PROVE  Reasons'
<1>0. \A d \in Calls : /\ op'[d].async = op[d].async /\ (op[d].ctx => op'[d].ctx)
                       /\ op'[d].answer = op[d].answer /\ op'[d].result = op[d].result
                       /\ op'[d].signaled = op[d].signaled
                       /\ op'[d].deadline = op[d].deadline \/ d = c
  BY DEF OInv, TypeOK, Operations, ArmDeadline
<1>1. (~gate \/ ppc \in {"complete", "finish"} => Paused)'
  BY DEF Reasons, Paused, OInv, TypeOK, ArmDeadline, Goto, callVars, wdVars, mapVars, pauseVars
<1>2. ASSUME NEW d \in Calls PROVE (heirs[d] = {} /\ AsyncReason(d) /\ SyncReason(d))'
  <2>1. /\ heirs[d] = {} /\ AsyncReason(d) /\ SyncReason(d) /\ TypeOK
        /\ Stage(d) /\ Owned(d) /\ Reported(d)
    BY DEF Reasons, OInv, PerCall
  <2>2. pc[d] \in {"idle", "add", "mark", "context", "stamp", "arm"} => op[d].deadline = NoDeadline
    BY <2>1 DEF AsyncReason
  <2>3. heirs'[d] = {}
    BY <2>1 DEF ArmDeadline
  <2>4. /\ pc[c] = "arm" /\ pc'[c] \in {"count"} /\ \A e \in Calls : e = c \/ pc'[e] = pc[e]
        /\ UNCHANGED <<ask, res, until, wire, wdList, inMap, pauseVars, fin, cbs, telem>>
    BY <2>1 DEF ArmDeadline, Goto, TypeOK, wdVars
  <2>5. AsyncReason(d)'
    <3>1. op[d].deadline = 0 => op'[d].deadline = 0
      BY <1>0, <2>2, <2>4 DEF NoDeadline
    <3>2. pc'[d] \in {"idle", "add", "mark", "context", "stamp", "arm"} => op'[d].deadline = NoDeadline
      BY <1>0, <2>2, <2>4
    <3>3. d \in wdList => op'[d].async /\ op'[d].deadline = 0
      BY <1>0, <2>1, <3>1 DEF AsyncReason
    <3> QED
      BY <1>0, <2>1, <2>4, <3>1, <3>2, <3>3, AsyncStays DEF Paused, pauseVars
  <2>6. SyncReason(d)'
    <3>1. CASE d # c
      BY <1>0, <2>1, <2>4, <3>1, SyncStays DEF Paused, pauseVars
    <3>2. CASE d = c
      BY <1>0, <2>1, <2>4, <3>2 DEF SyncReason, Stage, Paused, IsSync, IsAsync, pauseVars
    <3> QED
      BY <3>1, <3>2
  <2> QED
    BY <2>3, <2>5, <2>6
<1> QED
  BY <1>1, <1>2 DEF Reasons

\* The deadline is counted.
LEMMA CountDeadlineReason ==
  ASSUME NEW c \in Calls, OInv, Reasons, ~Reuse, CountDeadline(c)
  PROVE  Reasons'
<1>1. (~gate \/ ppc \in {"complete", "finish"} => Paused)'
  BY DEF Reasons, Paused, OInv, TypeOK, CountDeadline, Goto, callVars, wdVars, mapVars, pauseVars
<1>2. ASSUME NEW d \in Calls PROVE (heirs[d] = {} /\ AsyncReason(d) /\ SyncReason(d))'
  <2>1. /\ heirs[d] = {} /\ AsyncReason(d) /\ SyncReason(d) /\ TypeOK
        /\ Stage(d) /\ Owned(d) /\ Reported(d)
    BY DEF Reasons, OInv, PerCall
  <2>2. pc[d] \in {"idle", "add", "mark", "context", "stamp", "arm"} => op[d].deadline = NoDeadline
    BY <2>1 DEF AsyncReason
  <2>3. heirs'[d] = {}
    BY <2>1 DEF CountDeadline, Goto, callVars, wdVars, mapVars, pauseVars
  <2>4. AsyncReason(d)'
    BY <2>1, <2>2, AsyncStays DEF CountDeadline, Goto, Paused, Owned, IsAsync, IsSync, IsEvent,
       NoDeadline, TypeOK, callVars, wdVars, mapVars, pauseVars
  <2>5. SyncReason(d)'
    <3>1. CASE d # c
      BY <2>1, <2>2, <3>1, SyncStays DEF CountDeadline, Goto, Paused, TypeOK, callVars, wdVars,
         mapVars, pauseVars
    <3>2. CASE d = c
      BY <2>1, <2>2, <3>2 DEF CountDeadline, Goto, SyncReason, Explained, TransportErrors, Paused,
         IsSync, IsAsync, IsEvent, NoAnswer, Stage, Early, TypeOK, Operations, callVars, wdVars,
         mapVars, pauseVars
    <3> QED
      BY <3>1, <3>2
  <2> QED
    BY <2>3, <2>4, <2>5
<1> QED
  BY <1>1, <1>2 DEF Reasons

\* The watchdog is started.
LEMMA EnsureWatchdogRunningReason ==
  ASSUME NEW c \in Calls, OInv, Reasons, ~Reuse, EnsureWatchdogRunning(c)
  PROVE  Reasons'
<1>1. (~gate \/ ppc \in {"complete", "finish"} => Paused)'
  BY DEF Reasons, Paused, OInv, TypeOK, EnsureWatchdogRunning, Goto, callVars, wdVars, mapVars,
     pauseVars
<1>2. ASSUME NEW d \in Calls PROVE (heirs[d] = {} /\ AsyncReason(d) /\ SyncReason(d))'
  <2>1. /\ heirs[d] = {} /\ AsyncReason(d) /\ SyncReason(d) /\ TypeOK
        /\ Stage(d) /\ Owned(d) /\ Reported(d)
    BY DEF Reasons, OInv, PerCall
  <2>2. pc[d] \in {"idle", "add", "mark", "context", "stamp", "arm"} => op[d].deadline = NoDeadline
    BY <2>1 DEF AsyncReason
  <2>3. heirs'[d] = {}
    BY <2>1 DEF EnsureWatchdogRunning, Goto, callVars, wdVars, mapVars, pauseVars
  <2>4. AsyncReason(d)'
    BY <2>1, <2>2, AsyncStays DEF EnsureWatchdogRunning, Goto, Paused, Owned, IsAsync, IsSync,
       IsEvent, NoDeadline, TypeOK, callVars, wdVars, mapVars, pauseVars
  <2>5. SyncReason(d)'
    <3>1. CASE d # c
      BY <2>1, <2>2, <3>1, SyncStays DEF EnsureWatchdogRunning, Goto, Paused, TypeOK, callVars,
         wdVars, mapVars, pauseVars
    <3>2. CASE d = c
      BY <2>1, <2>2, <3>2 DEF EnsureWatchdogRunning, Goto, SyncReason, Explained, TransportErrors,
         Paused, IsSync, IsAsync, IsEvent, NoAnswer, Stage, Early, TypeOK, Operations, callVars,
         wdVars, mapVars, pauseVars
    <3> QED
      BY <3>1, <3>2
  <2> QED
    BY <2>3, <2>4, <2>5
<1> QED
  BY <1>1, <1>2 DEF Reasons

\* NotifyWatchdog reads the count.
LEMMA NotifyReadReason ==
  ASSUME NEW c \in Calls, OInv, Reasons, ~Reuse, NotifyRead(c)
  PROVE  Reasons'
<1>1. (~gate \/ ppc \in {"complete", "finish"} => Paused)'
  BY DEF Reasons, Paused, OInv, TypeOK, NotifyRead, Goto, callVars, wdVars, mapVars, pauseVars
<1>2. ASSUME NEW d \in Calls PROVE (heirs[d] = {} /\ AsyncReason(d) /\ SyncReason(d))'
  <2>1. /\ heirs[d] = {} /\ AsyncReason(d) /\ SyncReason(d) /\ TypeOK
        /\ Stage(d) /\ Owned(d) /\ Reported(d)
    BY DEF Reasons, OInv, PerCall
  <2>2. pc[d] \in {"idle", "add", "mark", "context", "stamp", "arm"} => op[d].deadline = NoDeadline
    BY <2>1 DEF AsyncReason
  <2>3. heirs'[d] = {}
    BY <2>1 DEF NotifyRead, Goto, callVars, wdVars, mapVars, pauseVars
  <2>4. AsyncReason(d)'
    BY <2>1, <2>2, AsyncStays DEF NotifyRead, Goto, Paused, Owned, IsAsync, IsSync, IsEvent,
       NoDeadline, TypeOK, callVars, wdVars, mapVars, pauseVars
  <2>5. SyncReason(d)'
    <3>1. CASE d # c
      BY <2>1, <2>2, <3>1, SyncStays DEF NotifyRead, Goto, Paused, TypeOK, callVars, wdVars,
         mapVars, pauseVars
    <3>2. CASE d = c
      BY <2>1, <2>2, <3>2 DEF NotifyRead, Goto, SyncReason, Explained, TransportErrors, Paused,
         IsSync, IsAsync, IsEvent, NoAnswer, Stage, Early, TypeOK, Operations, callVars, wdVars,
         mapVars, pauseVars
    <3> QED
      BY <3>1, <3>2
  <2> QED
    BY <2>3, <2>4, <2>5
<1> QED
  BY <1>1, <1>2 DEF Reasons

\* NotifyWatchdog asks the watchdog to stop.
LEMMA NotifyStopReason ==
  ASSUME NEW c \in Calls, OInv, Reasons, ~Reuse, NotifyStop(c)
  PROVE  Reasons'
<1>1. (~gate \/ ppc \in {"complete", "finish"} => Paused)'
  BY DEF Reasons, Paused, OInv, TypeOK, NotifyStop, Goto, callVars, wdVars, mapVars, pauseVars
<1>2. ASSUME NEW d \in Calls PROVE (heirs[d] = {} /\ AsyncReason(d) /\ SyncReason(d))'
  <2>1. /\ heirs[d] = {} /\ AsyncReason(d) /\ SyncReason(d) /\ TypeOK
        /\ Stage(d) /\ Owned(d) /\ Reported(d)
    BY DEF Reasons, OInv, PerCall
  <2>2. pc[d] \in {"idle", "add", "mark", "context", "stamp", "arm"} => op[d].deadline = NoDeadline
    BY <2>1 DEF AsyncReason
  <2>3. heirs'[d] = {}
    BY <2>1 DEF NotifyStop, Goto, callVars, wdVars, mapVars, pauseVars
  <2>4. AsyncReason(d)'
    BY <2>1, <2>2, AsyncStays DEF NotifyStop, Goto, Paused, Owned, IsAsync, IsSync, IsEvent,
       NoDeadline, TypeOK, callVars, wdVars, mapVars, pauseVars
  <2>5. SyncReason(d)'
    <3>1. CASE d # c
      BY <2>1, <2>2, <3>1, SyncStays DEF NotifyStop, Goto, Paused, TypeOK, callVars, wdVars,
         mapVars, pauseVars
    <3>2. CASE d = c
      BY <2>1, <2>2, <3>2 DEF NotifyStop, Goto, SyncReason, Explained, TransportErrors, Paused,
         IsSync, IsAsync, IsEvent, NoAnswer, Stage, Early, TypeOK, Operations, callVars, wdVars,
         mapVars, pauseVars
    <3> QED
      BY <3>1, <3>2
  <2> QED
    BY <2>3, <2>4, <2>5
<1> QED
  BY <1>1, <1>2 DEF Reasons

\* SendInvokeAsync returns.
LEMMA ReturnAsyncReason ==
  ASSUME NEW c \in Calls, OInv, Reasons, ~Reuse, ReturnAsync(c)
  PROVE  Reasons'
<1>1. (~gate \/ ppc \in {"complete", "finish"} => Paused)'
  BY DEF Reasons, Paused, OInv, TypeOK, ReturnAsync, Goto, callVars, wdVars, mapVars, pauseVars
<1>2. ASSUME NEW d \in Calls PROVE (heirs[d] = {} /\ AsyncReason(d) /\ SyncReason(d))'
  <2>1. /\ heirs[d] = {} /\ AsyncReason(d) /\ SyncReason(d) /\ TypeOK
        /\ Stage(d) /\ Owned(d) /\ Reported(d)
    BY DEF Reasons, OInv, PerCall
  <2>2. pc[d] \in {"idle", "add", "mark", "context", "stamp", "arm"} => op[d].deadline = NoDeadline
    BY <2>1 DEF AsyncReason
  <2>3. heirs'[d] = {}
    BY <2>1 DEF ReturnAsync, Goto, callVars, wdVars, mapVars, pauseVars
  <2>4. AsyncReason(d)'
    BY <2>1, <2>2, AsyncStays DEF ReturnAsync, Goto, Paused, Owned, IsAsync, IsSync, IsEvent,
       NoDeadline, TypeOK, callVars, wdVars, mapVars, pauseVars
  <2>5. SyncReason(d)'
    <3>1. CASE d # c
      BY <2>1, <2>2, <3>1, SyncStays DEF ReturnAsync, Goto, Paused, TypeOK, callVars, wdVars,
         mapVars, pauseVars
    <3>2. CASE d = c
      BY <2>1, <2>2, <3>2 DEF ReturnAsync, Goto, SyncReason, Explained, TransportErrors, Paused,
         IsSync, IsAsync, IsEvent, NoAnswer, Stage, Early, TypeOK, Operations, callVars, wdVars,
         mapVars, pauseVars
    <3> QED
      BY <3>1, <3>2
  <2> QED
    BY <2>3, <2>4, <2>5
<1> QED
  BY <1>1, <1>2 DEF Reasons

\* A step that moves no call, no operation and no report keeps the reasons, when it starts no
\* pause without saying so and lists only operations whose time is up.
LEMMA QuietReason ==
  ASSUME OInv, Reasons, UNCHANGED <<callVars, inMap, op, heirs, cbs, telem>>, Paused => Paused',
         ~gate' \/ ppc' \in {"complete", "finish"} => Paused',
         \A d \in Calls :
           /\ fin'[d].res = fin[d].res
           /\ \/ fin'[d].pc = fin[d].pc
              \/ {fin[d].pc, fin'[d].pc} \cap {"none", "context", "report"} = {},
         \A d \in wdList' : d \in wdList \/ (op[d].async /\ op[d].deadline = 0)
  PROVE  Reasons'
<1>1. ASSUME NEW d \in Calls PROVE (heirs[d] = {} /\ AsyncReason(d) /\ SyncReason(d))'
  <2>1. /\ heirs[d] = {} /\ AsyncReason(d) /\ SyncReason(d) /\ TypeOK
        /\ Stage(d) /\ Owned(d) /\ Reported(d)
    BY DEF Reasons, OInv, PerCall
  <2>2. AsyncReason(d)'
    BY <2>1, AsyncStays DEF AsyncReason, callVars
  <2>3. SyncReason(d)'
    BY <2>1, SyncStays DEF callVars
  <2> QED
    BY <2>1, <2>2, <2>3
<1> QED
  BY <1>1 DEF Reasons

\* FinishAsyncInvoke reads the count.
LEMMA FinishReadReason ==
  ASSUME NEW c \in Calls, OInv, Reasons, FinishRead(c)
  PROVE  Reasons'
<1>1. \A d \in Calls : /\ fin'[d].res = fin[d].res
                       /\ \/ fin'[d].pc = fin[d].pc
                          \/ {fin[d].pc, fin'[d].pc} \cap {"none", "context", "report"} = {}
  BY DEF OInv, TypeOK, Finishes, FinishRead
<1> QED
  BY <1>1, QuietReason DEF FinishRead, Reasons, Paused, wdVars, mapVars, pauseVars

\* FinishAsyncInvoke asks the watchdog to stop.
LEMMA FinishStopReason ==
  ASSUME NEW c \in Calls, OInv, Reasons, FinishStop(c)
  PROVE  Reasons'
<1>1. \A d \in Calls : /\ fin'[d].res = fin[d].res
                       /\ \/ fin'[d].pc = fin[d].pc
                          \/ {fin[d].pc, fin'[d].pc} \cap {"none", "context", "report"} = {}
  BY DEF OInv, TypeOK, Finishes, FinishStop
<1> QED
  BY <1>1, QuietReason DEF FinishStop, Reasons, Paused, wdVars, mapVars, pauseVars

\* The watchdog thread: WatchdogScan.
LEMMA WatchdogScanReason ==
  ASSUME OInv, Reasons, WatchdogScan
  PROVE  Reasons'
  BY QuietReason DEF WatchdogScan, Reasons, Paused, wdVars, mapVars, pauseVars

\* The watchdog thread: WatchdogStopSeen.
LEMMA WatchdogStopSeenReason ==
  ASSUME OInv, Reasons, WatchdogStopSeen
  PROVE  Reasons'
  BY QuietReason DEF WatchdogStopSeen, Reasons, Paused, wdVars, mapVars, pauseVars

\* The watchdog thread: WatchdogWorkSeen.
LEMMA WatchdogWorkSeenReason ==
  ASSUME OInv, Reasons, WatchdogWorkSeen
  PROVE  Reasons'
  BY QuietReason DEF WatchdogWorkSeen, Reasons, Paused, wdVars, mapVars, pauseVars

\* The watchdog thread: WatchdogDeadline.
LEMMA WatchdogDeadlineReason ==
  ASSUME OInv, Reasons, WatchdogDeadline
  PROVE  Reasons'
  BY QuietReason DEF WatchdogDeadline, Reasons, Paused, wdVars, mapVars, pauseVars

\* The watchdog thread: ProcessAsyncTimeouts.
LEMMA ProcessAsyncTimeoutsReason ==
  ASSUME OInv, Reasons, ProcessAsyncTimeouts
  PROVE  Reasons'
  BY QuietReason DEF ProcessAsyncTimeouts, Reasons, Paused, wdVars, mapVars, pauseVars

\* The watchdog thread: WatchdogLoop.
LEMMA WatchdogLoopReason ==
  ASSUME OInv, Reasons, WatchdogLoop
  PROVE  Reasons'
  BY QuietReason DEF WatchdogLoop, Reasons, Paused, wdVars, mapVars, pauseVars

\* The watchdog thread: WatchdogExit.
LEMMA WatchdogExitReason ==
  ASSUME OInv, Reasons, WatchdogExit
  PROVE  Reasons'
  BY QuietReason DEF WatchdogExit, Reasons, Paused, wdVars, mapVars, pauseVars

\* Pause and destruction: PauseRoseProcessing.
LEMMA PauseRoseProcessingReason ==
  ASSUME OInv, Reasons, PauseRoseProcessing
  PROVE  Reasons'
<1>1. Paused'
  BY DEF OInv, TypeOK, PauseRoseProcessing, Paused
<1> QED
  BY <1>1, QuietReason DEF PauseRoseProcessing, wdVars, mapVars, pauseVars

\* Pause and destruction: Destroy.
LEMMA DestroyReason ==
  ASSUME OInv, Reasons, Destroy
  PROVE  Reasons'
<1>1. Paused'
  BY DEF OInv, TypeOK, Destroy, Paused
<1> QED
  BY <1>1, QuietReason DEF Destroy, wdVars, mapVars, pauseVars

\* Pause and destruction: PauseReturn.
LEMMA PauseReturnReason ==
  ASSUME OInv, Reasons, PauseReturn
  PROVE  Reasons'
  BY QuietReason DEF PauseReturn, Reasons, Paused, wdVars, mapVars, pauseVars

\* Pause and destruction: ResumeRoseProcessing.
LEMMA ResumeRoseProcessingReason ==
  ASSUME OInv, Reasons, ResumeRoseProcessing
  PROVE  Reasons'
  BY QuietReason DEF ResumeRoseProcessing, Reasons, Paused, wdVars, mapVars, pauseVars

\* Pause and destruction: StopWatchdogThread.
LEMMA StopWatchdogThreadReason ==
  ASSUME OInv, Reasons, StopWatchdogThread
  PROVE  Reasons'
  BY QuietReason DEF StopWatchdogThread, Reasons, Paused, wdVars, mapVars, pauseVars

\* Pause and destruction: JoinWatchdogThread.
LEMMA JoinWatchdogThreadReason ==
  ASSUME OInv, Reasons, JoinWatchdogThread
  PROVE  Reasons'
  BY QuietReason DEF JoinWatchdogThread, Reasons, Paused, wdVars, mapVars, pauseVars

\* Nothing changes.
LEMMA StutterReason ==
  ASSUME OInv, Reasons, UNCHANGED vars
  PROVE  Reasons'
  BY QuietReason DEF vars, Reasons, Paused, wdVars, mapVars, pauseVars

\* Time passes.
LEMMA TickReason ==
  ASSUME OInv, Reasons, ~Reuse, Tick
  PROVE  Reasons'
<1>0. \A d \in Calls : /\ op'[d].async = op[d].async /\ op'[d].ctx = op[d].ctx
                       /\ op'[d].answer = op[d].answer /\ op'[d].result = op[d].result
                       /\ op'[d].signaled = op[d].signaled
                       /\ op[d].deadline \in {0, NoDeadline} => op'[d].deadline = op[d].deadline
                       /\ until[d] = 0 => until'[d] = 0
  BY DEF OInv, TypeOK, Operations, Tick, Aged, NoDeadline
<1>01. UNCHANGED <<ask, pc, res, wire, inMap, wdList, pauseVars, fin, cbs, telem>>
  BY DEF Tick
<1>1. (~gate \/ ppc \in {"complete", "finish"} => Paused)'
  BY DEF Reasons, Paused, OInv, TypeOK, Tick, callVars, wdVars, mapVars, pauseVars
<1>2. ASSUME NEW d \in Calls PROVE (heirs[d] = {} /\ AsyncReason(d) /\ SyncReason(d))'
  <2>1. /\ heirs[d] = {} /\ AsyncReason(d) /\ SyncReason(d) /\ TypeOK
        /\ Stage(d) /\ Owned(d) /\ Reported(d)
    BY DEF Reasons, OInv, PerCall
  <2>2. pc[d] \in {"idle", "add", "mark", "context", "stamp", "arm"} => op[d].deadline = NoDeadline
    BY <2>1 DEF AsyncReason
  <2>3. heirs'[d] = {}
    BY <2>1 DEF Tick, callVars, wdVars, mapVars, pauseVars
  <2>4. AsyncReason(d)'
    BY <1>0, <1>01, <2>1, <2>2, AsyncStays DEF Paused, pauseVars
  <2>5. SyncReason(d)'
    BY <1>0, <1>01, <2>1, SyncStays DEF Paused, pauseVars
  <2> QED
    BY <2>3, <2>4, <2>5
<1> QED
  BY <1>1, <1>2 DEF Reasons

\* A call is refused: the session is paused, or the operation is blocked.
LEMMA RefuseReason ==
  ASSUME NEW c \in Calls, NEW r \in {"SHUTDOWN", "REMOTENOTCAPABLE"}, OInv, Reasons, Refuse(c, r),
         r = "SHUTDOWN" => ~gate, r = "REMOTENOTCAPABLE" => ask[c].blocked
  PROVE  Reasons'
<1>1. /\ pc[c] = "idle" /\ pc' = [pc EXCEPT ![c] = "returned"] /\ res' = [res EXCEPT ![c] = r]
      /\ telem' = [telem EXCEPT ![c] = Append(@, "UNHANDLED")]
      /\ cbs' = IF HasCallback(c) THEN [cbs EXCEPT ![c] = Append(@, r)] ELSE cbs
      /\ UNCHANGED <<ask, until, wire, wdList, inMap, op, gate, ppc, dying, pauses, heirs, fin>>
  BY DEF Refuse, Goto, Report, wdVars, mapVars, pauseVars
<1>2. /\ TypeOK /\ (~gate => Paused)
      /\ \A d \in Calls : /\ heirs[d] = {} /\ AsyncReason(d) /\ SyncReason(d)
                          /\ Stage(d) /\ Owned(d) /\ Reported(d)
  BY DEF Reasons, OInv, PerCall
<1>3. (~gate \/ ppc \in {"complete", "finish"} => Paused)'
  BY <1>1 DEF Reasons, Paused
<1>4. ASSUME NEW d \in Calls, d # c PROVE AsyncReason(d)' /\ SyncReason(d)'
  <2>1. /\ pc'[d] = pc[d] /\ res'[d] = res[d] /\ telem'[d] = telem[d] /\ cbs'[d] = cbs[d]
    BY <1>1, <1>2, <1>4 DEF TypeOK
  <2>2. AsyncReason(d)'
    BY <1>1, <1>2, <2>1, AsyncStays DEF Paused, AsyncReason
  <2>3. SyncReason(d)'
    BY <1>1, <1>2, <2>1, SyncStays DEF Paused
  <2> QED
    BY <2>2, <2>3
<1>5. Explained(c, r)'
  BY <1>1, <1>2 DEF Explained, Paused
<1>6. AsyncReason(c)'
  <2>0. ~op[c].async /\ fin[c].pc = "none"
    BY <1>1, <1>2 DEF Owned
  <2>1. fin'[c].pc = "none" /\ telem'[c] = <<"UNHANDLED">> /\ pc'[c] = "returned"
    <3>1. telem[c] = <<>>
      BY <1>1, <1>2 DEF Reported
    <3>2. telem'[c] = Append(telem[c], "UNHANDLED") /\ pc'[c] = "returned"
      BY <1>1, <1>2 DEF TypeOK
    <3> QED
      BY <1>1, <2>0, <3>1, <3>2
  <2>2. cbs'[c] # <<>> => cbs'[c][1] = r
    BY <1>1, <1>2 DEF Reported, TypeOK
  <2>3. Told(c, r)'
    BY <1>5, <2>1 DEF Told
  <2>4. cbs'[c] # <<>> => Told(c, cbs[c][1])' /\ telem'[c] = <<OutcomeOf(cbs'[c][1])>>
    BY <2>1, <2>2, <2>3 DEF Told, Explained, OutcomeOf
  <2> QED
    BY <1>1, <1>2, <2>1, <2>4 DEF AsyncReason, OutcomeOf
<1>7. SyncReason(c)'
  <2>1. pc'[c] = "returned" /\ res'[c] = r
    BY <1>1, <1>2 DEF TypeOK
  <2>2. Explained(c, res[c])'
    BY <1>5, <2>1 DEF Explained
  <2> QED
    BY <1>1, <1>2, <2>1, <2>2 DEF SyncReason, Paused
<1> QED
  BY <1>1, <1>2, <1>3, <1>4, <1>6, <1>7 DEF Reasons

\* The outcome FinishAsyncInvoke reports classifies the result it hands to the callback.
LEMMA FinalOutcome ==
  ASSUME TypeOK, NEW c \in Calls, Settled(c)
  PROVE  FinalizeTelemetry(Final(c), op[c].result, op[c].answer) = OutcomeOf(Final(c))
<1>1. CASE op[c].answer = NoAnswer
  <2>1. Final(c) = op[c].result /\ op[c].result \in TransportErrors
    BY <1>1 DEF Final, Settled
  <2> QED
    BY <1>1, <2>1 DEF FinalizeTelemetry, OutcomeOf, TransportErrors, NoAnswer
<1>2. CASE op[c].answer # NoAnswer
  <2>1. PICK k \in Answers : k = op[c].answer
    BY <1>2 DEF TypeOK, Operations
  <2>2. k \in {"result", "error", "reject", "garbled"} /\ k # NoAnswer
    BY <1>2, <2>1, AnswerKinds
  <2>3. op[c].result = RoseResult[k] /\ Final(c) = HandleInvokeResult(RoseResult[k], k)
    BY <1>2, <2>1 DEF Settled, Final
  <2>4. FinalizeTelemetry(HandleInvokeResult(RoseResult[k], k), RoseResult[k], k)
          = OutcomeOf(HandleInvokeResult(RoseResult[k], k))
    BY <2>2 DEF FinalizeTelemetry, OutcomeOf, TransportErrors, HandleInvokeResult, RoseResult,
       NoAnswer
  <2> QED
    BY <2>1, <2>3, <2>4
<1> QED
  BY <1>1, <1>2

\* FinishAsyncInvoke reads the context, and with it the answer is decoded.
LEMMA FinishContextReason ==
  ASSUME NEW c \in Calls, OInv, Reasons, FinishContext(c)
  PROVE  Reasons'
<1>1. /\ TypeOK
      /\ \A d \in Calls : /\ heirs[d] = {} /\ AsyncReason(d) /\ SyncReason(d)
                          /\ Stage(d) /\ Owned(d) /\ Reported(d)
  BY DEF Reasons, OInv, PerCall
<1>2. UNCHANGED <<callVars, wdVars, mapVars, pauseVars, cbs, heirs, telem>>
  BY DEF FinishContext
<1>3. /\ fin[c].pc = "context" /\ fin'[c].pc = "report"
      /\ fin'[c].res = IF op[c].ctx /\ op[c].answer # NoAnswer
                       THEN HandleInvokeResult(fin[c].res, op[c].answer) ELSE fin[c].res
      /\ \A d \in Calls : d # c => fin'[d] = fin[d]
  BY <1>1 DEF FinishContext, TypeOK, Finishes
<1>4. (~gate \/ ppc \in {"complete", "finish"} => Paused)'
  BY <1>2 DEF Reasons, Paused, pauseVars
<1>5. ASSUME NEW d \in Calls PROVE SyncReason(d)'
  BY <1>1, <1>2, SyncStays DEF Paused, callVars, mapVars, pauseVars
<1>6. ASSUME NEW d \in Calls, d # c PROVE AsyncReason(d)'
  BY <1>1, <1>2, <1>3, <1>6, AsyncStays DEF Paused, AsyncReason, callVars, wdVars, mapVars,
     pauseVars
<1>7. AsyncReason(c)'
  <2>1. UNCHANGED <<ask, pc, wire, until, inMap, op, wdList, dying, pauses, cbs, telem>>
    BY <1>2 DEF callVars, wdVars, mapVars, pauseVars
  <2>2. ASSUME HasCallback(c) PROVE Promised(c)'
    <3>1. Promised(c)
      BY <1>1, <1>3, <2>2 DEF AsyncReason
    <3>2. fin'[c].res = Final(c)
      BY <1>3, <3>1 DEF Promised, Settled, Final
    <3>3. Final(c)' = Final(c) /\ Settled(c)'
      BY <2>1, <3>1 DEF Final, Settled, Promised
    <3>4. Told(c, Final(c))'
      BY <2>1, <3>1, <3>3 DEF Promised, Told, Explained, IsAsync
    <3> QED
      BY <1>3, <3>2, <3>3, <3>4 DEF Promised
  <2>3. cbs[c] = <<>>
    BY <1>1, <1>3 DEF Reported, Finishing
  <2> QED
    BY <1>1, <2>1, <2>2, <2>3 DEF AsyncReason, HasCallback, IsAsync
<1> QED
  BY <1>1, <1>2, <1>4, <1>5, <1>6, <1>7 DEF Reasons

\* FinishAsyncInvoke reports the operation.
LEMMA FinishReportReason ==
  ASSUME NEW c \in Calls, OInv, Reasons, FinishReport(c)
  PROVE  Reasons'
<1>1. /\ TypeOK
      /\ \A d \in Calls : /\ heirs[d] = {} /\ AsyncReason(d) /\ SyncReason(d)
                          /\ Stage(d) /\ Owned(d) /\ Reported(d)
  BY DEF Reasons, OInv, PerCall
<1>2. UNCHANGED <<callVars, wdVars, mapVars, pauseVars, cbs, heirs>>
  BY DEF FinishReport
<1>3. /\ fin[c].pc = "report" /\ fin'[c].pc = "read" /\ fin'[c].res = fin[c].res
      /\ \A d \in Calls : d # c => fin'[d] = fin[d] /\ telem'[d] = telem[d]
  BY <1>1 DEF FinishReport, Report, TypeOK, Finishes
<1>4. (~gate \/ ppc \in {"complete", "finish"} => Paused)'
  BY <1>2 DEF Reasons, Paused, pauseVars
<1>5. ASSUME NEW d \in Calls PROVE SyncReason(d)'
  BY <1>1, <1>2, SyncStays DEF Paused, callVars, mapVars, pauseVars
<1>6. ASSUME NEW d \in Calls, d # c PROVE AsyncReason(d)'
  BY <1>1, <1>2, <1>3, <1>6, AsyncStays DEF Paused, AsyncReason, callVars, wdVars, mapVars,
     pauseVars
<1>7. AsyncReason(c)'
  <2>1. UNCHANGED <<ask, pc, wire, until, inMap, op, wdList, dying, pauses, cbs>>
    BY <1>2 DEF callVars, wdVars, mapVars, pauseVars
  <2>2. cbs[c] = <<>> /\ telem[c] = <<>>
    BY <1>1, <1>3 DEF Reported, Finishing
  <2>3. ASSUME HasCallback(c) PROVE Promised(c)'
    <3>1. Promised(c) /\ fin[c].res = Final(c)
      BY <1>1, <1>3, <2>3 DEF AsyncReason, Promised
    <3>2. FinalizeTelemetry(fin[c].res, op[c].result, op[c].answer) = OutcomeOf(Final(c))
      BY <1>1, <3>1, FinalOutcome DEF Promised
    <3>3. telem'[c] \in {<<>>, <<OutcomeOf(Final(c))>>}
      BY <1>1, <2>2, <3>2 DEF FinishReport, Report, TypeOK
    <3>4. Final(c)' = Final(c) /\ Settled(c)'
      BY <2>1, <3>1 DEF Final, Settled, Promised
    <3>5. Told(c, Final(c))'
      BY <2>1, <3>1, <3>4 DEF Promised, Told, Explained, IsAsync
    <3> QED
      BY <1>3, <3>1, <3>3, <3>4, <3>5 DEF Promised, OutcomeOf
  <2> QED
    BY <1>1, <2>1, <2>2, <2>3 DEF AsyncReason, HasCallback, IsAsync
<1> QED
  BY <1>1, <1>2, <1>4, <1>5, <1>6, <1>7 DEF Reasons

\* The completion callback hands out the result FinishAsyncInvoke computed.
LEMMA FinishCallbackReason ==
  ASSUME NEW c \in Calls, OInv, Reasons, FinishCallback(c)
  PROVE  Reasons'
<1>1. /\ fin[c].pc = "callback" /\ fin' = [fin EXCEPT ![c].pc = "done"]
      /\ cbs' = IF HasCallback(c) /\ fin[c].ctx
                THEN [cbs EXCEPT ![c] = Append(@, fin[c].res)] ELSE cbs
      /\ UNCHANGED <<callVars, wdVars, mapVars, pauseVars, heirs, telem>>
  BY DEF FinishCallback
<1>2. /\ TypeOK
      /\ \A d \in Calls : /\ heirs[d] = {} /\ AsyncReason(d) /\ SyncReason(d)
                          /\ Stage(d) /\ Owned(d) /\ Reported(d)
  BY DEF Reasons, OInv, PerCall
<1>3. \A d \in Calls : /\ fin'[d].res = fin[d].res
                       /\ \/ fin'[d].pc = fin[d].pc
                          \/ {fin[d].pc, fin'[d].pc} \cap {"none", "context", "report"} = {}
  BY <1>1, <1>2 DEF TypeOK, Finishes
<1>4. (~gate \/ ppc \in {"complete", "finish"} => Paused)'
  BY <1>1 DEF Reasons, Paused, pauseVars
<1>5. ASSUME NEW d \in Calls PROVE SyncReason(d)'
  BY <1>1, <1>2, SyncStays DEF Paused, callVars, mapVars, pauseVars
<1>6. ASSUME NEW d \in Calls, cbs'[d] = cbs[d] PROVE AsyncReason(d)'
  BY <1>1, <1>2, <1>3, <1>6, AsyncStays DEF Paused, AsyncReason, callVars, wdVars, mapVars,
     pauseVars
<1>7. CASE HasCallback(c) /\ fin[c].ctx
  <2>1. Promised(c) /\ cbs[c] = <<>> /\ pc[c] # "idle"
    BY <1>1, <1>2, <1>7 DEF AsyncReason, Reported, Owned, Finishing
  <2>2. PICK f \in Codes : f = fin[c].res /\ f = Final(c)
    BY <1>1, <1>2, <2>1 DEF TypeOK, Finishes, Promised
  <2>3. Told(c, f)'
    BY <1>1, <2>1, <2>2 DEF Promised, Told, Explained, IsAsync, callVars, mapVars, pauseVars
  <2>4. cbs'[c] = <<f>> /\ cbs'[c][1] = f /\ fin'[c].pc = "done" /\ fin'[c].res = f
    <3>1. cbs' = [cbs EXCEPT ![c] = Append(@, f)] /\ cbs[c] = <<>> /\ c \in DOMAIN cbs
      BY <1>1, <1>2, <1>7, <2>1, <2>2 DEF TypeOK
    <3>2. cbs'[c] = <<f>> /\ cbs'[c][1] = f
      BY <3>1
    <3>3. fin'[c].pc = "done" /\ fin'[c].res = f
      BY <1>1, <1>2, <2>2 DEF TypeOK, Finishes
    <3> QED
      BY <3>2, <3>3
  <2>5. Final(c)' = f /\ Settled(c)'
    BY <1>1, <2>1, <2>2 DEF Final, Settled, Promised, mapVars
  <2>6. telem[c] # <<>> => telem[c] = <<OutcomeOf(f)>>
    BY <1>1, <2>1, <2>2 DEF Promised
  <2>7. Promised(c)' /\ Told(c, cbs[c][1])'
    BY <1>1, <2>3, <2>4, <2>5, <2>6 DEF Promised, Told, Explained, OutcomeOf
  <2>8. telem'[c] # <<>> => telem'[c] = <<OutcomeOf(cbs'[c][1])>>
    BY <1>1, <2>4, <2>6 DEF OutcomeOf
  <2>9. AsyncReason(c)'
    BY <1>1, <1>2, <2>1, <2>7, <2>8 DEF AsyncReason, callVars, wdVars, mapVars
  <2>10. \A d \in Calls : d # c => cbs'[d] = cbs[d]
    BY <1>1, <1>2 DEF TypeOK
  <2> QED
    BY <1>1, <1>2, <1>4, <1>5, <1>6, <2>9, <2>10 DEF Reasons
<1>8. CASE ~(HasCallback(c) /\ fin[c].ctx)
  BY <1>1, <1>2, <1>4, <1>5, <1>6, <1>8 DEF Reasons
<1> QED
  BY <1>7, <1>8

\* A pause completes every waiting synchronous call, whose shutdown is then true.
LEMMA CompleteAllPendingOperationsReason ==
  ASSUME OInv, Reasons, CompleteAllPendingOperations
  PROVE  Reasons'
<1>1. /\ ppc = "complete" /\ UNCHANGED <<callVars, wdVars, inMap, count, gate, dying, pauses,
                                         fin, cbs, heirs, telem>>
      /\ op' = [d \in Calls |->
                  IF d \notin {c \in inMap : ~op[c].async} THEN op[d]
                  ELSE [op[d] EXCEPT !.result = "SHUTDOWN", !.signaled = TRUE]]
  BY DEF CompleteAllPendingOperations, CompleteOperation, NoAnswer
<1>2. /\ TypeOK /\ Paused
      /\ \A d \in Calls : /\ heirs[d] = {} /\ AsyncReason(d) /\ SyncReason(d)
                          /\ Stage(d) /\ Owned(d) /\ Reported(d)
  BY <1>1 DEF Reasons, OInv, PerCall
<1>3. \A d \in Calls :
        /\ op'[d].async = op[d].async /\ op'[d].ctx = op[d].ctx
        /\ op'[d].deadline = op[d].deadline /\ op'[d].answer = op[d].answer
        /\ \/ op'[d].result = "SHUTDOWN"
           \/ op'[d].result = op[d].result /\ op'[d].signaled = op[d].signaled
        /\ op[d].async => op'[d] = op[d]
  <2>1. \A d \in Calls :
          LET o == [op[d] EXCEPT !.result = "SHUTDOWN", !.signaled = TRUE]
          IN  /\ o.async = op[d].async /\ o.ctx = op[d].ctx /\ o.deadline = op[d].deadline
              /\ o.answer = op[d].answer /\ o.result = "SHUTDOWN"
    BY <1>2 DEF TypeOK, Operations
  <2> QED
    BY <1>1, <2>1
<1>4. Paused'
  BY <1>1, <1>2 DEF Paused
<1>5. ASSUME NEW d \in Calls PROVE AsyncReason(d)'
  <2>1. fin[d].pc # "none" => op'[d] = op[d]
    BY <1>2, <1>3 DEF Owned
  <2> QED
    <3>1. UNCHANGED <<ask, pc, wire, wdList, inMap, fin, cbs, telem>>
      BY <1>1 DEF callVars, wdVars
    <3>2. /\ op'[d].async = op[d].async /\ op'[d].deadline = op[d].deadline
          /\ d \in wdList => op[d].async /\ op[d].deadline = 0
          /\ pc[d] \in {"idle", "add", "mark", "context", "stamp", "arm"} => op[d].deadline = NoDeadline
      BY <1>2, <1>3 DEF AsyncReason
    <3> QED
      BY <1>2, <1>4, <2>1, <3>1, <3>2, AsyncStays
<1>6. ASSUME NEW d \in Calls PROVE SyncReason(d)'
  <2>1. CASE op'[d].result = op[d].result /\ op'[d].signaled = op[d].signaled
    BY <1>1, <1>2, <1>3, <1>4, <2>1, SyncStays DEF callVars
  <2>2. CASE op'[d].result = "SHUTDOWN"
    <3>1. ASSUME IsSync(d), Explained(d, res[d]) PROVE Explained(d, res[d])'
      <4>1. PICK q \in Codes : q = res[d]
        BY <1>2 DEF TypeOK
      <4>2. Explained(d, q)'
        BY <1>1, <1>2, <1>4, <3>1, <4>1, ExplainedStays DEF IsSync, IsAsync, callVars
      <4> QED
        BY <1>1, <4>1, <4>2 DEF Explained, callVars
    <3>2. UNCHANGED <<ask, pc, res, until, wire>>
      BY <1>1 DEF callVars
    <3>3. op'[d].answer = op[d].answer
      BY <1>3
    <3> QED
      BY <1>2, <1>4, <2>2, <3>1, <3>2, <3>3 DEF SyncReason, Stage, IsSync
  <2> QED
    BY <1>2, <1>3, <2>1, <2>2
<1> QED
  BY <1>1, <1>2, <1>4, <1>5, <1>6 DEF Reasons

\* A FinishAsyncInvoke whose caller has a reason for the code it passes keeps the reasons.
LEMMA ClaimReason ==
  ASSUME OInv, Reasons, NEW c \in Calls, NEW r \in Codes, NEW k \in Answers \cup {NoAnswer}, NEW t,
         FinishAsyncInvoke(c, r, k, t),
         UNCHANGED <<ask, res, until, cbs, heirs, telem, gate, ppc, dying, pauses>>,
         wdList' \subseteq wdList,
         \A e \in Calls :
           pc'[e] = pc[e] \/ (pc[e] = "sent" /\ IsAsync(e) /\ pc'[e] = "finishing"),
         \A e \in Calls : wire'[e] = wire[e] \/ (e = c /\ wire[c] = "sent"),
         k # NoAnswer => r = RoseResult[k] /\ wire[c] = "sent" /\ wire'[c] = k,
         k = NoAnswer /\ HasCallback(c) => r \in TransportErrors,
         Found(c) /\ r = "TIMEOUT" => op[c].deadline = 0,
         r = "SHUTDOWN" => Paused,
         r = "TRANSPORTFAILED" => pc'[c] = "finishing" /\ wire'[c] = "none"
  PROVE  Reasons'
<1>1. /\ TypeOK
      /\ \A d \in Calls : /\ heirs[d] = {} /\ AsyncReason(d) /\ SyncReason(d)
                          /\ Stage(d) /\ Owned(d) /\ Written(d) /\ Reported(d)
  BY DEF Reasons, OInv, PerCall
<1>2. (~gate \/ ppc \in {"complete", "finish"} => Paused)'
  BY DEF Reasons, Paused
<1>3. \A d \in Calls : wire[d] = "sent" => op[d].answer = NoAnswer
  <2> SUFFICES ASSUME NEW d \in Calls, wire[d] = "sent" PROVE op[d].answer = NoAnswer
    OBVIOUS
  <2>1. op[d].answer \in Answers \cup {NoAnswer}
    BY <1>1 DEF TypeOK, Operations
  <2>2. op[d].answer # "sent"
    BY <2>1, AnswerKinds DEF NoAnswer
  <2> QED
    BY <1>1, <2>2 DEF SyncReason
<1>4. ASSUME NEW d \in Calls, op'[d] = op[d] PROVE SyncReason(d)'
  <2>1. CASE pc'[d] = pc[d]
    BY <1>1, <1>3, <1>4, <2>1, SyncStays DEF Paused
  <2>2. CASE pc'[d] # pc[d]
    <3>1. pc[d] = "sent" /\ IsAsync(d) /\ pc'[d] = "finishing"
      BY <2>2
    <3>2. op[d].answer # NoAnswer => wire'[d] = op[d].answer
      BY <1>1, <1>3 DEF SyncReason
    <3> QED
      BY <1>1, <1>4, <3>1, <3>2 DEF SyncReason, IsSync, IsAsync, Paused
  <2> QED
    BY <2>1, <2>2
<1>5. ASSUME NEW d \in Calls, op'[d] = op[d], fin'[d] = fin[d], inMap' \subseteq inMap
      PROVE  AsyncReason(d)'
  BY <1>1, <1>5, AsyncStays DEF Paused, AsyncReason
<1>6. CASE ~Found(c)
  <2>1. UNCHANGED <<inMap, fin, op>>
    BY <1>6 DEF FinishAsyncInvoke
  <2> QED
    BY <1>1, <1>2, <1>4, <1>5, <2>1 DEF Reasons
<1>7. CASE Found(c)
  <2>1. /\ c \in inMap /\ op[c].async /\ IsAsync(c) /\ inMap' = inMap \ {c}
        /\ op' = [op EXCEPT ![c].result = r, ![c].answer = IF ask[c].timeout = 0 THEN @ ELSE k]
        /\ fin'[c].pc = "context" /\ fin'[c].res = r
        /\ \A d \in Calls : d # c => fin'[d] = fin[d]
    <3>1. c \in inMap /\ op[c].async /\ IsAsync(c)
      BY <1>1, <1>7 DEF Found, Owned
    <3>2. /\ inMap' = inMap \ {c}
          /\ op' = [op EXCEPT ![c].result = r, ![c].answer = IF ask[c].timeout = 0 THEN @ ELSE k]
          /\ fin' = [fin EXCEPT ![c] = [pc |-> "context", by |-> t, res |-> r, ctx |-> FALSE,
                                        at |-> IF pc[c] \in Registering THEN pc[c] ELSE "none"]]
      BY <1>7 DEF FinishAsyncInvoke
    <3>3. /\ fin'[c].pc = "context" /\ fin'[c].res = r
          /\ \A d \in Calls : d # c => fin'[d] = fin[d]
      BY <1>1, <3>2 DEF TypeOK
    <3> QED
      BY <3>1, <3>2, <3>3
  <2>2. /\ op'[c].async = op[c].async /\ op'[c].ctx = op[c].ctx /\ op'[c].deadline = op[c].deadline
        /\ op'[c].result = r
        /\ op'[c].answer = IF ask[c].timeout = 0 THEN op[c].answer ELSE k
        /\ \A d \in Calls : d # c => op'[d] = op[d]
    <3>1. PICK a \in Answers \cup {NoAnswer} :
            a = IF ask[c].timeout = 0 THEN op[c].answer ELSE k
      BY <1>1 DEF TypeOK, Operations
    <3>2. op' = [op EXCEPT ![c].result = r, ![c].answer = a]
      BY <2>1, <3>1
    <3>3. op[c] \in Operations /\ \A d \in Calls : d # c => op'[d] = op[d]
      BY <1>1, <3>2 DEF TypeOK
    <3>4. op'[c] = [op[c] EXCEPT !.result = r, !.answer = a]
      BY <1>1, <3>2 DEF TypeOK, Operations
    <3> QED
      BY <3>1, <3>3, <3>4 DEF Operations
  <2>3. ASSUME NEW d \in Calls, d # c PROVE AsyncReason(d)' /\ SyncReason(d)'
    BY <1>4, <1>5, <2>1, <2>2, <2>3
  <2>4. SyncReason(c)'
    <3>1. op'[c].answer # NoAnswer => wire'[c] = op'[c].answer
      BY <1>1, <1>3, <2>2 DEF SyncReason
    <3>2. op'[c].result = "SHUTDOWN" => Paused'
      BY <2>2 DEF Paused
    <3>3. /\ ask'[c].how = "async" /\ res'[c] = res[c] /\ pc'[c] \in {pc[c], "finishing"}
          /\ pc'[c] = "sent" => wire'[c] = wire[c] \/ wire[c] = "sent"
      BY <2>1 DEF IsAsync
    <3>4. pc[c] \notin {"wait", "woke", "timedout", "finish", "telemetry", "remove"}
      BY <1>1, <2>1 DEF Stage, IsSync, IsAsync
    <3>5. /\ pc'[c] = "sent" => res'[c] \in {"NOERROR", "TRANSPORTFAILED"}
          /\ pc'[c] = "sent" /\ res'[c] = "TRANSPORTFAILED" => wire'[c] = "none"
      BY <1>1, <3>3 DEF SyncReason
    <3> QED
      BY <3>1, <3>2, <3>3, <3>4, <3>5 DEF SyncReason, IsSync
  <2>5. AsyncReason(c)'
    <3>1. /\ cbs'[c] = <<>> /\ c \notin inMap' /\ ask' = ask
          /\ c \in wdList' => op'[c].async /\ op'[c].deadline = 0
          /\ pc'[c] \in {"idle", "add", "mark", "context", "stamp", "arm"} => op'[c].deadline = NoDeadline
      BY <1>1, <2>1, <2>2 DEF AsyncReason, Reported
    <3>2. ASSUME HasCallback(c) PROVE Promised(c)'
      <4>1. op'[c].answer = k /\ ask[c].timeout # 0
        BY <2>2, <3>2 DEF HasCallback
      <4>2. k # NoAnswer => op[c].ctx
        <5>1. k # NoAnswer => pc[c] \notin Early
          BY <1>1 DEF Stage
        <5> QED
          BY <1>1, <2>1, <5>1 DEF Written, Early
      <4>3. Settled(c)'
        BY <2>2, <3>2, <4>1, <4>2 DEF Settled
      <4>4. CASE k = NoAnswer
        <5>1. Final(c)' = r /\ r \in TransportErrors
          BY <2>2, <3>2, <4>1, <4>4 DEF Final
        <5>2. Told(c, r)'
          BY <1>7, <2>1, <2>2, <3>1, <5>1 DEF Told, Explained, TransportErrors, Paused, IsAsync
        <5>3. Told(c, Final(c))'
          BY <5>1, <5>2 DEF Told, Explained
        <5> QED
          BY <2>1, <2>2, <4>3, <5>3 DEF Promised
      <4>5. CASE k # NoAnswer
        <5>1. k \in {"result", "error", "reject", "garbled"} /\ wire'[c] = k
          BY <4>5, AnswerKinds
        <5>2. r = RoseResult[k] /\ r \notin TransportErrors
          BY <4>5, <5>1 DEF RoseResult, TransportErrors
        <5>3. Final(c)' = HandleInvokeResult(r, k)
          BY <2>2, <4>1, <4>5 DEF Final
        <5>4. PICK f : f = HandleInvokeResult(r, k)
          OBVIOUS
        <5>5. f = IF k = "garbled" THEN "DECODE_FAILED" ELSE RoseResult[k]
          BY <5>2, <5>4 DEF HandleInvokeResult
        <5>6. <<k, f>> \in {<<"result", "NOERROR">>, <<"error", "ERROR_VALUE">>, <<"reject", "REJECT">>,
                         <<"garbled", "DECODE_FAILED">>}
          BY <5>1, <5>5 DEF RoseResult
        <5>7. Told(c, f)'
          BY <5>1, <5>6 DEF Told, Explained
        <5>8. Told(c, Final(c))'
          BY <5>3, <5>4, <5>7 DEF Told, Explained
        <5> QED
          BY <2>1, <2>2, <4>3, <5>8 DEF Promised
      <4> QED
        BY <4>4, <4>5
    <3> QED
      BY <3>1, <3>2 DEF AsyncReason, HasCallback, IsAsync
  <2> QED
    BY <1>1, <1>2, <2>3, <2>4, <2>5 DEF Reasons
<1> QED
  BY <1>6, <1>7

\* SendInvokeAsync finishes its own operation: the send failed, or nobody waits for an answer.
LEMMA FinishAfterSendReason ==
  ASSUME NEW c \in Calls, OInv, Reasons, FinishAfterSend(c)
  PROVE  Reasons'
<1>1. /\ TypeOK /\ heirs[c] = {} /\ SyncReason(c)
  BY DEF Reasons, OInv
<1>2. /\ FinishAsyncInvoke(c, res[c], NoAnswer, c)
      /\ pc[c] = "sent" /\ IsAsync(c) /\ pc' = [pc EXCEPT ![c] = "finishing"]
      /\ ask[c].timeout = 0 \/ res[c] # "NOERROR"
      /\ UNCHANGED <<ask, res, until, wire, wdVars, pauseVars, cbs, heirs, telem>>
  BY <1>1 DEF FinishAfterSend, Goto
<1>3. PICK r \in Codes : r = res[c]
  BY <1>1 DEF TypeOK
<1>4. r \in {"NOERROR", "TRANSPORTFAILED"} /\ (r = "TRANSPORTFAILED" => wire[c] = "none")
  BY <1>1, <1>2, <1>3 DEF SyncReason
<1>5. FinishAsyncInvoke(c, r, NoAnswer, c)
  BY <1>2, <1>3
<1>6. HasCallback(c) => r = "TRANSPORTFAILED"
  BY <1>2, <1>3, <1>4 DEF HasCallback
<1> QED
  BY <1>1, <1>2, <1>4, <1>5, <1>6, ClaimReason DEF TransportErrors, TypeOK, wdVars, pauseVars

\* The receiver completes an operation with what came over the wire.
LEMMA CompletePendingOperationReason ==
  ASSUME NEW c \in Calls, NEW k \in Answers, OInv, Reasons, CompletePendingOperation(c, k)
  PROVE  Reasons'
<1>1. /\ wire[c] = "sent" /\ wire' = [wire EXCEPT ![c] = k]
      /\ UNCHANGED <<ask, pc, res, until, wdVars, pauseVars, cbs, heirs, telem>>
  BY DEF CompletePendingOperation
<1>2. /\ TypeOK
      /\ \A d \in Calls : /\ heirs[d] = {} /\ AsyncReason(d) /\ SyncReason(d)
                          /\ Stage(d) /\ Owned(d) /\ Reported(d)
  BY DEF Reasons, OInv, PerCall
<1>3. k \in {"result", "error", "reject", "garbled"} /\ k # NoAnswer
  BY AnswerKinds DEF NoAnswer
<1>4. PICK r \in Codes : r = RoseResult[k] /\ r \in {"NOERROR", "ERROR_VALUE", "REJECT"}
  BY <1>3 DEF RoseResult, Codes
<1>5. wire'[c] = k
  BY <1>1, <1>2 DEF TypeOK
<1>6. CASE ~(c \in inMap /\ ~op[c].async)
  <2>1. FinishAsyncInvoke(c, r, k, "receiver")
    BY <1>4, <1>6 DEF CompletePendingOperation
  <2> QED
    BY <1>1, <1>2, <1>3, <1>4, <1>5, <2>1, ClaimReason DEF TypeOK, wdVars, pauseVars
<1>7. CASE c \in inMap /\ ~op[c].async
  <2>1. /\ UNCHANGED <<inMap, fin>>
        /\ op' = [d \in Calls |->
                    IF d # c THEN op[d]
                    ELSE [op[d] EXCEPT !.result = r, !.signaled = TRUE, !.answer = k]]
    BY <1>3, <1>4, <1>7 DEF CompletePendingOperation, CompleteOperation
  <2>2. /\ op'[c].async = op[c].async /\ op'[c].ctx = op[c].ctx /\ op'[c].deadline = op[c].deadline
        /\ op'[c].result = r /\ op'[c].answer = k
        /\ \A d \in Calls : d # c => op'[d] = op[d] /\ wire'[d] = wire[d]
    <3>1. LET o == [op[c] EXCEPT !.result = r, !.signaled = TRUE, !.answer = k]
          IN  /\ o.async = op[c].async /\ o.ctx = op[c].ctx /\ o.deadline = op[c].deadline
              /\ o.result = r /\ o.answer = k
      BY <1>2 DEF TypeOK, Operations
    <3> QED
      BY <1>1, <1>2, <2>1, <3>1 DEF TypeOK
  <2>3. (~gate \/ ppc \in {"complete", "finish"} => Paused)'
    BY <1>1 DEF Reasons, Paused, pauseVars
  <2>4. ASSUME NEW d \in Calls PROVE AsyncReason(d)'
    <3>1. /\ op'[d].async = op[d].async /\ op'[d].ctx = op[d].ctx /\ op'[d].deadline = op[d].deadline
          /\ wire'[d] = wire[d] \/ wire[d] = "sent"
      BY <1>1, <2>2
    <3>2. UNCHANGED <<ask, pc, wdList, inMap, fin, telem, cbs, dying, pauses>>
      BY <1>1, <2>1 DEF wdVars, pauseVars
    <3>3. fin[d].pc # "none" => op'[d] = op[d]
      BY <1>2, <1>7, <2>2 DEF Owned
    <3> QED
      BY <1>2, <3>1, <3>2, <3>3, AsyncStays DEF Paused, AsyncReason
  <2>5. ASSUME NEW d \in Calls, d # c PROVE SyncReason(d)'
    BY <1>1, <1>2, <2>2, <2>5, SyncStays DEF Paused, pauseVars
  <2>6. SyncReason(c)'
    <3>1. ASSUME IsSync(c), Explained(c, res[c]) PROVE Explained(c, res[c])'
      <4>1. PICK q \in Codes : q = res[c]
        BY <1>2 DEF TypeOK
      <4>2. Explained(c, q)'
        BY <1>1, <1>2, <3>1, <4>1, ExplainedStays DEF Paused, IsSync, IsAsync, pauseVars
      <4> QED
        BY <1>1, <4>1, <4>2 DEF Explained
    <3> QED
      BY <1>1, <1>2, <1>3, <1>4, <1>5, <2>2, <3>1 DEF SyncReason, Stage, IsSync
  <2> QED
    BY <1>1, <1>2, <2>3, <2>4, <2>5, <2>6 DEF Reasons
<1> QED
  BY <1>6, <1>7

\* The watchdog times an operation out whose time is up.
LEMMA WatchdogFinishReason ==
  ASSUME NEW c \in Calls, OInv, Reasons, WatchdogFinish(c)
  PROVE  Reasons'
<1>1. /\ c \in wdList /\ FinishAsyncInvoke(c, "TIMEOUT", NoAnswer, "watchdog")
      /\ wdList' \subseteq wdList /\ UNCHANGED <<callVars, pauseVars, cbs, heirs, telem>>
  BY DEF WatchdogFinish
<1>2. op[c].deadline = 0
  BY <1>1 DEF Reasons, AsyncReason
<1>3. "TIMEOUT" \in Codes /\ "TIMEOUT" \in TransportErrors
  BY DEF Codes, TransportErrors
<1> QED
  BY <1>1, <1>2, <1>3, ClaimReason DEF callVars, pauseVars

\* A pause completes an asynchronous operation: the session is paused.
LEMMA PauseFinishReason ==
  ASSUME NEW c \in Calls, OInv, Reasons, PauseFinish(c)
  PROVE  Reasons'
<1>1. /\ ppc = "finish" /\ FinishAsyncInvoke(c, "SHUTDOWN", NoAnswer, "pauser")
      /\ UNCHANGED <<callVars, wdVars, gate, ppc, dying, pauses, cbs, heirs,
                    telem>>
  BY DEF PauseFinish
<1>2. Paused
  BY <1>1 DEF Reasons
<1>3. "SHUTDOWN" \in Codes /\ "SHUTDOWN" \in TransportErrors
  BY DEF Codes, TransportErrors
<1> QED
  BY <1>1, <1>2, <1>3, ClaimReason DEF callVars, wdVars

\* The second layer holds before the first call.
LEMMA InitReasons == Init => Reasons
  BY DEF Init, Reasons, AsyncReason, SyncReason, NewOp, NotFinishing, NoAnswer, NoDeadline

\* Every step keeps it.
LEMMA ReasonsStep == ~Reuse /\ OInv /\ Reasons /\ [Next]_vars => Reasons'
<1> SUFFICES ASSUME ~Reuse, OInv, Reasons, [Next]_vars PROVE Reasons'
  OBVIOUS
<1>1. ASSUME NEW c \in Calls, RefuseShutdown(c) \/ RefuseBlocked(c) \/ PassGate(c)
      PROVE  Reasons'
  BY <1>1, RefuseReason, PassGateReason DEF RefuseShutdown, RefuseBlocked
<1>2. ASSUME NEW c \in Calls, CallStep(c) PROVE Reasons'
  BY <1>2, AddPendingOperationReason, SendReason, EventSentReason, SkipWaitReason,
     StartWaitReason, WaitCompletedReason, WaitTimedOutReason, ReadCompletionReason,
     RecordTimeoutReason, HandleAnswerReason, ReportCallReason, RemovePendingOperationReason,
     MarkAsyncReason, StoreContextReason, StampTelemetryReason, ArmDeadlineReason,
     CountDeadlineReason, EnsureWatchdogRunningReason,
     NotifyReadReason, NotifyStopReason, FinishAfterSendReason, ReturnAsyncReason DEF CallStep
<1>3. ASSUME NEW c \in Calls, FinishStep(c) PROVE Reasons'
  BY <1>3, FinishContextReason, FinishReportReason, FinishReadReason, FinishStopReason,
     FinishCallbackReason DEF FinishStep
<1>4. ASSUME NEW c \in Calls, NEW k \in Answers, CompletePendingOperation(c, k) PROVE Reasons'
  BY <1>4, CompletePendingOperationReason
<1>5. CASE WatchdogStep
  BY <1>5, WatchdogScanReason, WatchdogStopSeenReason, WatchdogWorkSeenReason,
     WatchdogDeadlineReason, ProcessAsyncTimeoutsReason, WatchdogFinishReason,
     WatchdogLoopReason, WatchdogExitReason DEF WatchdogStep
<1>6. CASE PauseStep
  BY <1>6, CompleteAllPendingOperationsReason, PauseFinishReason, PauseReturnReason,
     StopWatchdogThreadReason, JoinWatchdogThreadReason DEF PauseStep
<1>7. CASE PauseRoseProcessing \/ Destroy \/ ResumeRoseProcessing \/ Tick
  BY <1>7, PauseRoseProcessingReason, DestroyReason, ResumeRoseProcessingReason, TickReason
<1>8. CASE UNCHANGED vars
  BY <1>8, StutterReason
<1> QED
  BY <1>1, <1>2, <1>3, <1>4, <1>5, <1>6, <1>7, <1>8 DEF Next

\* What a caller was told has its reason in every state, unless freed operations are reused.
LEMMA ReasonsInvariant == ~Reuse => (Spec => [](OInv /\ Reasons))
<1> SUFFICES ASSUME ~Reuse PROVE Spec => [](OInv /\ Reasons)
  OBVIOUS
<1>1. Init => OInv /\ Reasons
  BY InitOInv, InitReasons
<1>2. OInv /\ Reasons /\ [Next]_vars => (OInv /\ Reasons)'
  BY OInvStep, ReasonsStep
<1> QED
  BY <1>1, <1>2, PTL DEF Spec

-----------------------------------------------------------------------------
(* The third layer: the gate and the clocks *)

\* A call whose operation is blocked has no part in anything, and time runs only for a call
\* with a deadline, from its wait on.

Clock(c) ==
  /\ pc[c] \notin {"idle", "returned"} => ~ask[c].blocked
  /\ until[c] # NoDeadline => ask[c].timeout > 0 /\ pc[c] \notin Early \cup {"sent"}
  /\ op[c].deadline # NoDeadline => ask[c].timeout > 0
  /\ op[c].async => ~ask[c].blocked
  /\ pc[c] = "arm" => ask[c].timeout > 0

Clocks == \A c \in Calls : Clock(c)

\* A step that moves no call into the gate and sets no time.
LEMMA ClockStays ==
  ASSUME NEW c \in Calls, Clock(c), ask' = ask, until'[c] = until[c],
         op'[c].deadline = op[c].deadline \/ op'[c].deadline = NoDeadline,
         op'[c].async => op[c].async \/ pc[c] \notin {"idle", "returned"},
         \/ pc'[c] = pc[c]
         \/ pc'[c] = "returned"
         \/ /\ pc[c] # "idle" /\ pc[c] # "returned"
            /\ pc'[c] \in Early \cup {"sent"} => pc[c] \in Early \cup {"sent"},
         pc'[c] = "arm" => pc[c] = "arm" \/ ask[c].timeout > 0
  PROVE  Clock(c)'
  BY DEF Clock, Early

\* The label of each call before and after a step of the call c.
Moves(c) ==
  /\ \E l : pc' = [pc EXCEPT ![c] = l]
  /\ pc[c] # "idle" /\ pc[c] # "returned"
  /\ pc'[c] \in Early \cup {"sent"} => pc[c] \in Early \cup {"sent"}
  /\ pc'[c] = "arm" => ask[c].timeout > 0

\* A step of a call that changes no deadline of an operation.
LEMMA MoveKeepsClocks ==
  ASSUME TypeOK, Clocks, NEW c \in Calls, Moves(c), UNCHANGED <<ask, until>>,
         \A d \in Calls : /\ op'[d].deadline = op[d].deadline \/ op'[d].deadline = NoDeadline
                          /\ op'[d].async => op[d].async \/ d = c
  PROVE  Clocks'
<1> SUFFICES ASSUME NEW d \in Calls PROVE Clock(d)'
  BY DEF Clocks
<1>1. d # c => pc'[d] = pc[d]
  BY DEF Moves, TypeOK
<1> QED BY <1>1, ClockStays DEF Clocks, Moves

\* A step of another thread that changes no deadline.
LEMMA OtherKeepsClocks ==
  ASSUME Clocks, UNCHANGED <<ask, pc, until>>,
         \A d \in Calls : op'[d].deadline = op[d].deadline /\ op'[d].async = op[d].async
  PROVE  Clocks'
  BY ClockStays DEF Clocks

\* CompleteOperation leaves the kind and the deadline of an operation.
LEMMA CompleteKeeps ==
  ASSUME TypeOK, NEW cs, NEW r, NEW k, CompleteOperation(cs, r, k), NEW d \in Calls
  PROVE  op'[d].deadline = op[d].deadline /\ op'[d].async = op[d].async
<1>1. op[d] \in Operations
  BY DEF TypeOK
<1>2. CASE d \notin cs
  BY <1>2 DEF CompleteOperation
<1>3. CASE d \in cs
  <2>1. PICK o : o = op[d]
    OBVIOUS
  <2>2. op'[d] = [o EXCEPT !.result = r, !.signaled = TRUE,
                           !.answer = IF k = NoAnswer THEN @ ELSE k]
    BY <1>3, <2>1 DEF CompleteOperation
  <2>3. o \in Operations
    BY <1>1, <2>1
  <2>4. op'[d].deadline = o.deadline /\ op'[d].async = o.async
    BY <2>2, <2>3 DEF Operations
  <2> QED BY <2>1, <2>4
<1> QED BY <1>2, <1>3

\* So does FinishAsyncInvoke.
LEMMA FinishKeeps ==
  ASSUME TypeOK, NEW c, NEW r, NEW k, NEW t, FinishAsyncInvoke(c, r, k, t), NEW d \in Calls
  PROVE  op'[d].deadline = op[d].deadline /\ op'[d].async = op[d].async
<1>1. CASE ~Found(c)
  BY <1>1 DEF FinishAsyncInvoke
<1>2. CASE Found(c)
  <2>1. PICK a : op' = [op EXCEPT ![c].result = r, ![c].answer = a]
    BY <1>2 DEF FinishAsyncInvoke
  <2>2. PICK o \in Operations : o = op[d]
    BY DEF TypeOK
  <2>3. op'[d] = o \/ op'[d] = [o EXCEPT !.result = r, !.answer = a]
    BY <2>1, <2>2 DEF TypeOK
  <2>4. op'[d].deadline = o.deadline /\ op'[d].async = o.async
    BY <2>2, <2>3 DEF Operations
  <2> QED BY <2>2, <2>4
<1> QED BY <1>1, <1>2

\* The steps of a call keep it.
LEMMA CallKeepsClocks ==
  ASSUME NEW c \in Calls, OInv, Clocks, CallStep(c)
  PROVE  Clocks'
<1>0. TypeOK /\ \A d \in Calls : Clock(d)
  BY DEF OInv, Clocks
<1>1. CASE \E o \in SendOutcomes : Send(c, o)
  BY <1>0, <1>1, MoveKeepsClocks DEF Send, Moves, Goto, Early, TypeOK, mapVars
<1>2. CASE EventSent(c)
  BY <1>0, <1>2, MoveKeepsClocks DEF EventSent, Moves, Goto, Early, TypeOK, mapVars
<1>3. CASE WaitTimedOut(c)
  BY <1>0, <1>3, MoveKeepsClocks DEF WaitTimedOut, Moves, Goto, Early, TypeOK, mapVars
<1>4. CASE ReadCompletion(c)
  BY <1>0, <1>4, MoveKeepsClocks DEF ReadCompletion, Moves, Goto, Early, TypeOK, mapVars
<1>5. CASE HandleAnswer(c)
  BY <1>0, <1>5, MoveKeepsClocks DEF HandleAnswer, Moves, Goto, Early, TypeOK, mapVars
<1>6. CASE ReportCall(c)
  BY <1>0, <1>6, MoveKeepsClocks DEF ReportCall, Moves, Goto, Early, TypeOK, mapVars
<1>7. CASE RemovePendingOperation(c)
  BY <1>0, <1>7, MoveKeepsClocks DEF RemovePendingOperation, Moves, Goto, Early, TypeOK, mapVars
<1>8. CASE CountDeadline(c)
  BY <1>0, <1>8, MoveKeepsClocks DEF CountDeadline, Moves, Goto, Early, TypeOK, mapVars
<1>9. CASE EnsureWatchdogRunning(c)
  BY <1>0, <1>9, MoveKeepsClocks DEF EnsureWatchdogRunning, Moves, Goto, Early, TypeOK, mapVars
<1>10. CASE NotifyRead(c)
  BY <1>0, <1>10, MoveKeepsClocks DEF NotifyRead, Moves, Goto, Early, TypeOK, mapVars
<1>11. CASE NotifyStop(c)
  BY <1>0, <1>11, MoveKeepsClocks DEF NotifyStop, Moves, Goto, Early, TypeOK, mapVars
<1>12. CASE ReturnAsync(c)
  BY <1>0, <1>12, MoveKeepsClocks DEF ReturnAsync, Moves, Goto, Early, TypeOK, mapVars
<1>13. CASE SkipWait(c)
  <2>1. Moves(c) /\ UNCHANGED <<ask, until>>
    BY <1>0, <1>13 DEF SkipWait, Moves, Goto, Early, TypeOK
  <2>2. \A d \in Calls : /\ op'[d].deadline = op[d].deadline
                         /\ op'[d].async => op[d].async \/ d = c
    BY <1>0, <1>13 DEF SkipWait, SetResult, TypeOK, Operations
  <2> QED BY <1>0, <2>1, <2>2, MoveKeepsClocks
<1>14. CASE WaitCompleted(c)
  <2>1. Moves(c) /\ UNCHANGED <<ask, until>>
    BY <1>0, <1>14 DEF WaitCompleted, Moves, Goto, Early, TypeOK
  <2>2. \A d \in Calls : /\ op'[d].deadline = op[d].deadline
                         /\ op'[d].async => op[d].async \/ d = c
    BY <1>0, <1>14 DEF WaitCompleted, TypeOK, Operations
  <2> QED BY <1>0, <2>1, <2>2, MoveKeepsClocks
<1>15. CASE RecordTimeout(c)
  <2>1. Moves(c) /\ UNCHANGED <<ask, until>>
    BY <1>0, <1>15 DEF RecordTimeout, Moves, Goto, Early, TypeOK
  <2>2. \A d \in Calls : /\ op'[d].deadline = op[d].deadline
                         /\ op'[d].async => op[d].async \/ d = c
    BY <1>0, <1>15 DEF RecordTimeout, SetResult, TypeOK, Operations
  <2> QED BY <1>0, <2>1, <2>2, MoveKeepsClocks
<1>16. CASE MarkAsync(c)
  <2>1. Moves(c) /\ UNCHANGED <<ask, until>>
    BY <1>0, <1>16 DEF MarkAsync, Moves, Goto, Early, TypeOK
  <2>2. \A d \in Calls : /\ op'[d].deadline = op[d].deadline
                         /\ op'[d].async => op[d].async \/ d = c
    BY <1>0, <1>16 DEF MarkAsync, TypeOK, Operations
  <2> QED BY <1>0, <2>1, <2>2, MoveKeepsClocks
<1>17. CASE AddPendingOperation(c)
  <2>1. Moves(c) /\ UNCHANGED <<ask, until>>
    BY <1>0, <1>17 DEF AddPendingOperation, Moves, Goto, Early, TypeOK
  <2>2. \A d \in Calls : /\ op'[d].deadline = op[d].deadline \/ op'[d].deadline = NoDeadline
                         /\ op'[d].async => op[d].async \/ d = c
    BY <1>0, <1>17 DEF AddPendingOperation, NewOp, TypeOK
  <2> QED BY <1>0, <2>1, <2>2, MoveKeepsClocks
<1>18. CASE FinishAfterSend(c)
  <2>1. Moves(c) /\ UNCHANGED <<ask, until>>
    BY <1>0, <1>18 DEF FinishAfterSend, Moves, Goto, Early, TypeOK
  <2>2. \A d \in Calls : op'[d].deadline = op[d].deadline /\ op'[d].async = op[d].async
    BY <1>0, <1>18, FinishKeeps DEF FinishAfterSend
  <2> QED BY <1>0, <2>1, <2>2, MoveKeepsClocks
<1>19. CASE StartWait(c)
  <2>1. /\ ask' = ask /\ op' = op /\ pc[c] = "sent" /\ pc' = [pc EXCEPT ![c] = "wait"]
        /\ until' = [until EXCEPT ![c] = ask[c].timeout] /\ ask[c].timeout # 0
    BY <1>19 DEF StartWait, Goto, mapVars
  <2>2. ask[c].timeout \in Nat \cup {NoDeadline}
    BY <1>0 DEF TypeOK, Requests
  <2>3. Clock(c)'
    <3>1. pc'[c] = "wait" /\ until'[c] = ask[c].timeout
      BY <1>0, <2>1 DEF TypeOK
    <3>2. until'[c] # NoDeadline => ask[c].timeout > 0
      BY <2>1, <2>2, <3>1
    <3> QED BY <1>0, <2>1, <3>1, <3>2 DEF Clock, Early
  <2>4. ASSUME NEW d \in Calls, d # c PROVE Clock(d)'
    <3>1. pc'[d] = pc[d] /\ until'[d] = until[d]
      BY <1>0, <2>1, <2>4 DEF TypeOK
    <3> QED BY <1>0, <2>1, <3>1, ClockStays
  <2> QED BY <2>3, <2>4 DEF Clocks
<1>20. CASE StoreContext(c)
  <2>1. Moves(c) /\ UNCHANGED <<ask, until>>
    BY <1>0, <1>20 DEF StoreContext, Moves, Goto, Early, TypeOK
  <2>2. \A d \in Calls : op'[d].deadline = op[d].deadline /\ op'[d].async = op[d].async
    BY <1>0, <1>20 DEF StoreContext, TypeOK, Operations
  <2> QED BY <1>0, <2>1, <2>2, MoveKeepsClocks
<1>21. CASE StampTelemetry(c)
  <2>1. Moves(c) /\ UNCHANGED <<ask, until>>
    BY <1>0, <1>21 DEF StampTelemetry, Moves, Goto, Early, TypeOK
  <2>2. \A d \in Calls : op'[d].deadline = op[d].deadline /\ op'[d].async = op[d].async
    BY <1>0, <1>21 DEF StampTelemetry, TypeOK, Operations
  <2> QED BY <1>0, <2>1, <2>2, MoveKeepsClocks
<1>22. CASE ArmDeadline(c)
  <2>1. /\ ask' = ask /\ until' = until /\ pc[c] = "arm" /\ Moves(c) /\ ask[c].timeout > 0
    <3>1. /\ ask' = ask /\ until' = until /\ pc[c] = "arm" /\ Moves(c)
      BY <1>0, <1>22 DEF ArmDeadline, Moves, Goto, Early, TypeOK
    <3> QED BY <1>0, <3>1 DEF Clock
  <2>2. \A d \in Calls : d # c => op'[d] = op[d]
    BY <1>0, <1>22 DEF ArmDeadline, TypeOK
  <2>3. Clock(c)'
    <3>1. ~ask[c].blocked
      BY <1>0, <2>1 DEF Clock
    <3> QED BY <1>0, <2>1, <3>1 DEF Clock, Moves, Early
  <2>4. ASSUME NEW d \in Calls, d # c PROVE Clock(d)'
    <3>1. pc'[d] = pc[d]
      BY <1>0, <2>1, <2>4 DEF TypeOK, Moves
    <3> QED BY <1>0, <2>1, <2>2, <2>4, <3>1, ClockStays
  <2> QED BY <2>3, <2>4 DEF Clocks
<1> QED BY <1>1, <1>2, <1>3, <1>4, <1>5, <1>6, <1>7, <1>8, <1>9, <1>10, <1>11, <1>12, <1>13, <1>14,
  <1>15, <1>16, <1>17, <1>18, <1>19, <1>20, <1>21, <1>22 DEF CallStep

\* Every step keeps it.
LEMMA ClocksStep == OInv /\ Clocks /\ [Next]_vars => Clocks'
<1> SUFFICES ASSUME OInv, Clocks, [Next]_vars PROVE Clocks'
  OBVIOUS
<1>0. TypeOK /\ \A d \in Calls : Clock(d)
  BY DEF OInv, Clocks
<1>1. ASSUME NEW c \in Calls, CallStep(c) PROVE Clocks'
  BY <1>1, CallKeepsClocks
<1>2. ASSUME NEW c \in Calls, NEW r, Refuse(c, r) PROVE Clocks'
  <2> SUFFICES ASSUME NEW d \in Calls PROVE Clock(d)'
    BY DEF Clocks
  <2>1. UNCHANGED <<ask, until, op>> /\ (pc'[d] = pc[d] \/ pc'[d] = "returned")
    BY <1>0, <1>2 DEF Refuse, Goto, TypeOK, mapVars
  <2> QED BY <1>0, <2>1, ClockStays
<1>3. ASSUME NEW c \in Calls, PassGate(c) PROVE Clocks'
  <2> SUFFICES ASSUME NEW d \in Calls PROVE Clock(d)'
    BY DEF Clocks
  <2>1. /\ UNCHANGED <<ask, until, op>> /\ ~ask[c].blocked /\ pc[c] = "idle"
        /\ pc'[c] \in {"send", "add"} /\ (d # c => pc'[d] = pc[d])
    BY <1>0, <1>3 DEF PassGate, Goto, TypeOK, mapVars
  <2>2. CASE d = c
    BY <1>0, <2>1, <2>2 DEF Clock, Early
  <2> QED BY <1>0, <2>1, <2>2, ClockStays
<1>4. ASSUME NEW c \in Calls, FinishStep(c) PROVE Clocks'
  <2>1. UNCHANGED <<ask, pc, until, op>>
    BY <1>4 DEF FinishStep, FinishContext, FinishReport, FinishRead, FinishStop, FinishCallback,
       callVars, mapVars
  <2> QED BY <2>1, OtherKeepsClocks
<1>5. ASSUME NEW c \in Calls, NEW k \in Answers, CompletePendingOperation(c, k) PROVE Clocks'
  <2>1. UNCHANGED <<ask, pc, until>>
    BY <1>5 DEF CompletePendingOperation
  <2>2. \A d \in Calls : op'[d].deadline = op[d].deadline /\ op'[d].async = op[d].async
    <3>1. CASE c \in inMap /\ ~op[c].async
      <4>1. CompleteOperation({c}, RoseResult[k], k)
        BY <1>5, <3>1 DEF CompletePendingOperation
      <4> QED BY <1>0, <4>1, CompleteKeeps
    <3>2. CASE ~(c \in inMap /\ ~op[c].async)
      BY <1>0, <1>5, <3>2, FinishKeeps DEF CompletePendingOperation
    <3> QED BY <3>1, <3>2
  <2> QED BY <2>1, <2>2, OtherKeepsClocks
<1>6. CASE WatchdogStep
  <2>1. UNCHANGED <<ask, pc, until>>
    BY <1>6 DEF WatchdogStep, WatchdogScan, WatchdogStopSeen, WatchdogWorkSeen,
       WatchdogDeadline, ProcessAsyncTimeouts, WatchdogFinish, WatchdogLoop, WatchdogExit, callVars
  <2>2. \A d \in Calls : op'[d].deadline = op[d].deadline /\ op'[d].async = op[d].async
    <3>1. CASE \E c \in Calls : WatchdogFinish(c)
      BY <1>0, <3>1, FinishKeeps DEF WatchdogFinish
    <3>2. CASE ~\E c \in Calls : WatchdogFinish(c)
      <4>1. op' = op
        BY <1>6, <3>2 DEF WatchdogStep, WatchdogScan, WatchdogStopSeen, WatchdogWorkSeen,
           WatchdogDeadline, ProcessAsyncTimeouts, WatchdogLoop, WatchdogExit, mapVars
      <4> QED BY <4>1
    <3> QED BY <3>1, <3>2
  <2> QED BY <2>1, <2>2, OtherKeepsClocks
<1>7. CASE CompleteAllPendingOperations
  <2>1. UNCHANGED <<ask, pc, until>>
    BY <1>7 DEF CompleteAllPendingOperations, callVars
  <2>2. \A d \in Calls : op'[d].deadline = op[d].deadline /\ op'[d].async = op[d].async
    BY <1>0, <1>7, CompleteKeeps DEF CompleteAllPendingOperations
  <2> QED BY <2>1, <2>2, OtherKeepsClocks
<1>8. CASE \/ PauseReturn \/ StopWatchdogThread \/ JoinWatchdogThread
           \/ PauseRoseProcessing \/ Destroy \/ ResumeRoseProcessing \/ UNCHANGED vars
  <2>1. UNCHANGED <<ask, pc, until, op>>
    BY <1>8 DEF PauseReturn, StopWatchdogThread, JoinWatchdogThread,
       PauseRoseProcessing, Destroy, ResumeRoseProcessing, vars, callVars, mapVars
  <2> QED BY <2>1, OtherKeepsClocks
<1>9. CASE Tick
  <2> SUFFICES ASSUME NEW d \in Calls PROVE Clock(d)'
    BY DEF Clocks
  <2>1. ask' = ask /\ pc' = pc
    BY <1>9 DEF Tick
  <2>2. until'[d] \in {until[d], Aged(until[d])}
    BY <1>0, <1>9 DEF Tick, TypeOK
  <2>3. op'[d].deadline \in {op[d].deadline, Aged(op[d].deadline)} /\ op'[d].async = op[d].async
    BY <1>0, <1>9 DEF Tick, TypeOK, Operations
  <2>4. Aged(NoDeadline) = NoDeadline
    BY DEF Aged, NoDeadline
  <2>5. (until'[d] # NoDeadline => until[d] # NoDeadline)
          /\ (op'[d].deadline # NoDeadline => op[d].deadline # NoDeadline)
    BY <2>2, <2>3, <2>4
  <2> QED BY <1>0, <2>1, <2>3, <2>5 DEF Clock
<1>10. ASSUME NEW c \in Calls, PauseFinish(c) PROVE Clocks'
  <2>1. UNCHANGED <<ask, pc, until>>
    BY <1>10 DEF PauseFinish, callVars
  <2>2. \A d \in Calls : op'[d].deadline = op[d].deadline /\ op'[d].async = op[d].async
    BY <1>0, <1>10, FinishKeeps DEF PauseFinish
  <2> QED BY <2>1, <2>2, OtherKeepsClocks
<1> QED BY <1>1, <1>2, <1>3, <1>4, <1>5, <1>6, <1>7, <1>8, <1>9, <1>10
  DEF Next, RefuseShutdown, RefuseBlocked, PauseStep

-----------------------------------------------------------------------------
(* The contract *)

\* Nothing that the application notices: no call is made or told anything, and the peer, the
\* session and the times are as they were.
Unnoticed ==
  /\ UNCHANGED <<ask, wire, gate, pauses, dying, cbs>>
  /\ \A d \in Calls :
       /\ pc'[d] = "idle" <=> pc[d] = "idle"
       /\ IsSync(d) => (pc'[d] = "returned" <=> pc[d] = "returned")
       /\ pc[d] = "returned" => res'[d] = res[d]
       /\ op'[d].deadline = 0 <=> op[d].deadline = 0
       /\ until'[d] = 0 <=> until[d] = 0

\* The contract does not see it.
LEMMA UnnoticedStutters ==
  ASSUME Unnoticed
  PROVE  UNCHANGED Contract!vars
<1>1. Begun' = Begun
  BY DEF Unnoticed, Begun
<1>2. Due' = Due
  BY DEF Unnoticed, Due, IsAsync
<1>3. ToldTo' = ToldTo
  BY DEF Unnoticed, ToldTo, IsSync, IsAsync, HasCallback
<1>4. (pauses > 0 \/ dying)' = (pauses > 0 \/ dying) /\ UNCHANGED <<ask, wire, gate>>
  BY DEF Unnoticed
<1> QED BY <1>1, <1>2, <1>3, <1>4 DEF Contract!vars

\* Most steps of a call.
LEMMA CallUnnoticed ==
  ASSUME NEW c \in Calls, OInv, Reasons, Clocks, CallStep(c),
         ~RemovePendingOperation(c), \A o \in SendOutcomes : ~Send(c, o)
  PROVE  Unnoticed
<1>0. TypeOK /\ Clock(c) /\ AsyncReason(c)
  BY DEF OInv, Clocks, Reasons
<1>1. UNCHANGED <<ask, wire, gate, pauses, dying, cbs>>
  BY DEF CallStep, AddPendingOperation, EventSent, SkipWait, StartWait, WaitCompleted,
     WaitTimedOut, ReadCompletion, RecordTimeout, HandleAnswer, ReportCall, MarkAsync,
     StoreContext, StampTelemetry, ArmDeadline, CountDeadline, EnsureWatchdogRunning,
     NotifyRead, NotifyStop, FinishAfterSend, ReturnAsync,
     pauseVars
<1>2. /\ \A d \in Calls : d # c => pc'[d] = pc[d] /\ res'[d] = res[d]
      /\ pc[c] # "idle" /\ pc'[c] # "idle" /\ pc[c] # "returned"
      /\ IsSync(c) => pc'[c] # "returned"
  BY <1>0 DEF CallStep, AddPendingOperation, EventSent, SkipWait, StartWait, WaitCompleted,
     WaitTimedOut, ReadCompletion, RecordTimeout, HandleAnswer, ReportCall, MarkAsync,
     StoreContext, StampTelemetry, ArmDeadline, CountDeadline, EnsureWatchdogRunning,
     NotifyRead, NotifyStop, FinishAfterSend, ReturnAsync,
     Goto, TypeOK, IsSync, IsAsync, IsEvent
<1>3. \A d \in Calls : until'[d] = 0 <=> until[d] = 0
  <2>1. CASE StartWait(c)
    <3>1. until' = [until EXCEPT ![c] = ask[c].timeout] /\ ask[c].timeout # 0 /\ pc[c] = "sent"
      BY <2>1 DEF StartWait
    <3>2. until[c] = NoDeadline
      BY <1>0, <3>1 DEF Clock
    <3> QED BY <1>0, <3>1, <3>2 DEF TypeOK, NoDeadline
  <2>2. CASE ~StartWait(c)
    <3>1. until' = until
      BY <2>2 DEF CallStep, AddPendingOperation, EventSent, SkipWait, WaitCompleted,
         WaitTimedOut, ReadCompletion, RecordTimeout, HandleAnswer, ReportCall, MarkAsync,
         StoreContext, StampTelemetry, ArmDeadline, CountDeadline, EnsureWatchdogRunning,
         NotifyRead, NotifyStop, FinishAfterSend, ReturnAsync
    <3> QED BY <3>1
  <2> QED BY <2>1, <2>2
<1>4. \A d \in Calls : op'[d].deadline = 0 <=> op[d].deadline = 0
  <2>1. CASE AddPendingOperation(c)
    <3>1. op' = [op EXCEPT ![c] = NewOp] /\ op[c].deadline = NoDeadline
      BY <1>0, <2>1 DEF AddPendingOperation, AsyncReason
    <3>2. NewOp.deadline = NoDeadline
      BY DEF NewOp
    <3> QED BY <1>0, <3>1, <3>2 DEF TypeOK
  <2>2. CASE ArmDeadline(c)
    <3>1. op[c].deadline = NoDeadline /\ pc[c] = "arm" /\ ask[c].timeout > 0
      BY <1>0, <2>2 DEF ArmDeadline, AsyncReason, Clock
    <3>2. op' = op \/ op' = [op EXCEPT ![c].deadline = ask[c].timeout]
      BY <2>2 DEF ArmDeadline
    <3>3. op'[c].deadline \in {op[c].deadline, ask[c].timeout} /\ \A d \in Calls : d # c => op'[d] = op[d]
      BY <1>0, <3>2 DEF TypeOK, Operations
    <3>4. ask[c].timeout # 0
      BY <3>1
    <3> QED BY <3>1, <3>3, <3>4 DEF NoDeadline
  <2>3. CASE \/ SkipWait(c) \/ WaitCompleted(c) \/ RecordTimeout(c) \/ MarkAsync(c)
             \/ StoreContext(c) \/ StampTelemetry(c)
    <3>1. CASE SkipWait(c)
      BY <1>0, <3>1 DEF SkipWait, SetResult, TypeOK, Operations
    <3>2. CASE WaitCompleted(c)
      BY <1>0, <3>2 DEF WaitCompleted, TypeOK, Operations
    <3>3. CASE RecordTimeout(c)
      BY <1>0, <3>3 DEF RecordTimeout, SetResult, TypeOK, Operations
    <3>4. CASE MarkAsync(c)
      BY <1>0, <3>4 DEF MarkAsync, TypeOK, Operations
    <3>5. CASE StoreContext(c)
      BY <1>0, <3>5 DEF StoreContext, TypeOK, Operations
    <3>6. CASE StampTelemetry(c)
      BY <1>0, <3>6 DEF StampTelemetry, TypeOK, Operations
    <3> QED BY <2>3, <3>1, <3>2, <3>3, <3>4, <3>5, <3>6
  <2>4. CASE FinishAfterSend(c)
    <3>1. \A d \in Calls : op'[d].deadline = op[d].deadline
      BY <1>0, <2>4, FinishKeeps DEF FinishAfterSend
    <3> QED BY <3>1
  <2>5. CASE \/ EventSent(c) \/ StartWait(c) \/ WaitTimedOut(c) \/ ReadCompletion(c)
             \/ HandleAnswer(c) \/ ReportCall(c) \/ CountDeadline(c) \/ EnsureWatchdogRunning(c)
             \/ NotifyRead(c) \/ NotifyStop(c) \/ ReturnAsync(c)
    <3>1. op' = op
      BY <2>5 DEF EventSent, StartWait, WaitTimedOut, ReadCompletion, HandleAnswer, ReportCall,
         CountDeadline, EnsureWatchdogRunning, NotifyRead, NotifyStop, ReturnAsync, mapVars
    <3> QED BY <3>1
  <2> QED BY <2>1, <2>2, <2>3, <2>4, <2>5 DEF CallStep
<1> QED BY <1>1, <1>2, <1>3, <1>4 DEF Unnoticed

\* What a thread does to a call that it does not call back.
LEMMA OthersUnnoticed ==
  ASSUME UNCHANGED <<ask, wire, gate, pauses, dying, cbs, pc, res, until>>,
         \A d \in Calls : op'[d].deadline = op[d].deadline
  PROVE  Unnoticed
  BY DEF Unnoticed

\* A code that Explained gives a reason for is one the contract lets the caller be told.
LEMMA ExplainedJustifies ==
  ASSUME NEW c \in Calls, NEW r \in Codes, Explained(c, r), r # "REMOTENOTCAPABLE"
  PROVE  Contract!Justified(c, r)
  BY DEF Explained, Codes, Contract!Justified, Due

\* A call is told a code.
LEMMA Tells ==
  ASSUME NEW c \in Calls, NEW r \in Codes, Explained(c, r), r # "REMOTENOTCAPABLE",
         pc[c] # "idle", IsSync(c) \/ HasCallback(c), ToldTo[c] = <<>>,
         ToldTo' = [ToldTo EXCEPT ![c] = <<r>>], Begun' = Begun, Due' = Due,
         UNCHANGED <<ask, wire, gate, pauses, dying>>
  PROVE  Contract!Next
<1>1. Contract!Justified(c, r)
  BY ExplainedJustifies
<1>2. Contract!Asked(c)
  BY DEF Contract!Asked, IsSync, HasCallback, IsAsync
<1>3. c \in Begun
  BY DEF Begun
<1>4. Contract!Tell(c, r)
  BY <1>1, <1>2, <1>3 DEF Contract!Tell
<1> QED BY <1>4 DEF Contract!Next, Codes

\* What only refusals hand out is not told later.
LEMMA NotRefusedLater ==
  ASSUME NEW c \in Calls, ~ask[c].blocked, NEW r, Explained(c, r)
  PROVE  r # "REMOTENOTCAPABLE"
  BY DEF Explained

\* SendInvoke, SendInvokeAsync or SendEvent refuses a call.
LEMMA RefuseRefines ==
  ASSUME NEW c \in Calls, NEW r \in {"SHUTDOWN", "REMOTENOTCAPABLE"}, OInv, Refuse(c, r),
         r = "SHUTDOWN" => ~gate, r = "REMOTENOTCAPABLE" => ask[c].blocked
  PROVE  Contract!Next
<1>0. TypeOK /\ Reported(c)
  BY DEF OInv, PerCall
<1>1. /\ pc[c] = "idle" /\ pc' = [pc EXCEPT ![c] = "returned"] /\ res' = [res EXCEPT ![c] = r]
      /\ cbs' = IF HasCallback(c) THEN [cbs EXCEPT ![c] = Append(@, r)] ELSE cbs
      /\ UNCHANGED <<ask, until, wire, op, gate, dying, pauses>>
  BY DEF Refuse, Goto, mapVars, pauseVars
<1>2. c \notin Begun /\ Begun' = Begun \cup {c}
  BY <1>0, <1>1 DEF Begun, TypeOK
<1>3. Due' = Due
  BY <1>1 DEF Due, IsAsync
<1>4. Contract!Asked(c) <=> IsSync(c) \/ HasCallback(c)
  BY DEF Contract!Asked, IsSync, HasCallback, IsAsync
<1>5. ToldTo' = IF Contract!Asked(c) THEN [ToldTo EXCEPT ![c] = <<r>>] ELSE ToldTo
  <2>1. cbs[c] = <<>>
    BY <1>0, <1>1 DEF Reported
  <2>2. HasCallback(c) => cbs'[c] = <<r>>
    BY <1>0, <1>1, <2>1 DEF TypeOK
  <2>3. pc'[c] = "returned" /\ res'[c] = r
    BY <1>0, <1>1 DEF TypeOK
  <2>4. \A d \in Calls : d # c => pc'[d] = pc[d] /\ res'[d] = res[d] /\ cbs'[d] = cbs[d]
    BY <1>0, <1>1 DEF TypeOK
  <2>5. \A d \in Calls : (HasCallback(d)' <=> HasCallback(d)) /\ (IsSync(d)' <=> IsSync(d))
    BY <1>1 DEF HasCallback, IsSync, IsAsync
  <2>6. ASSUME NEW d \in Calls, d # c PROVE ToldTo'[d] = ToldTo[d]
    BY <2>4, <2>5, <2>6 DEF ToldTo
  <2>7. ToldTo'[c] = IF Contract!Asked(c) THEN <<r>> ELSE <<>>
    BY <1>4, <2>2, <2>3, <2>5 DEF ToldTo
  <2>8. ToldTo[c] = <<>>
    BY <1>1, <2>1 DEF ToldTo
  <2>9. ToldTo = [d \in Calls |-> ToldTo[d]] /\ ToldTo' = [d \in Calls |-> ToldTo'[d]]
    BY DEF ToldTo
  <2> QED BY <2>6, <2>7, <2>8, <2>9
<1>6. Contract!Refuse(c, r)
  BY <1>1, <1>2, <1>3, <1>5 DEF Contract!Refuse
<1> QED BY <1>6 DEF Contract!Next

\* A call passes the gate.
LEMMA PassGateRefines ==
  ASSUME NEW c \in Calls, OInv, PassGate(c)
  PROVE  Contract!Next
<1>0. TypeOK
  BY DEF OInv
<1>1. /\ pc[c] = "idle" /\ gate /\ ~ask[c].blocked
      /\ UNCHANGED <<ask, res, until, wire, op, gate, dying, pauses, cbs>>
  BY DEF PassGate, mapVars, pauseVars
<1>2. pc'[c] \in {"send", "add"} /\ \A d \in Calls : d # c => pc'[d] = pc[d]
  BY <1>0 DEF PassGate, Goto, TypeOK
<1>3. c \notin Begun /\ Begun' = Begun \cup {c}
  BY <1>1, <1>2 DEF Begun
<1>4. Due' = Due
  BY <1>1 DEF Due, IsAsync
<1>5. ToldTo' = ToldTo
  <2>1. \A d \in Calls : pc'[d] = "returned" <=> pc[d] = "returned"
    BY <1>1, <1>2
  <2> QED BY <1>1, <2>1 DEF ToldTo, HasCallback, IsSync, IsAsync
<1>6. Contract!Accept(c)
  BY <1>1, <1>3, <1>4, <1>5 DEF Contract!Accept
<1> QED BY <1>6 DEF Contract!Next

\* The transport takes an invoke, or it does not.
LEMMA SendRefines ==
  ASSUME NEW c \in Calls, NEW o \in SendOutcomes, OInv, Clocks, Send(c, o)
  PROVE  Contract!Next \/ UNCHANGED Contract!vars
<1>0. TypeOK /\ Stage(c) /\ Clock(c)
  BY DEF OInv, PerCall, Clocks
<1>1. /\ pc[c] = "send" /\ wire' = [wire EXCEPT ![c] = IF o = "ok" THEN "sent" ELSE @]
      /\ UNCHANGED <<ask, until, op, gate, dying, pauses, cbs>>
  BY DEF Send, mapVars, pauseVars
<1>2. /\ pc'[c] \in {"threw", "sent"}
      /\ \A d \in Calls : d # c => pc'[d] = pc[d] /\ res'[d] = res[d]
  BY <1>0 DEF Send, Goto, TypeOK
<1>3. CASE o # "ok"
  <2>1. wire' = wire
    BY <1>0, <1>1, <1>3 DEF TypeOK
  <2>2. Unnoticed
    BY <1>1, <1>2, <2>1 DEF Unnoticed
  <2> QED BY <2>2, UnnoticedStutters
<1>4. CASE o = "ok"
  <2>1. wire[c] = "none" /\ ~ask[c].blocked /\ wire' = [wire EXCEPT ![c] = "sent"]
    BY <1>0, <1>1, <1>4 DEF Stage, Early, Clock
  <2>2. Begun' = Begun /\ c \in Begun
    BY <1>1, <1>2 DEF Begun
  <2>3. Due' = Due
    BY <1>1 DEF Due, IsAsync
  <2>4. ToldTo' = ToldTo
    <3>1. \A d \in Calls : /\ pc'[d] = "returned" <=> pc[d] = "returned"
                           /\ pc[d] = "returned" => res'[d] = res[d]
      BY <1>1, <1>2
    <3> QED BY <1>1, <3>1 DEF ToldTo, HasCallback, IsSync, IsAsync
  <2>5. Contract!Transmit(c)
    BY <1>1, <2>1, <2>2, <2>3, <2>4 DEF Contract!Transmit
  <2> QED BY <2>5 DEF Contract!Next
<1> QED BY <1>3, <1>4

\* SendInvoke returns.
LEMMA RemovePendingOperationRefines ==
  ASSUME NEW c \in Calls, OInv, Reasons, Clocks, RemovePendingOperation(c)
  PROVE  Contract!Next
<1>0. TypeOK /\ Stage(c) /\ Clock(c) /\ SyncReason(c)
  BY DEF OInv, PerCall, Clocks, Reasons
<1>1. /\ pc[c] = "remove" /\ pc' = [pc EXCEPT ![c] = "returned"]
      /\ UNCHANGED <<ask, res, wire, until, op, gate, dying, pauses, cbs>>
  BY DEF RemovePendingOperation, Goto, pauseVars
<1>2. IsSync(c) /\ ~HasCallback(c) /\ Explained(c, res[c]) /\ ~ask[c].blocked
  BY <1>0, <1>1 DEF Stage, SyncReason, Clock, HasCallback, IsSync, IsAsync
<1>3. PICK r \in Codes : r = res[c]
  BY <1>0 DEF TypeOK
<1>4. Explained(c, r) /\ r # "REMOTENOTCAPABLE"
  BY <1>2, <1>3, NotRefusedLater DEF Explained
<1>5. pc'[c] = "returned" /\ \A d \in Calls : d # c => pc'[d] = pc[d]
  BY <1>0, <1>1 DEF TypeOK
<1>6. Begun' = Begun /\ Due' = Due
  BY <1>1, <1>5 DEF Begun, Due, IsAsync
<1>7. ToldTo[c] = <<>> /\ ToldTo' = [ToldTo EXCEPT ![c] = <<r>>]
  <2>1. \A d \in Calls : (HasCallback(d)' <=> HasCallback(d)) /\ (IsSync(d)' <=> IsSync(d))
    BY <1>1 DEF HasCallback, IsSync, IsAsync
  <2>2. ToldTo[c] = <<>> /\ ToldTo'[c] = <<r>>
    BY <1>1, <1>2, <1>3, <1>5, <2>1 DEF ToldTo
  <2>3. ASSUME NEW d \in Calls, d # c PROVE ToldTo'[d] = ToldTo[d]
    BY <1>1, <1>5, <2>1, <2>3 DEF ToldTo
  <2>4. ToldTo = [d \in Calls |-> ToldTo[d]] /\ ToldTo' = [d \in Calls |-> ToldTo'[d]]
    BY DEF ToldTo
  <2> QED BY <2>2, <2>3, <2>4
<1> QED BY <1>1, <1>2, <1>4, <1>6, <1>7, Tells

\* FinishAsyncInvoke calls the completion callback, when there is one.
LEMMA FinishCallbackRefines ==
  ASSUME NEW c \in Calls, OInv, Reasons, Clocks, FinishCallback(c)
  PROVE  Contract!Next \/ UNCHANGED Contract!vars
<1>0. TypeOK /\ Owned(c) /\ Reported(c) /\ Clock(c) /\ AsyncReason(c)
  BY DEF OInv, PerCall, Clocks, Reasons
<1>1. /\ fin[c].pc = "callback"
      /\ cbs' = IF HasCallback(c) /\ fin[c].ctx
                THEN [cbs EXCEPT ![c] = Append(@, fin[c].res)] ELSE cbs
      /\ UNCHANGED <<ask, pc, res, until, wire, op, gate, dying, pauses>>
  BY DEF FinishCallback, callVars, mapVars, pauseVars
<1>2. CASE ~(HasCallback(c) /\ fin[c].ctx)
  <2>1. Unnoticed
    BY <1>1, <1>2, OthersUnnoticed
  <2> QED BY <2>1, UnnoticedStutters
<1>3. CASE HasCallback(c) /\ fin[c].ctx
  <2>1. PICK r \in Codes : r = fin[c].res
    BY <1>0 DEF TypeOK, Finishes
  <2>2. Told(c, r) /\ cbs[c] = <<>> /\ pc[c] # "idle" /\ ~ask[c].blocked
    <3>1. Promised(c) /\ cbs[c] = <<>> /\ pc[c] # "idle" /\ ~ask[c].blocked
      BY <1>0, <1>1, <1>3 DEF AsyncReason, Reported, Finishing, Owned, Clock
    <3>2. r = Final(c)
      BY <1>1, <2>1, <3>1 DEF Promised
    <3> QED BY <3>1, <3>2 DEF Promised, Told, Explained
  <2>3. Explained(c, r) /\ r # "REMOTENOTCAPABLE"
    BY <2>2, NotRefusedLater DEF Told
  <2>4. cbs'[c] = <<r>> /\ \A d \in Calls : d # c => cbs'[d] = cbs[d]
    BY <1>0, <1>1, <1>3, <2>1, <2>2 DEF TypeOK
  <2>5. Begun' = Begun /\ Due' = Due
    BY <1>1 DEF Begun, Due, IsAsync
  <2>6. ToldTo[c] = <<>> /\ ToldTo' = [ToldTo EXCEPT ![c] = <<r>>]
    <3>1. \A d \in Calls : (HasCallback(d)' <=> HasCallback(d)) /\ (IsSync(d)' <=> IsSync(d))
      BY <1>1 DEF HasCallback, IsSync, IsAsync
    <3>2. ToldTo[c] = <<>> /\ ToldTo'[c] = <<r>>
      BY <1>3, <2>2, <2>4, <3>1 DEF ToldTo
    <3>3. ASSUME NEW d \in Calls, d # c PROVE ToldTo'[d] = ToldTo[d]
      BY <1>1, <2>4, <3>1, <3>3 DEF ToldTo
    <3>4. ToldTo = [d \in Calls |-> ToldTo[d]] /\ ToldTo' = [d \in Calls |-> ToldTo'[d]]
      BY DEF ToldTo
    <3> QED BY <3>2, <3>3, <3>4
  <2> QED BY <1>1, <1>3, <2>2, <2>3, <2>5, <2>6, Tells
<1> QED BY <1>2, <1>3

\* The peer's answer arrives.
LEMMA CompletePendingOperationRefines ==
  ASSUME NEW c \in Calls, NEW k \in Answers, OInv, CompletePendingOperation(c, k)
  PROVE  Contract!Next
<1>0. TypeOK
  BY DEF OInv
<1>1. /\ wire[c] = "sent" /\ wire' = [wire EXCEPT ![c] = k]
      /\ UNCHANGED <<ask, pc, res, until, gate, dying, pauses, cbs>>
  BY DEF CompletePendingOperation, pauseVars
<1>2. \A d \in Calls : op'[d].deadline = op[d].deadline
  <2>1. CASE c \in inMap /\ ~op[c].async
    <3>1. CompleteOperation({c}, RoseResult[k], k)
      BY <2>1 DEF CompletePendingOperation
    <3> QED BY <1>0, <3>1, CompleteKeeps
  <2>2. CASE ~(c \in inMap /\ ~op[c].async)
    BY <1>0, <2>2, FinishKeeps DEF CompletePendingOperation
  <2> QED BY <2>1, <2>2
<1>3. Begun' = Begun /\ Due' = Due /\ ToldTo' = ToldTo
  BY <1>1, <1>2 DEF Begun, Due, ToldTo, HasCallback, IsSync, IsAsync
<1>4. Contract!Answer(c, k)
  BY <1>1, <1>3 DEF Contract!Answer
<1> QED BY <1>4 DEF Contract!Next

\* Time passes.
LEMMA TickRefines ==
  ASSUME OInv, Reasons, Clocks, Tick
  PROVE  Contract!Next
<1>0. TypeOK /\ \A d \in Calls : Clock(d) /\ AsyncReason(d)
  BY DEF OInv, Clocks, Reasons
<1>1. UNCHANGED <<ask, pc, res, wire, gate, dying, pauses, cbs>>
  BY DEF Tick, pauseVars
<1>2. Begun' = Begun /\ ToldTo' = ToldTo
  BY <1>1 DEF Begun, ToldTo, HasCallback, IsSync, IsAsync
<1>3. \A d \in Calls : op[d].deadline = 0 => op'[d].deadline = 0
  BY <1>0 DEF Tick, Aged, TypeOK, Operations
<1>4. \A d \in Calls : until[d] = 0 => until'[d] = 0
  BY <1>0 DEF Tick, Aged, TypeOK
<1>5. Due \subseteq Due'
  BY <1>1, <1>3, <1>4 DEF Due, IsAsync
<1>6. ASSUME NEW d \in Due', d \notin Due PROVE d \in Begun /\ ask[d].timeout > 0
  <2>1. d \in Calls /\ (IF IsAsync(d) THEN op'[d].deadline = 0 /\ op[d].deadline # 0
                                      ELSE until'[d] = 0 /\ until[d] # 0)
    BY <1>1, <1>6 DEF Due, IsAsync
  <2>2. op'[d].deadline \in {op[d].deadline, Aged(op[d].deadline)}
    BY <1>0, <2>1 DEF Tick, TypeOK, Operations
  <2>3. until'[d] \in {until[d], Aged(until[d])}
    BY <1>0, <2>1 DEF Tick, TypeOK
  <2>4. Aged(NoDeadline) = NoDeadline /\ NoDeadline # 0
    BY DEF Aged, NoDeadline
  <2>5. CASE IsAsync(d)
    <3>1. op[d].deadline # NoDeadline
      BY <2>1, <2>2, <2>4, <2>5
    <3> QED BY <1>0, <2>1, <3>1 DEF Clock, AsyncReason, Begun
  <2>6. CASE ~IsAsync(d)
    <3>1. until[d] # NoDeadline
      BY <2>1, <2>3, <2>4, <2>6
    <3> QED BY <1>0, <2>1, <3>1 DEF Clock, Early, Begun
  <2> QED BY <2>5, <2>6
<1>7. Due' = Due \cup (Due' \ Due) /\ Due' \ Due \in SUBSET {d \in Begun : ask[d].timeout > 0}
  BY <1>5, <1>6
<1>8. Contract!Expire
  BY <1>1, <1>2, <1>7 DEF Contract!Expire
<1> QED BY <1>8 DEF Contract!Next

\* The session closes and opens.
LEMMA GateRefines ==
  ASSUME OInv, PauseRoseProcessing \/ Destroy \/ ResumeRoseProcessing
  PROVE  Contract!Next
<1>0. pauses \in Nat /\ dying \in BOOLEAN
  BY DEF OInv, TypeOK
<1>1. UNCHANGED <<ask, pc, res, until, wire, op, cbs>>
  BY DEF PauseRoseProcessing, Destroy, ResumeRoseProcessing, callVars, mapVars
<1>2. Begun' = Begun /\ Due' = Due /\ ToldTo' = ToldTo
  BY <1>1 DEF Begun, Due, ToldTo, HasCallback, IsSync, IsAsync
<1>3. CASE PauseRoseProcessing \/ Destroy
  <2>1. gate' = FALSE /\ (pauses > 0 \/ dying)' = TRUE
    BY <1>0, <1>3 DEF PauseRoseProcessing, Destroy
  <2>2. Contract!Close
    BY <1>1, <1>2, <2>1 DEF Contract!Close
  <2> QED BY <2>2 DEF Contract!Next
<1>4. CASE ResumeRoseProcessing
  <2>1. gate' = TRUE /\ (pauses > 0 \/ dying)' = (pauses > 0 \/ dying)
    BY <1>4 DEF ResumeRoseProcessing
  <2>2. Contract!Reopen
    BY <1>1, <1>2, <2>1 DEF Contract!Reopen
  <2> QED BY <2>2 DEF Contract!Next
<1> QED BY <1>3, <1>4

\* Every step is one the contract allows, or one that it does not see.
LEMMA ContractStep ==
  OInv /\ Reasons /\ Clocks /\ [Next]_vars => [Contract!Next]_(Contract!vars)
<1> SUFFICES ASSUME OInv, Reasons, Clocks, [Next]_vars
             PROVE  Contract!Next \/ UNCHANGED Contract!vars
  OBVIOUS
<1>0. TypeOK
  BY DEF OInv
<1>1. ASSUME NEW c \in Calls, RefuseShutdown(c) \/ RefuseBlocked(c) \/ PassGate(c)
      PROVE  Contract!Next
  BY <1>1, RefuseRefines, PassGateRefines DEF RefuseShutdown, RefuseBlocked
<1>2. ASSUME NEW c \in Calls, CallStep(c) PROVE Contract!Next \/ UNCHANGED Contract!vars
  BY <1>2, SendRefines, RemovePendingOperationRefines, CallUnnoticed, UnnoticedStutters
<1>3. ASSUME NEW c \in Calls, FinishStep(c) PROVE Contract!Next \/ UNCHANGED Contract!vars
  <2>1. CASE FinishContext(c) \/ FinishReport(c) \/ FinishRead(c) \/ FinishStop(c)
    <3>1. UNCHANGED <<ask, wire, gate, pauses, dying, cbs, pc, res, until, op>>
      BY <2>1 DEF FinishContext, FinishReport, FinishRead, FinishStop, callVars, mapVars, pauseVars
    <3> QED BY <3>1, OthersUnnoticed, UnnoticedStutters
  <2> QED BY <1>3, <2>1, FinishCallbackRefines DEF FinishStep
<1>4. ASSUME NEW c \in Calls, NEW k \in Answers, CompletePendingOperation(c, k)
      PROVE  Contract!Next
  BY <1>4, CompletePendingOperationRefines
<1>5. CASE WatchdogStep
  <2>1. UNCHANGED <<ask, wire, gate, pauses, dying, cbs, pc, res, until>>
    BY <1>5 DEF WatchdogStep, WatchdogScan, WatchdogStopSeen, WatchdogWorkSeen,
       WatchdogDeadline, ProcessAsyncTimeouts, WatchdogFinish, WatchdogLoop, WatchdogExit,
       callVars, pauseVars
  <2>2. \A d \in Calls : op'[d].deadline = op[d].deadline
    <3>1. CASE \E c \in Calls : WatchdogFinish(c)
      BY <1>0, <3>1, FinishKeeps DEF WatchdogFinish
    <3>2. CASE ~\E c \in Calls : WatchdogFinish(c)
      <4>1. op' = op
        BY <1>5, <3>2 DEF WatchdogStep, WatchdogScan, WatchdogStopSeen, WatchdogWorkSeen,
           WatchdogDeadline, ProcessAsyncTimeouts, WatchdogLoop, WatchdogExit, mapVars
      <4> QED BY <4>1
    <3> QED BY <3>1, <3>2
  <2> QED BY <2>1, <2>2, OthersUnnoticed, UnnoticedStutters
<1>6. CASE CompleteAllPendingOperations
  <2>1. UNCHANGED <<ask, wire, gate, pauses, dying, cbs, pc, res, until>>
    BY <1>6 DEF CompleteAllPendingOperations, callVars
  <2>2. \A d \in Calls : op'[d].deadline = op[d].deadline
    BY <1>0, <1>6, CompleteKeeps DEF CompleteAllPendingOperations
  <2> QED BY <2>1, <2>2, OthersUnnoticed, UnnoticedStutters
<1>7. CASE PauseReturn \/ StopWatchdogThread \/ JoinWatchdogThread \/ UNCHANGED vars
  <2>1. UNCHANGED <<ask, wire, gate, pauses, dying, cbs, pc, res, until, op>>
    BY <1>7 DEF PauseReturn, StopWatchdogThread, JoinWatchdogThread,
       vars, callVars, mapVars, pauseVars
  <2> QED BY <2>1, OthersUnnoticed, UnnoticedStutters
<1>8. CASE PauseRoseProcessing \/ Destroy \/ ResumeRoseProcessing
  BY <1>8, GateRefines
<1>9. CASE Tick
  BY <1>9, TickRefines
<1>10. ASSUME NEW c \in Calls, PauseFinish(c) PROVE UNCHANGED Contract!vars
  <2>1. UNCHANGED <<ask, wire, gate, pauses, dying, cbs, pc, res, until>>
    BY <1>10 DEF PauseFinish, callVars
  <2>2. \A d \in Calls : op'[d].deadline = op[d].deadline
    BY <1>0, <1>10, FinishKeeps DEF PauseFinish
  <2> QED BY <2>1, <2>2, OthersUnnoticed, UnnoticedStutters
<1> QED BY <1>1, <1>2, <1>3, <1>4, <1>5, <1>6, <1>7, <1>8, <1>9, <1>10 DEF Next, PauseStep

\* At the start no call was made and none was told anything.
LEMMA ContractInit == Init => Contract!Init
<1> SUFFICES ASSUME Init PROVE Contract!Init
  OBVIOUS
<1>1. Begun = {} /\ Due = {} /\ (pauses > 0 \/ dying) = FALSE /\ gate = TRUE
  BY DEF Init, Begun, Due, NewOp, NoDeadline
<1>2. ToldTo = [c \in Calls |-> <<>>] /\ wire = [c \in Calls |-> "none"] /\ ask \in Asks
  BY DEF Init, ToldTo
<1> QED BY <1>1, <1>2 DEF Contract!Init

\* No time runs at the start.
LEMMA InitClocks == Init => Clocks
  BY DEF Init, Clocks, Clock, NewOp, NoDeadline

-----------------------------------------------------------------------------
(* Theorems *)

\* Every variable keeps its type, whatever the calls ask for, the transport does and the peer
\* answers.
THEOREM TypeCorrect == Spec => []TypeOK
<1>1. OInv => TypeOK
  BY DEF OInv
<1> QED
  BY <1>1, OInvInvariant, PTL

\* A synchronous or fire-and-forget call that has returned left nothing in the pending map and
\* was reported at most once, a synchronous one exactly once, however its completion raced with
\* the watchdog, the receiver and a pause (SendInvoke, SendInvokeAsync, FinishAsyncInvoke).
THEOREM NothingIsLeft == Spec => []ReturnLeavesNothing
<1>1. OInv => ReturnLeavesNothing
  <2> SUFFICES ASSUME OInv, NEW c \in Calls, pc[c] = "returned", ~IsEvent(c), ~HasCallback(c)
               PROVE  c \notin inMap /\ Len(telem[c]) <= 1 /\ (IsSync(c) => telem[c] # <<>>)
    BY DEF ReturnLeavesNothing
  <2>1. TypeOK /\ Left(c) /\ Reported(c)
    BY DEF OInv, PerCall
  <2>2. IsSync(c) \/ IsAsync(c)
    BY <2>1 DEF TypeOK, Requests, IsSync, IsAsync, IsEvent
  <2>3. CASE IsSync(c)
    <3>1. c \notin inMap /\ Len(telem[c]) = 1
      BY <2>1, <2>3 DEF Left, Reported
    <3>2. telem[c] # <<>>
      BY <3>1
    <3> QED
      BY <3>1, <3>2
  <2>4. CASE IsAsync(c)
    BY <2>1, <2>4 DEF Left, Reported, HasCallback, IsSync, IsAsync
  <2> QED
    BY <2>2, <2>3, <2>4
<1> QED
  BY <1>1, OInvInvariant, PTL

\* Once the destructor is through, no thread uses the object and no asynchronous call waits in
\* the map for a completion (~SnaccROSEBase, StopWatchdogThread).
THEOREM DestroyedIsQuiet == Spec => []QuietAfterDestroy
<1>1. OInv => QuietAfterDestroy
  <2> SUFFICES ASSUME OInv, ppc = "dead"
               PROVE  /\ wdpc = "none" /\ ~running
                      /\ \A c \in Calls : fin[c].pc \in {"none", "done"}
                      /\ \A c \in inMap : ~op[c].async
    BY DEF QuietAfterDestroy
  <2>1. wdpc = "none" /\ ~running /\ dying /\ \A c \in inMap : ~op[c].async
    BY DEF OInv, Threads, Dying
  <2>2. ASSUME NEW c \in Calls PROVE fin[c].pc \in {"none", "done"}
    <3>1. Inside(c) /\ fin[c] \in Finishes
      BY DEF OInv, Threads, TypeOK
    <3>2. fin[c].by \in Calls => pc[fin[c].by] # "finishing"
      BY <2>1 DEF OInv, Threads, Dying
    <3> QED
      BY <2>1, <3>1, <3>2 DEF Inside, Finishing, Finishes
  <2> QED
    BY <2>1, <2>2
<1> QED
  BY <1>1, OInvInvariant, PTL

\* An asynchronous call is completed once, whoever of receiver, watchdog, pause and sender gets
\* to the operation first: one callback at most, and none of a fire-and-forget call, one
\* telemetry record at most, and the record classifies what the callback is told.  Neither is
\* missing, unless the operation was claimed before the sender had stored the context or the
\* start time (SendInvokeAsync, FinishAsyncInvoke, FinalizeTelemetry).  Where a freed
\* operation's memory is reused a sender may finish the operation of another call instead of
\* its own, so that is excluded.
THEOREM CompletionIsSingle == ~Reuse => (Spec => []CompletesOnce)
<1>1. OInv /\ Reasons => CompletesOnce
  <2> SUFFICES ASSUME OInv, Reasons, NEW c \in Calls, IsAsync(c)
               PROVE  /\ Len(cbs[c]) <= (IF HasCallback(c) THEN 1 ELSE 0) /\ Len(telem[c]) <= 1
                      /\ Freed(c) /\ HasCallback(c) /\ fin[c].at # "context" => cbs[c] # <<>>
                      /\ Freed(c) /\ fin[c].at \notin {"context", "stamp"} => telem[c] # <<>>
                      /\ cbs[c] # <<>> /\ telem[c] # <<>> => telem[c] = <<OutcomeOf(cbs[c][1])>>
    BY DEF CompletesOnce
  <2>1. Written(c) /\ Reported(c) /\ AsyncReason(c)
    BY DEF OInv, PerCall, Reasons
  <2>2. Len(cbs[c]) <= (IF HasCallback(c) THEN 1 ELSE 0) /\ Len(telem[c]) <= 1
    BY <2>1 DEF Reported
  <2>3. Freed(c) /\ HasCallback(c) /\ fin[c].at # "context" => cbs[c] # <<>>
    BY <2>1 DEF Written, Reported, Freed
  <2>4. Freed(c) /\ fin[c].at \notin {"context", "stamp"} => telem[c] # <<>>
    BY <2>1 DEF Reported, Freed
  <2>5. cbs[c] # <<>> /\ telem[c] # <<>> => telem[c] = <<OutcomeOf(cbs[c][1])>>
    BY <2>1 DEF AsyncReason
  <2> QED
    BY <2>2, <2>3, <2>4, <2>5
<1> QED
  BY <1>1, ReasonsInvariant, PTL

\* No caller is told a lie: a code handed out by SendInvoke or by a completion callback rests on
\* the answer, the time, the pause or the failed send it names (CompletePendingOperation,
\* HandleInvokeResult, ProcessAsyncTimeouts, CompleteAllPendingOperations).
THEOREM ResultIsExplained == ~Reuse => (Spec => []ResultExplained)
<1>1. OInv /\ Reasons => ResultExplained
  <2> SUFFICES ASSUME OInv, Reasons, NEW c \in Calls
               PROVE  /\ IsSync(c) /\ pc[c] = "returned" => Explained(c, res[c])
                      /\ \A i \in DOMAIN cbs[c] : Explained(c, cbs[c][i])
    BY DEF ResultExplained
  <2>1. IsSync(c) /\ pc[c] = "returned" => Explained(c, res[c])
    BY DEF Reasons, SyncReason
  <2>2. ASSUME NEW i \in DOMAIN cbs[c] PROVE Explained(c, cbs[c][i])
    <3>1. cbs[c] \in Seq(Codes) /\ Len(cbs[c]) <= 1
      BY DEF OInv, TypeOK, PerCall, Reported
    <3>2. i = 1 /\ cbs[c] # <<>>
      BY <3>1
    <3> QED
      BY <3>2 DEF Reasons, AsyncReason, Told
  <2> QED
    BY <2>1, <2>2
<1> QED
  BY <1>1, ReasonsInvariant, PTL

\* However receiver, watchdog, pauses, the destructor and the callers interleave, the calls keep
\* the promise of OutboundContract: a closed session accepts none, a blocked operation is not
\* sent, and a call is told one code at most, which the peer, the time or the session justifies
\* when it is told and which does not change afterwards (SendInvoke, SendInvokeAsync,
\* FinishAsyncInvoke, PauseRoseProcessing).
THEOREM CallContractIsKept == ~Reuse => (Spec => KeepsCallContract)
<1> SUFFICES ASSUME ~Reuse PROVE Spec => KeepsCallContract
  OBVIOUS
<1>1. Spec => [](OInv /\ Reasons)
  BY ReasonsInvariant
<1>2. Init => Clocks
  BY InitClocks
<1>3. OInv /\ Clocks /\ [Next]_vars => Clocks'
  BY ClocksStep
<1>4. Init => Contract!Init
  BY ContractInit
<1>5. OInv /\ Reasons /\ Clocks /\ [Next]_vars => [Contract!Next]_(Contract!vars)
  BY ContractStep
<1> QED
  BY <1>1, <1>2, <1>3, <1>4, <1>5, PTL DEF Spec, KeepsCallContract, Contract!Spec

=============================================================================
