--------------------------- MODULE InvokeExchange ---------------------------
(***************************************************************************)
(* One request from a caller's stub through the inbound path of a callee's *)
(* stub (SnaccROSEBase) and the answer back: decoding the block, routing   *)
(* to the socket thread or a worker pool, the generated dispatcher, the    *)
(* handler's verdict, the reject codes and their decoding at the caller,   *)
(* and the telemetry record of the callee.  The session gate and the pool  *)
(* of the callee may shut between any two steps; the transport may fail;   *)
(* the caller may time out first.                                          *)
(*                                                                         *)
(* Messages are kinds and codes; payloads are good or bad.  Sending the    *)
(* answer and recording the telemetry, which nothing can come between for  *)
(* an observer of either, are one step.                                    *)
(***************************************************************************)
EXTENDS Naturals, Sequences

CONSTANTS
    HandlerRejects  \* what handlers put into m_lRejectResult, besides 0

AuthCodes == {"AUTHENTICATIONFAILED", "AUTHENTICATIONINCOMPLETE", "USER_TEMPORARY_LOCKED_OUT",
              "USER_LOCKED_OUT", "SERVER_BUSY"}

ASSUME ExchangeAssumption == HandlerRejects \subseteq AuthCodes \cup {"INVALIDSESSIONID"}

Encodings == {"BER", "JSON", "JSON_NO_HEADING"}

\* op: an operation with a result, an event operation, one the callee does not know, or
\* neither id nor name.  arg: decodes; absent and required; BDec throws, or there is
\* neither buffer; JDec returns false.
Requests ==
    { r \in [event : BOOLEAN,
             op : {"invoke", "event", "unknown", "none"},
             arg : {"good", "absent", "throws", "jfalse"},
             enc : Encodings,
             fault : {"none", "undecodable", "throws"}] :
        r.arg = "jfalse" => r.enc # "BER" }

Codes == AuthCodes \cup {"NOERROR", "TRANSPORTFAILED", "SHUTDOWN", "TIMEOUT", "ENCODE_FAILED",
    "INVALID_ANSWER", "DECODE_FAILED", "UNKNOWNOPERATION", "MISTYPEDARGUMENT", "FUNCTIONMISSING",
    "UNKNOWN", "INVALIDSESSIONID", "ARGUMENT_MISSING", "QUEUE_FULL", "ERROR_VALUE"}

VARIABLES
    request,        \* what the caller sent
    encoding,       \* m_eTransportEncoding of the callee
    gate,           \* the callee's session gate
    stopping,       \* the worker pool of the callee is stopping
    pc,             \* where the request is
    mode,           \* PooledInboundMode
    pooled,         \* the request went through a pool
    invoked,        \* OnInvoke was called
    lResult,
    response,       \* strResponse: what the handler's verdict was encoded to
    isError,        \* m_bResponseIsError
    handled,        \* history: how often the application's handler ran
    verdict,        \* history: what it returned
    reply,          \* the answer on its way to the caller
    records,        \* the callee's telemetry records
    failed,         \* history: the transport refused the answer
    callerResult    \* what SendInvoke returns, "pending" before

calleeVars == <<encoding, gate, stopping>>
vars == <<request, calleeVars, pc, mode, pooled, invoked, lResult, response, isError, handled,
          verdict, reply, records, failed, callerResult>>

NoReply == [kind |-> "none", problem |-> "none", detail |-> "none"]
Problems == {"none", "unrecognisedOperation", "mistypedArgument", "resourceLimitation",
             "authenticationFailed", "authenticationIncomplete", "invalidSessionID"}

TypeOK ==
    /\ request \in Requests
    /\ encoding \in Encodings \cup {"UNKNOWN"}
    /\ gate \in BOOLEAN /\ stopping \in BOOLEAN
    /\ pc \in {"transit", "queued", "dispatch", "handler", "complete", "done"}
    /\ mode \in {"Run", "QueueFull", "ShutdownReject", "DropExpired"}
    /\ pooled \in BOOLEAN /\ invoked \in BOOLEAN
    /\ lResult \in Codes
    /\ response \in {"none", "result", "error"} /\ isError \in BOOLEAN
    /\ handled \in {0, 1}
    /\ verdict \in {"none", "result", "error", "reject", "snaccException", "exception"}
    /\ reply.kind \in {"none", "result", "error", "reject", "consumed"} /\ reply.problem \in Problems
    /\ records \in Seq({"RESULT", "ERR", "REJECT", "EVENT", "UNHANDLED"})
    /\ failed \in BOOLEAN
    /\ callerResult \in Codes \cup {"pending"}

Init ==
    /\ request \in Requests
    /\ encoding \in {request.enc, "UNKNOWN", "BER"}
    /\ gate = TRUE /\ stopping = FALSE
    /\ pc = "transit" /\ mode = "Run" /\ pooled = FALSE /\ invoked = FALSE
    /\ lResult = "UNKNOWNOPERATION" /\ response = "none" /\ isError = FALSE
    /\ handled = 0 /\ verdict = "none" /\ reply = NoReply /\ records = << >>
    /\ failed = FALSE /\ callerResult = "pending"

-----------------------------------------------------------------------------
(* Rejects on the wire and back.                                           *)

Reject(problem, detail) == [kind |-> "reject", problem |-> problem, detail |-> detail]

\* EncodeInvokeRejectResponse: the invoke problem and the detail for a protocol result.
EncodeInvokeRejectResponse(code) ==
    CASE code = "UNKNOWNOPERATION" -> Reject("unrecognisedOperation", "unrecognisedOperation")
      [] code = "MISTYPEDARGUMENT" -> Reject("mistypedArgument", "mistypedArgument")
      [] code = "FUNCTIONMISSING" -> Reject("unrecognisedOperation", "functionMissing")
      [] code = "INVALIDSESSIONID" -> Reject("invalidSessionID", "invalidSessionID")
      [] code = "AUTHENTICATIONFAILED" -> Reject("authenticationFailed", "authenticationFailed")
      [] code = "AUTHENTICATIONINCOMPLETE" -> Reject("authenticationIncomplete", "authenticationIncomplete")
      [] code = "USER_TEMPORARY_LOCKED_OUT" -> Reject("authenticationFailed", "temporaryLockedOut")
      [] code = "USER_LOCKED_OUT" -> Reject("authenticationFailed", "lockedOut")
      [] code = "SERVER_BUSY" -> Reject("authenticationFailed", "serverBusy")
      [] code = "ARGUMENT_MISSING" -> Reject("mistypedArgument", "argumentMissing")
      [] code = "QUEUE_FULL" -> Reject("resourceLimitation", "queueFull")
      [] code = "ENCODE_FAILED" -> Reject("resourceLimitation", "responseIsTooBig")
      [] OTHER -> Reject("unrecognisedOperation", "otherError")

\* GetRejectResultCode: what the caller makes of a reject.
GetRejectResultCode(r) ==
    CASE r.problem = "unrecognisedOperation" ->
           IF r.detail = "functionMissing" THEN "FUNCTIONMISSING" ELSE "UNKNOWNOPERATION"
      [] r.problem = "mistypedArgument" -> "MISTYPEDARGUMENT"
      [] r.problem = "resourceLimitation" /\ r.detail = "queueFull" -> "QUEUE_FULL"
      [] r.problem = "resourceLimitation" /\ r.detail = "responseIsTooBig" -> "ENCODE_FAILED"
      [] r.problem = "resourceLimitation" /\ r.detail = "functionMissing" -> "FUNCTIONMISSING"
      [] r.problem = "authenticationIncomplete" -> "AUTHENTICATIONINCOMPLETE"
      [] r.problem = "authenticationFailed" -> "AUTHENTICATIONFAILED"
      [] OTHER -> "UNKNOWN"

-----------------------------------------------------------------------------
(* The block arrives.                                                      *)

\* DetectEncoding runs for the first block of a connection.
DetectEncoding == IF encoding = "UNKNOWN" THEN request.enc ELSE encoding

\* A stub reads blocks of its own encoding; a JSON stub strips a length prefix if there is one.
Readable(enc) == (enc = "BER") = (request.enc = "BER") /\ request.fault # "undecodable"

\* The block cannot be decoded: a generic record, no answer.
HandleInboundEnvelopeSnaccDecodeFailure ==
    /\ pc = "transit" /\ ~Readable(DetectEncoding)
    /\ encoding' = DetectEncoding
    /\ records' = Append(records, "UNHANDLED")
    /\ pc' = "done"
    /\ UNCHANGED <<request, gate, stopping, mode, pooled, invoked, lResult, response, isError,
                   handled, verdict, reply, failed, callerResult>>

\* An exception after the envelope was read and before dispatch: a reject goes out, except
\* for an event, and the record says whether it did.
HandleInboundRoseDecodeFailure ==
    /\ pc = "transit" /\ Readable(DetectEncoding) /\ request.fault = "throws"
    /\ encoding' = DetectEncoding
    /\ \/ /\ ~request.event
          /\ reply' = Reject("mistypedArgument", "exception")
          /\ records' = Append(records, "REJECT")
          /\ UNCHANGED failed
       \/ /\ failed' = ~request.event
          /\ records' = Append(records, "UNHANDLED")
          /\ UNCHANGED reply
    /\ pc' = "done"
    /\ UNCHANGED <<request, gate, stopping, mode, pooled, invoked, lResult, response, isError,
                   handled, verdict, callerResult>>

Dispatchable ==
    pc = "transit" /\ Readable(DetectEncoding) /\ request.fault = "none"

\* OnROSEMessage: a request that names no operation is dropped without a trace.
IgnoreNameless ==
    /\ Dispatchable /\ request.op = "none"
    /\ encoding' = DetectEncoding
    /\ pc' = "done"
    /\ UNCHANGED <<request, gate, stopping, mode, pooled, invoked, lResult, response, isError,
                   handled, verdict, reply, records, failed, callerResult>>

\* OnInvokeMessage on the socket thread: no pool for the operation, or the pool takes the
\* request, is full, or is stopping.
OnInvokeMessage ==
    /\ Dispatchable /\ request.op # "none"
    /\ encoding' = DetectEncoding
    /\ \/ pc' = "dispatch" /\ UNCHANGED <<mode, pooled>>
       \/ ~stopping /\ pc' = "queued" /\ pooled' = TRUE /\ UNCHANGED mode
       \/ ~stopping /\ pc' = "dispatch" /\ mode' = "QueueFull" /\ UNCHANGED pooled
       \/ stopping /\ pc' = "dispatch" /\ mode' = "ShutdownReject" /\ UNCHANGED pooled
    /\ UNCHANGED <<request, gate, stopping, invoked, lResult, response, isError,
                   handled, verdict, reply, records, failed, callerResult>>

\* A worker, or the pause, takes the request from the queue and decides its mode.
WorkerDecides ==
    /\ pc = "queued"
    /\ \/ (stopping \/ ~gate) /\ mode' = "ShutdownReject"
       \/ ~stopping /\ gate /\ mode' \in {"DropExpired", "Run"}
    /\ pc' = "dispatch"
    /\ UNCHANGED <<request, calleeVars, pooled, invoked, lResult, response, isError,
                   handled, verdict, reply, records, failed, callerResult>>

-----------------------------------------------------------------------------
(* Dispatch and handler.                                                   *)

\* DecodeInvoke: the argument of a JSON request counts as decoded when JDec returns false.
DecodeInvoke ==
    CASE request.arg = "absent" -> "ARGUMENT_MISSING"
      [] request.arg = "throws" -> "DECODE_FAILED"
      [] OTHER -> "NOERROR"

\* The first half of OnInvokeMessage's tail: what must not run is answered without the
\* handler; otherwise the generated dispatcher looks the operation up and decodes.
Dispatch ==
    /\ pc = "dispatch"
    /\ \/ mode = "QueueFull" /\ lResult' = "QUEUE_FULL" /\ pc' = "complete"
          /\ UNCHANGED <<invoked, handled>>
       \/ mode = "DropExpired" /\ lResult' = "TIMEOUT" /\ pc' = "complete"
          /\ UNCHANGED <<invoked, handled>>
       \/ (mode = "ShutdownReject" \/ (mode = "Run" /\ ~gate)) /\ lResult' = "SHUTDOWN"
          /\ pc' = "complete" /\ UNCHANGED <<invoked, handled>>
       \/ /\ mode = "Run" /\ gate
          /\ invoked' = TRUE
          /\ \/ request.op = "unknown" /\ lResult' = "UNKNOWNOPERATION"
                /\ pc' = "complete" /\ UNCHANGED handled
             \/ /\ request.op # "unknown"
                /\ lResult' = DecodeInvoke
                /\ IF DecodeInvoke = "NOERROR"
                     THEN pc' = "handler" /\ handled' = handled + 1
                     ELSE pc' = "complete" /\ UNCHANGED handled
    /\ UNCHANGED <<request, calleeVars, mode, pooled, response, isError,
                   verdict, reply, records, failed, callerResult>>

\* EncodeResult and EncodeError: only the JSON length prefix has a limit.
Encodes == {"NOERROR"} \cup (IF encoding = "JSON" THEN {"ENCODE_FAILED"} ELSE {})

\* HandleOnInvokeResult for verdict v with reject code c: nothing for an event.
HandleOnInvokeResult(v, c) ==
    \/ /\ request.event \/ request.op = "event"
       /\ lResult' = "NOERROR"
       /\ UNCHANGED <<response, isError>>
    \/ /\ ~request.event /\ request.op = "invoke"
       /\ \/ v \in {"result", "error"} /\ lResult' \in Encodes
             /\ response' = v /\ isError' = (v = "error")
          \/ v = "reject" /\ lResult' = c /\ UNCHANGED <<response, isError>>

\* The handler returns.
HandlerReturns(v, c) ==
    /\ pc = "handler"
    /\ request.op = "event" => v = "result"
    /\ HandleOnInvokeResult(v, c)
    /\ verdict' = v
    /\ pc' = "complete"
    /\ UNCHANGED <<request, calleeVars, mode, pooled, invoked, handled, reply, records, failed, callerResult>>

\* The handler, or encoding its result, throws a SnaccException.
HandlerThrowsSnacc ==
    /\ pc = "handler"
    /\ verdict' = "snaccException"
    /\ lResult' = "MISTYPEDARGUMENT"
    /\ pc' = "complete"
    /\ UNCHANGED <<request, calleeVars, mode, pooled, invoked, response, isError, handled,
                   reply, records, failed, callerResult>>

\* The handler throws anything else: on the socket thread the outer catch of
\* OnBinaryDataBlock records a decode failure, on a worker the pool swallows it.
HandlerThrowsOther ==
    /\ pc = "handler"
    /\ verdict' = "exception"
    /\ records' = IF pooled THEN records ELSE Append(records, "UNHANDLED")
    /\ pc' = "done"
    /\ UNCHANGED <<request, calleeVars, mode, pooled, invoked, lResult, response, isError,
                   handled, reply, failed, callerResult>>

-----------------------------------------------------------------------------
(* The answer.                                                             *)

\* The session, or the pool of this worker, ended while OnInvoke ran.
EndedMeanwhile == invoked /\ (~gate \/ (pooled /\ stopping))

\* bDropReply, and lResult as it stands after the handler.
DropReply == mode = "DropExpired" \/ EndedMeanwhile
ResultCode == IF EndedMeanwhile THEN "SHUTDOWN" ELSE lResult

\* Mutant: the session that ended meanwhile is noted, the drop is not.
AnswerAfterShutdown ==
    IF mode = "DropExpired" THEN NoReply
    ELSE IF ResultCode # "NOERROR"
           THEN IF request.event THEN NoReply ELSE EncodeInvokeRejectResponse(ResultCode)
    ELSE IF response = "none" THEN NoReply
    ELSE [kind |-> response, problem |-> "none", detail |-> "none"]

\* Mutant: an event that fails is rejected like an invoke.
AnswerToEvent ==
    IF DropReply THEN NoReply
    ELSE IF ResultCode # "NOERROR" THEN EncodeInvokeRejectResponse(ResultCode)
    ELSE IF response = "none" THEN NoReply
    ELSE [kind |-> response, problem |-> "none", detail |-> "none"]

\* What goes out: a reject for an invoke that has no answer, or the encoded response.
Answer ==
    IF DropReply THEN NoReply
    ELSE IF ResultCode # "NOERROR"
           THEN IF request.event THEN NoReply ELSE EncodeInvokeRejectResponse(ResultCode)
    ELSE IF response = "none" THEN NoReply
    ELSE [kind |-> response, problem |-> "none", detail |-> "none"]

\* Mutant: the outcome follows the handler, not what became of the answer.
OutcomeOfHandler(code) ==
    IF verdict = "error" THEN "ERR" ELSE IF verdict = "result" THEN "RESULT" ELSE "UNHANDLED"

\* The outcome for the final lResult.
Outcome(code) ==
    IF code # "NOERROR" THEN "UNHANDLED"
    ELSE IF request.event THEN "EVENT"
    ELSE IF isError THEN "ERR" ELSE "RESULT"

\* The tail of OnInvokeMessage: drop, reject or respond; send; record.
Complete ==
    /\ pc = "complete"
    /\ \E ok \in BOOLEAN :
         /\ reply' = IF ok THEN Answer ELSE NoReply
         /\ failed' = (~ok /\ Answer # NoReply)
         /\ lResult' = IF failed' THEN "TRANSPORTFAILED" ELSE ResultCode
         /\ records' = Append(records, Outcome(lResult'))
    /\ pc' = "done"
    /\ UNCHANGED <<request, calleeVars, mode, pooled, invoked, response, isError,
                   handled, verdict, callerResult>>

-----------------------------------------------------------------------------
(* The caller, and the ends of session and pool.                           *)

\* Mutant: a reject with a problem the caller does not know is no error.
HandleInvokeResultLenient(readable) ==
    IF reply.kind = "reject"
      THEN IF GetRejectResultCode(reply) = "UNKNOWN" THEN "NOERROR" ELSE GetRejectResultCode(reply)
    ELSE IF ~readable THEN "DECODE_FAILED"
    ELSE IF reply.kind = "result" THEN "NOERROR" ELSE "ERROR_VALUE"

\* DecodeResponse and HandleInvokeResult.
HandleInvokeResult(readable) ==
    IF reply.kind = "reject" THEN GetRejectResultCode(reply)
    ELSE IF ~readable THEN "DECODE_FAILED"
    ELSE IF reply.kind = "result" THEN "NOERROR" ELSE "ERROR_VALUE"

\* The answer completes the pending operation of the caller.
CallerReceives ==
    /\ reply.kind \in {"result", "error", "reject"} /\ callerResult = "pending"
    /\ \E readable \in BOOLEAN : callerResult' = HandleInvokeResult(readable)
    /\ reply' = [reply EXCEPT !.kind = "consumed"]
    /\ UNCHANGED <<request, calleeVars, pc, mode, pooled, invoked, lResult, response, isError,
                   handled, verdict, records, failed>>

\* The caller does not wait any longer, or never did (an event).
CallerGivesUp ==
    /\ callerResult = "pending"
    /\ callerResult' = "TIMEOUT"
    /\ UNCHANGED <<request, calleeVars, pc, mode, pooled, invoked, lResult, response, isError,
                   handled, verdict, reply, records, failed>>

\* PauseRoseProcessing and ResumeRoseProcessing of the callee, Shutdown of its pools.
GateMoves ==
    /\ gate' = ~gate
    /\ UNCHANGED <<request, encoding, stopping, pc, mode, pooled, invoked, lResult, response,
                   isError, handled, verdict, reply, records, failed, callerResult>>
PoolStops ==
    /\ ~stopping /\ stopping' = TRUE
    /\ UNCHANGED <<request, encoding, gate, pc, mode, pooled, invoked, lResult, response,
                   isError, handled, verdict, reply, records, failed, callerResult>>

Next ==
    \/ HandleInboundEnvelopeSnaccDecodeFailure \/ HandleInboundRoseDecodeFailure
    \/ IgnoreNameless \/ OnInvokeMessage \/ WorkerDecides \/ Dispatch
    \/ \E v \in {"result", "error", "reject"}, c \in HandlerRejects \cup {"FUNCTIONMISSING"} :
         HandlerReturns(v, c)
    \/ HandlerThrowsSnacc \/ HandlerThrowsOther \/ Complete
    \/ CallerReceives \/ CallerGivesUp \/ GateMoves \/ PoolStops

Spec == Init /\ [][Next]_vars

-----------------------------------------------------------------------------
(* Properties.                                                             *)

\* ROSE_NOERROR at the caller means that the handler ran once, returned a result and the
\* callee counts the call as one with a result; ROSE_ERROR_VALUE likewise for an error.
\* No reject, shutdown, damaged payload or late answer turns into a success.
SuccessIsResult ==
    /\ callerResult = "NOERROR" => handled = 1 /\ verdict = "result" /\ records = <<"RESULT">>
    /\ callerResult = "ERROR_VALUE" => handled = 1 /\ verdict = "error" /\ records = <<"ERR">>

\* The codes that say the operation is not there or the queue was full are true of every
\* path that ends in them: the handler did not run, and the caller may try again.
RetryIsSafe == callerResult \in {"UNKNOWNOPERATION", "QUEUE_FULL"} => handled = 0

\* Nothing is ever sent in answer to an event, whatever happens to it; and an
\* invoke the callee is done with was answered, or one of these is the reason: the
\* block was not readable or named no operation, the operation has no result, the handler
\* threw something that is no SnaccException, its deadline passed in the queue, the session
\* or the pool ended while it ran, or the transport refused the answer.
SilenceExplained ==
    /\ request.event => reply = NoReply
    /\ pc = "done" /\ ~request.event /\ reply = NoReply =>
         \/ ~Readable(encoding) \/ request.op \in {"none", "event"}
         \/ verdict = "exception" \/ failed
         \/ lResult = "TIMEOUT" \/ (lResult = "SHUTDOWN" /\ invoked)

\* A request leaves exactly one telemetry record, except one that names no operation and
\* one whose handler threw a foreign exception on a worker, which leave none.  The record
\* tells what was sent: a call counted as a result or an error was answered with one,
\* unless it was a call of an event operation, and what is counted as an event was one
\* and reached its handler.
RecordTruthful ==
    pc = "done" =>
        /\ Len(records) = IF \/ Readable(encoding) /\ request.fault = "none" /\ request.op = "none"
                             \/ verdict = "exception" /\ pooled
                          THEN 0 ELSE 1
        /\ records = <<"RESULT">> /\ request.op # "event" => reply # NoReply /\ response = "result"
        /\ records = <<"ERR">> => reply # NoReply /\ response = "error"
        /\ records = <<"EVENT">> => request.event /\ handled = 1
=============================================================================
