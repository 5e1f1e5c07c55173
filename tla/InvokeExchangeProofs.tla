------------------------ MODULE InvokeExchangeProofs ------------------------
(***************************************************************************)
(* What InvokeExchange keeps for every set of reject codes that handlers   *)
(* return.  The invariant follows the request: what can have happened by   *)
(* the time it is at a place, and what an answer that is out rests on.     *)
(***************************************************************************)
EXTENDS InvokeExchange, TLAPS

-----------------------------------------------------------------------------
(* The inductive invariant *)

\* OnInvoke was not called and nothing was made of the request.
Untouched ==
    /\ ~invoked /\ handled = 0 /\ verdict = "none"
    /\ response = "none" /\ ~isError

\* Neither answer nor record is out.
NothingOut == reply = NoReply /\ records = << >> /\ ~failed

\* The generated dispatcher refused the request.
Undispatched ==
    /\ handled = 0 /\ verdict = "none" /\ response = "none" /\ ~isError
    /\ lResult \in {"UNKNOWNOPERATION", "ARGUMENT_MISSING", "DECODE_FAILED"}

\* What HandleOnInvokeResult, or the catch of a SnaccException, left behind.
Returned ==
    /\ handled = 1
    /\ \/ /\ request.event \/ request.op = "event"
          /\ verdict \in {"result", "error", "reject"}
          /\ lResult = "NOERROR" /\ response = "none" /\ ~isError
       \/ /\ ~request.event /\ request.op = "invoke"
          /\ verdict \in {"result", "error"} /\ response = verdict
          /\ isError = (verdict = "error") /\ lResult \in {"NOERROR", "ENCODE_FAILED"}
       \/ /\ ~request.event /\ request.op = "invoke"
          /\ verdict = "reject" /\ response = "none" /\ ~isError
          /\ lResult \in HandlerRejects \cup {"FUNCTIONMISSING"}
       \/ /\ verdict = "snaccException" /\ response = "none" /\ ~isError
          /\ lResult = "MISTYPEDARGUMENT"

\* What is true of a request at each place on its way.
OnItsWay ==
    /\ pc # "done" => NothingOut
    /\ pc \in {"transit", "queued", "dispatch"} => Untouched
    /\ pc = "transit" => ~pooled
    /\ pc \in {"queued", "dispatch", "handler", "complete"} =>
         Readable(encoding) /\ request.fault = "none" /\ request.op # "none"
    /\ pc = "handler" =>
         /\ invoked /\ mode = "Run" /\ handled = 1 /\ verdict = "none"
         /\ response = "none" /\ ~isError /\ request.op \in {"invoke", "event"}
    /\ pc = "complete" =>
         \/ Untouched /\ lResult \in {"QUEUE_FULL", "TIMEOUT", "SHUTDOWN"}
            /\ (mode = "DropExpired" <=> lResult = "TIMEOUT")
         \/ invoked /\ mode = "Run" /\ (Undispatched \/ Returned)

\* What an answer on its way rests on.
AnswerRestsOn ==
    /\ reply.kind = "result" => handled = 1 /\ verdict = "result" /\ records = <<"RESULT">>
    /\ reply.kind = "error" => handled = 1 /\ verdict = "error" /\ records = <<"ERR">>
    /\ reply.kind = "reject" /\ GetRejectResultCode(reply) \in {"UNKNOWNOPERATION", "QUEUE_FULL"} =>
         handled = 0

\* The caller learns nothing from the callee before the callee is done.
ToldWhenDone == callerResult \in {"pending", "TIMEOUT"} \/ pc = "done"

\* The details of a reject, and the answer on its way as a record.
Details ==
    {"none", "unrecognisedOperation", "mistypedArgument", "functionMissing", "invalidSessionID",
     "authenticationFailed", "authenticationIncomplete", "temporaryLockedOut", "lockedOut",
     "serverBusy", "argumentMissing", "queueFull", "responseIsTooBig", "otherError", "exception"}
ReplyShape ==
    reply \in [kind : {"none", "result", "error", "reject", "consumed"},
               problem : Problems, detail : Details]

IInv ==
    /\ TypeOK /\ ReplyShape /\ OnItsWay /\ AnswerRestsOn /\ ToldWhenDone
    /\ SuccessIsResult /\ RetryIsSafe /\ SilenceExplained /\ RecordTruthful

-----------------------------------------------------------------------------
(* The reject codes on the wire and back *)

\* Every result code has a reject, and a reject is never mistaken for no answer.
LEMMA RejectShape ==
    ASSUME NEW code
    PROVE  /\ EncodeInvokeRejectResponse(code) \in
                [kind : {"reject"}, problem : Problems, detail : Details]
           /\ EncodeInvokeRejectResponse(code) # NoReply
<1>1. EncodeInvokeRejectResponse(code) \in
        [kind : {"reject"}, problem : Problems, detail : Details]
  BY SMT DEF EncodeInvokeRejectResponse, Reject, Problems, Details
<1> QED
  BY <1>1 DEF NoReply

\* What the caller makes of a reject is a code, and neither success nor a decoded error.
LEMMA RejectIsNoSuccess ==
    ASSUME NEW r
    PROVE  /\ GetRejectResultCode(r) \in Codes
           /\ GetRejectResultCode(r) \notin {"NOERROR", "ERROR_VALUE", "TIMEOUT"}
  BY SMT DEF GetRejectResultCode, Codes, AuthCodes

\* A reject whose detail tells it from an unknown operation and from a full queue is not
\* read as one of them.
LEMMA DetailTells ==
    ASSUME NEW r,
           r.problem = "unrecognisedOperation" => r.detail = "functionMissing",
           r.problem = "resourceLimitation" => r.detail = "responseIsTooBig"
    PROVE  GetRejectResultCode(r) \notin {"UNKNOWNOPERATION", "QUEUE_FULL"}
<1>1. CASE r.problem = "unrecognisedOperation"
  BY <1>1 DEF GetRejectResultCode
<1>2. CASE r.problem = "resourceLimitation"
  BY <1>2 DEF GetRejectResultCode
<1>3. CASE r.problem = "mistypedArgument"
  BY <1>3 DEF GetRejectResultCode
<1>4. CASE r.problem \notin {"unrecognisedOperation", "resourceLimitation", "mistypedArgument"}
  BY <1>4 DEF GetRejectResultCode
<1> QED
  BY <1>1, <1>2, <1>3, <1>4

\* The codes a request ends with that reached its handler.
HandledCodes == HandlerRejects \cup {"FUNCTIONMISSING", "ENCODE_FAILED", "MISTYPEDARGUMENT"}

\* They go out with a detail that tells them apart.
LEMMA HandledRejectDetail ==
    ASSUME NEW code \in AuthCodes \cup {"INVALIDSESSIONID", "FUNCTIONMISSING", "ENCODE_FAILED",
                                        "MISTYPEDARGUMENT"}
    PROVE  LET r == EncodeInvokeRejectResponse(code)
           IN  /\ r.problem = "unrecognisedOperation" => r.detail = "functionMissing"
               /\ r.problem = "resourceLimitation" => r.detail = "responseIsTooBig"
<1>1. CASE code = "FUNCTIONMISSING"
  BY <1>1, SMT DEF EncodeInvokeRejectResponse, Reject
<1>2. CASE code = "ENCODE_FAILED"
  BY <1>2, SMT DEF EncodeInvokeRejectResponse, Reject
<1>3. CASE code \in AuthCodes \cup {"INVALIDSESSIONID", "MISTYPEDARGUMENT"}
  <2>1. EncodeInvokeRejectResponse(code).problem \in
          {"mistypedArgument", "authenticationFailed", "authenticationIncomplete", "invalidSessionID"}
    BY <1>3, SMT DEF EncodeInvokeRejectResponse, Reject, AuthCodes
  <2> QED
    BY <2>1
<1> QED
  BY <1>1, <1>2, <1>3

\* None of them is read by the caller as one that says the handler did not run.
LEMMA HandledRejectIsDistinct ==
    ASSUME NEW code \in HandledCodes
    PROVE  GetRejectResultCode(EncodeInvokeRejectResponse(code)) \notin {"UNKNOWNOPERATION", "QUEUE_FULL"}
  BY ExchangeAssumption, HandledRejectDetail, DetailTells DEF HandledCodes

-----------------------------------------------------------------------------
(* The inductive invariant holds *)

\* It holds when the block is on its way.
LEMMA InitIInv == Init => IInv
<1> SUFFICES ASSUME Init PROVE IInv
  OBVIOUS
<1>1. TypeOK
  <2>1. encoding \in Encodings \cup {"UNKNOWN"}
    BY DEF Init, Requests, Encodings
  <2>2. gate \in BOOLEAN /\ stopping \in BOOLEAN /\ pooled \in BOOLEAN /\ invoked \in BOOLEAN
        /\ isError \in BOOLEAN /\ failed \in BOOLEAN
    BY Zenon DEF Init
  <2>3. lResult \in Codes /\ callerResult \in Codes \cup {"pending"}
    BY DEF Init, Codes
  <2>4. reply.kind = "none" /\ reply.problem \in Problems
    BY DEF Init, NoReply, Problems
  <2> QED
    BY <2>1, <2>2, <2>3, <2>4 DEF Init, TypeOK
<1>2. ReplyShape
  BY DEF Init, ReplyShape, NoReply, Problems, Details
<1>3. OnItsWay
  BY DEF Init, OnItsWay, NothingOut, Untouched
<1>4. AnswerRestsOn /\ ToldWhenDone
  BY DEF Init, AnswerRestsOn, ToldWhenDone, NoReply
<1>5. SuccessIsResult /\ RetryIsSafe /\ SilenceExplained /\ RecordTruthful
  BY DEF Init, SuccessIsResult, RetryIsSafe, SilenceExplained, RecordTruthful
<1> QED
  BY <1>1, <1>2, <1>3, <1>4, <1>5 DEF IInv

\* An undecodable block.
LEMMA EnvelopeFailureStep == IInv /\ HandleInboundEnvelopeSnaccDecodeFailure => IInv'
<1> SUFFICES ASSUME IInv, HandleInboundEnvelopeSnaccDecodeFailure PROVE IInv'
  OBVIOUS
<1> USE DEF IInv, HandleInboundEnvelopeSnaccDecodeFailure
<1>1. TypeOK'
  BY DEF TypeOK, DetectEncoding, Requests, Encodings
<1>2. ReplyShape'
  BY DEF ReplyShape
<1>3. OnItsWay'
  BY DEF OnItsWay
<1>4. AnswerRestsOn' /\ ToldWhenDone'
  BY DEF AnswerRestsOn, ToldWhenDone, OnItsWay, NothingOut, NoReply
<1>5. SuccessIsResult' /\ RetryIsSafe' 
  BY DEF SuccessIsResult, RetryIsSafe, ToldWhenDone
<1>6. SilenceExplained'
  BY DEF SilenceExplained, Readable
<1>7. RecordTruthful'
  BY DEF RecordTruthful, OnItsWay, NothingOut, Untouched, Readable
<1> QED
  BY <1>1, <1>2, <1>3, <1>4, <1>5, <1>6, <1>7

\* A block whose envelope was read and whose handling throws before dispatch.
LEMMA RoseFailureStep ==
    IInv /\ HandleInboundRoseDecodeFailure => IInv'
<1> SUFFICES ASSUME IInv, HandleInboundRoseDecodeFailure PROVE IInv'
  OBVIOUS
<1> USE DEF IInv, HandleInboundRoseDecodeFailure
<1>1. TypeOK'
  <2>1. encoding' \in Encodings \cup {"UNKNOWN"}
    BY DEF TypeOK, DetectEncoding, Requests, Encodings
  <2>2. failed' \in BOOLEAN
    BY Zenon DEF TypeOK
  <2>3. reply'.kind \in {"none", "result", "error", "reject", "consumed"} /\ reply'.problem \in Problems
    BY DEF TypeOK, Reject, Problems
  <2> QED
    BY <2>1, <2>2, <2>3 DEF TypeOK
<1>2. ReplyShape'
  BY DEF ReplyShape, Reject, Problems, Details
<1>3. OnItsWay'
  BY DEF OnItsWay, Untouched, NothingOut
<1>4. AnswerRestsOn' /\ ToldWhenDone'
  BY DEF AnswerRestsOn, ToldWhenDone, OnItsWay, NothingOut, NoReply, Reject, GetRejectResultCode
<1>5. SuccessIsResult' /\ RetryIsSafe'
  BY DEF SuccessIsResult, RetryIsSafe, ToldWhenDone
<1>6. SilenceExplained'
  <2>1. request'.event => reply' = NoReply
    BY Zenon DEF SilenceExplained
  <2>2. Reject("mistypedArgument", "exception") # NoReply
    BY DEF Reject, NoReply
  <2>3. ~request'.event => reply' # NoReply \/ failed'
    BY <2>2, Zenon
  <2> QED
    BY <2>1, <2>3 DEF SilenceExplained
<1>7. RecordTruthful'
  BY DEF RecordTruthful, OnItsWay, NothingOut, Untouched, Readable
<1> QED
  BY <1>1, <1>2, <1>3, <1>4, <1>5, <1>6, <1>7

\* A request that names no operation.
LEMMA IgnoreNamelessStep ==
    IInv /\ IgnoreNameless => IInv'
<1> SUFFICES ASSUME IInv, IgnoreNameless PROVE IInv'
  OBVIOUS
<1> USE DEF IInv, IgnoreNameless, Dispatchable
<1>1. TypeOK'
  BY DEF TypeOK, DetectEncoding, Requests, Encodings
<1>2. ReplyShape'
  BY DEF ReplyShape
<1>3. OnItsWay'
  BY DEF OnItsWay, Untouched, NothingOut
<1>4. AnswerRestsOn' /\ ToldWhenDone'
  BY DEF AnswerRestsOn, ToldWhenDone, OnItsWay, NothingOut, NoReply
<1>5. SuccessIsResult' /\ RetryIsSafe'
  BY DEF SuccessIsResult, RetryIsSafe, ToldWhenDone
<1>6. SilenceExplained'
  BY DEF SilenceExplained, Readable
<1>7. RecordTruthful'
  BY DEF RecordTruthful, OnItsWay, NothingOut, Untouched, Readable, DetectEncoding
<1> QED
  BY <1>1, <1>2, <1>3, <1>4, <1>5, <1>6, <1>7

\* The socket thread routes the request.
LEMMA OnInvokeMessageStep ==
    IInv /\ OnInvokeMessage => IInv'
<1> SUFFICES ASSUME IInv, OnInvokeMessage PROVE IInv'
  OBVIOUS
<1> USE DEF IInv, OnInvokeMessage, Dispatchable
<1>1. TypeOK'
  <2>1. encoding' \in Encodings \cup {"UNKNOWN"}
    BY DEF TypeOK, DetectEncoding, Requests, Encodings
  <2>2. pooled' \in BOOLEAN
    BY Zenon DEF TypeOK
  <2> QED
    BY <2>1, <2>2 DEF TypeOK
<1>2. ReplyShape'
  BY DEF ReplyShape
<1>3. OnItsWay'
  BY DEF OnItsWay, Untouched, NothingOut, Readable
<1>4. AnswerRestsOn' /\ ToldWhenDone'
  BY DEF AnswerRestsOn, ToldWhenDone, OnItsWay, NothingOut, NoReply
<1>5. SuccessIsResult' /\ RetryIsSafe'
  BY DEF SuccessIsResult, RetryIsSafe, ToldWhenDone
<1>6. SilenceExplained'
  BY DEF SilenceExplained, Readable
<1>7. RecordTruthful'
  BY DEF RecordTruthful, OnItsWay, NothingOut, Untouched, Readable
<1> QED
  BY <1>1, <1>2, <1>3, <1>4, <1>5, <1>6, <1>7

\* A worker takes the request from the queue.
LEMMA WorkerDecidesStep ==
    IInv /\ WorkerDecides => IInv'
<1> SUFFICES ASSUME IInv, WorkerDecides PROVE IInv'
  OBVIOUS
<1> USE DEF IInv, WorkerDecides
<1>1. TypeOK'
  BY DEF TypeOK, calleeVars
<1>2. ReplyShape'
  BY DEF ReplyShape
<1>3. OnItsWay'
  BY DEF OnItsWay, Untouched, NothingOut, Readable, calleeVars
<1>4. AnswerRestsOn' /\ ToldWhenDone'
  BY DEF AnswerRestsOn, ToldWhenDone, OnItsWay, NothingOut, NoReply
<1>5. SuccessIsResult' /\ RetryIsSafe'
  BY DEF SuccessIsResult, RetryIsSafe, ToldWhenDone
<1>6. SilenceExplained'
  BY DEF SilenceExplained, Readable
<1>7. RecordTruthful'
  BY DEF RecordTruthful, OnItsWay, NothingOut, Untouched, Readable
<1> QED
  BY <1>1, <1>2, <1>3, <1>4, <1>5, <1>6, <1>7

\* The request is refused or its handler is called.
LEMMA DispatchStep ==
    IInv /\ Dispatch => IInv'
<1> SUFFICES ASSUME IInv, Dispatch PROVE IInv'
  OBVIOUS
<1> USE DEF IInv, Dispatch
<1>1. TypeOK'
  <2>1. invoked' \in BOOLEAN
    BY Zenon DEF TypeOK
  <2>2. lResult' \in Codes
    BY DEF TypeOK, DecodeInvoke, Codes
  <2>3. handled' \in {0, 1}
    BY DEF TypeOK, OnItsWay, Untouched
  <2> QED
    BY <2>1, <2>2, <2>3 DEF TypeOK, calleeVars
<1>2. ReplyShape'
  BY DEF ReplyShape
<1>3. OnItsWay'
  BY DEF OnItsWay, Untouched, NothingOut, Undispatched, DecodeInvoke, Readable, Requests, TypeOK, calleeVars
<1>4. AnswerRestsOn' /\ ToldWhenDone'
  BY DEF AnswerRestsOn, ToldWhenDone, OnItsWay, NothingOut, NoReply
<1>5. SuccessIsResult' /\ RetryIsSafe'
  BY DEF SuccessIsResult, RetryIsSafe, ToldWhenDone
<1>6. SilenceExplained'
  BY DEF SilenceExplained, Readable
<1>7. RecordTruthful'
  BY DEF RecordTruthful, OnItsWay, NothingOut, Untouched, Readable
<1> QED
  BY <1>1, <1>2, <1>3, <1>4, <1>5, <1>6, <1>7

\* The handler returns.
LEMMA HandlerReturnsStep ==
    ASSUME NEW v \in {"result", "error", "reject"}, NEW c \in HandlerRejects \cup {"FUNCTIONMISSING"}, IInv, HandlerReturns(v, c)
    PROVE  IInv'
<1> USE DEF IInv, HandlerReturns
<1>1. TypeOK'
  <2>1. isError' \in BOOLEAN
    BY Zenon DEF TypeOK, HandleOnInvokeResult
  <2>2. lResult' \in Codes
    BY ExchangeAssumption DEF TypeOK, HandleOnInvokeResult, Encodes, Codes, AuthCodes
  <2>3. response' \in {"none", "result", "error"}
    BY DEF TypeOK, HandleOnInvokeResult
  <2> QED
    BY <2>1, <2>2, <2>3 DEF TypeOK, calleeVars
<1>2. ReplyShape'
  BY DEF ReplyShape
<1>3. OnItsWay'
  BY DEF OnItsWay, Untouched, NothingOut, Returned, HandleOnInvokeResult, Encodes, Readable, calleeVars
<1>4. AnswerRestsOn' /\ ToldWhenDone'
  BY DEF AnswerRestsOn, ToldWhenDone, OnItsWay, NothingOut, NoReply
<1>5. SuccessIsResult' /\ RetryIsSafe'
  BY DEF SuccessIsResult, RetryIsSafe, ToldWhenDone
<1>6. SilenceExplained'
  BY DEF SilenceExplained, Readable
<1>7. RecordTruthful'
  BY DEF RecordTruthful, OnItsWay, NothingOut, Untouched, Readable
<1> QED
  BY <1>1, <1>2, <1>3, <1>4, <1>5, <1>6, <1>7

\* The handler throws a SnaccException.
LEMMA HandlerThrowsSnaccStep ==
    IInv /\ HandlerThrowsSnacc => IInv'
<1> SUFFICES ASSUME IInv, HandlerThrowsSnacc PROVE IInv'
  OBVIOUS
<1> USE DEF IInv, HandlerThrowsSnacc
<1>1. TypeOK'
  BY DEF TypeOK, Codes, calleeVars
<1>2. ReplyShape'
  BY DEF ReplyShape
<1>3. OnItsWay'
  BY DEF OnItsWay, Untouched, NothingOut, Returned, Readable, calleeVars
<1>4. AnswerRestsOn' /\ ToldWhenDone'
  BY DEF AnswerRestsOn, ToldWhenDone, OnItsWay, NothingOut, NoReply
<1>5. SuccessIsResult' /\ RetryIsSafe'
  BY DEF SuccessIsResult, RetryIsSafe, ToldWhenDone
<1>6. SilenceExplained'
  BY DEF SilenceExplained, Readable
<1>7. RecordTruthful'
  BY DEF RecordTruthful, OnItsWay, NothingOut, Untouched, Readable
<1> QED
  BY <1>1, <1>2, <1>3, <1>4, <1>5, <1>6, <1>7

\* The handler throws anything else.
LEMMA HandlerThrowsOtherStep ==
    IInv /\ HandlerThrowsOther => IInv'
<1> SUFFICES ASSUME IInv, HandlerThrowsOther PROVE IInv'
  OBVIOUS
<1> USE DEF IInv, HandlerThrowsOther
<1>1. TypeOK'
  BY DEF TypeOK, calleeVars
<1>2. ReplyShape'
  BY DEF ReplyShape
<1>3. OnItsWay'
  BY DEF OnItsWay, Untouched, NothingOut
<1>4. AnswerRestsOn' /\ ToldWhenDone'
  BY DEF AnswerRestsOn, ToldWhenDone, OnItsWay, NothingOut, NoReply
<1>5. SuccessIsResult' /\ RetryIsSafe'
  BY DEF SuccessIsResult, RetryIsSafe, ToldWhenDone
<1>6. SilenceExplained'
  BY DEF SilenceExplained, Readable
<1>7. RecordTruthful'
  BY DEF RecordTruthful, OnItsWay, NothingOut, Untouched, Readable
<1> QED
  BY <1>1, <1>2, <1>3, <1>4, <1>5, <1>6, <1>7

\* The answer reaches the caller.
LEMMA CallerReceivesStep ==
    IInv /\ CallerReceives => IInv'
<1> SUFFICES ASSUME IInv, CallerReceives PROVE IInv'
  OBVIOUS
<1> USE DEF IInv, CallerReceives
<1>1. TypeOK'
  BY RejectIsNoSuccess DEF TypeOK, HandleInvokeResult, Codes, calleeVars
<1>2. ReplyShape'
  BY DEF ReplyShape
<1>3. OnItsWay'
  BY DEF OnItsWay, Untouched, NothingOut, NoReply, Readable, Undispatched, Returned, calleeVars
<1>4. AnswerRestsOn' /\ ToldWhenDone'
  BY DEF AnswerRestsOn, ToldWhenDone, OnItsWay, NothingOut, NoReply, ReplyShape
<1>5. SuccessIsResult' /\ RetryIsSafe'
  BY RejectIsNoSuccess DEF SuccessIsResult, RetryIsSafe, AnswerRestsOn, HandleInvokeResult
<1>6. SilenceExplained'
  BY DEF SilenceExplained, Readable, NoReply, ReplyShape, calleeVars
<1>7. RecordTruthful'
  BY DEF RecordTruthful, Readable, NoReply, ReplyShape, calleeVars
<1> QED
  BY <1>1, <1>2, <1>3, <1>4, <1>5, <1>6, <1>7

\* The caller stops waiting.
LEMMA CallerGivesUpStep ==
    IInv /\ CallerGivesUp => IInv'
<1> SUFFICES ASSUME IInv, CallerGivesUp PROVE IInv'
  OBVIOUS
<1> USE DEF IInv, CallerGivesUp
<1>1. TypeOK'
  BY DEF TypeOK, Codes, calleeVars
<1>2. ReplyShape'
  BY DEF ReplyShape
<1>3. OnItsWay'
  BY DEF OnItsWay, Untouched, NothingOut, Readable, Undispatched, Returned, calleeVars
<1>4. AnswerRestsOn' /\ ToldWhenDone'
  BY DEF AnswerRestsOn, ToldWhenDone
<1>5. SuccessIsResult' /\ RetryIsSafe'
  BY DEF SuccessIsResult, RetryIsSafe, ToldWhenDone
<1>6. SilenceExplained'
  BY DEF SilenceExplained, Readable, calleeVars
<1>7. RecordTruthful'
  BY DEF RecordTruthful, Readable, calleeVars
<1> QED
  BY <1>1, <1>2, <1>3, <1>4, <1>5, <1>6, <1>7

\* The callee's session pauses or resumes.
LEMMA GateMovesStep ==
    IInv /\ GateMoves => IInv'
<1> SUFFICES ASSUME IInv, GateMoves PROVE IInv'
  OBVIOUS
<1> USE DEF IInv, GateMoves
<1>1. TypeOK'
  BY DEF TypeOK
<1>2. ReplyShape'
  BY DEF ReplyShape
<1>3. OnItsWay'
  BY DEF OnItsWay, Untouched, NothingOut, Readable, Undispatched, Returned
<1>4. AnswerRestsOn' /\ ToldWhenDone'
  BY DEF AnswerRestsOn, ToldWhenDone
<1>5. SuccessIsResult' /\ RetryIsSafe'
  BY DEF SuccessIsResult, RetryIsSafe
<1>6. SilenceExplained'
  BY DEF SilenceExplained, Readable
<1>7. RecordTruthful'
  BY DEF RecordTruthful, Readable
<1> QED
  BY <1>1, <1>2, <1>3, <1>4, <1>5, <1>6, <1>7

\* The pool of the callee stops.
LEMMA PoolStopsStep ==
    IInv /\ PoolStops => IInv'
<1> SUFFICES ASSUME IInv, PoolStops PROVE IInv'
  OBVIOUS
<1> USE DEF IInv, PoolStops
<1>1. TypeOK'
  BY DEF TypeOK
<1>2. ReplyShape'
  BY DEF ReplyShape
<1>3. OnItsWay'
  BY DEF OnItsWay, Untouched, NothingOut, Readable, Undispatched, Returned
<1>4. AnswerRestsOn' /\ ToldWhenDone'
  BY DEF AnswerRestsOn, ToldWhenDone
<1>5. SuccessIsResult' /\ RetryIsSafe'
  BY DEF SuccessIsResult, RetryIsSafe
<1>6. SilenceExplained'
  BY DEF SilenceExplained, Readable
<1>7. RecordTruthful'
  BY DEF RecordTruthful, Readable
<1> QED
  BY <1>1, <1>2, <1>3, <1>4, <1>5, <1>6, <1>7

\* The tail of OnInvokeMessage: what goes out rests on what the handler did, and the record
\* says so.
LEMMA CompleteStep == IInv /\ Complete => IInv'
<1> SUFFICES ASSUME IInv, Complete PROVE IInv'
  OBVIOUS
<1> DEFINE Response == [kind |-> response, problem |-> "none", detail |-> "none"]
<1>1. PICK ok \in BOOLEAN :
        /\ reply' = IF ok THEN Answer ELSE NoReply
        /\ failed' = (~ok /\ Answer # NoReply)
        /\ lResult' = IF failed' THEN "TRANSPORTFAILED" ELSE ResultCode
        /\ records' = Append(records, Outcome(lResult'))
  BY Zenon DEF Complete
<1>2. /\ pc = "complete" /\ pc' = "done"
      /\ UNCHANGED <<request, encoding, gate, stopping, mode, pooled, invoked, response, isError,
                     handled, verdict, callerResult>>
  BY DEF Complete, calleeVars
<1>3. TypeOK /\ ReplyShape /\ OnItsWay /\ ToldWhenDone /\ NothingOut
  BY <1>2 DEF IInv, OnItsWay
<1>4. callerResult \in {"pending", "TIMEOUT"}
  BY <1>2, <1>3 DEF ToldWhenDone
\* The answer is missing, a response or a reject, each with its reason.
<1>5. \/ Answer = NoReply
      \/ /\ Answer = Response /\ ResultCode = "NOERROR" /\ response # "none"
         /\ ResultCode = lResult
      \/ /\ Answer = EncodeInvokeRejectResponse(ResultCode) /\ ResultCode # "NOERROR"
         /\ ResultCode = lResult /\ ~request.event
  BY DEF Answer, DropReply, ResultCode
<1>6. response # "none" =>
        /\ handled = 1 /\ ~request.event /\ request.op = "invoke"
        /\ response = verdict /\ verdict \in {"result", "error"} /\ isError = (verdict = "error")
  BY <1>2, <1>3 DEF OnItsWay, Untouched, Undispatched, Returned
<1>7. Answer \in [kind : {"none", "result", "error", "reject"}, problem : Problems, detail : Details]
  BY <1>5, <1>3, RejectShape DEF TypeOK, NoReply, Problems, Details
<1>8. ResultCode \in Codes /\ lResult' \in Codes
  BY <1>1, <1>3 DEF ResultCode, TypeOK, Codes
<1>9. records' = <<Outcome(lResult')>> /\ Len(records') = 1
  BY <1>1, <1>3 DEF NothingOut
<1>10. TypeOK'
  <2>1. records' \in Seq({"RESULT", "ERR", "REJECT", "EVENT", "UNHANDLED"})
    BY <1>9 DEF Outcome
  <2>2. failed' \in BOOLEAN
    BY <1>1, Zenon
  <2>3. /\ reply'.kind \in {"none", "result", "error", "reject", "consumed"}
        /\ reply'.problem \in Problems
    BY <1>1, <1>7 DEF NoReply, Problems
  <2> QED
    BY <1>2, <1>3, <1>8, <2>1, <2>2, <2>3 DEF TypeOK
<1>11. ReplyShape'
  BY <1>1, <1>7 DEF ReplyShape, NoReply, Problems, Details
<1>12. OnItsWay' /\ ToldWhenDone'
  BY <1>2 DEF OnItsWay, ToldWhenDone
<1>13. CASE failed'
  <2>1. reply' = NoReply
    BY <1>1, <1>13, Zenon
  <2>2. records' = <<"UNHANDLED">>
    BY <1>1, <1>9, <1>13 DEF Outcome
  <2>3. AnswerRestsOn' /\ SuccessIsResult' /\ RetryIsSafe'
    BY <1>2, <1>4, <2>1 DEF AnswerRestsOn, SuccessIsResult, RetryIsSafe, NoReply
  <2>4. SilenceExplained'
    BY <1>13, <2>1 DEF SilenceExplained
  <2>5. request.op # "none" /\ verdict # "exception"
    BY <1>2, <1>3 DEF OnItsWay, Untouched, Undispatched, Returned
  <2>6. RecordTruthful'
    BY <1>2, <1>9, <2>2, <2>5 DEF RecordTruthful
  <2> QED
    BY <1>10, <1>11, <1>12, <2>3, <2>4, <2>6 DEF IInv
<1>14. CASE ~failed'
  <2>1. reply' = Answer
    BY <1>1, <1>14, Zenon
  <2>2. lResult' = ResultCode /\ records' = <<Outcome(ResultCode)>>
    BY <1>1, <1>9, <1>14
  <2>4. AnswerRestsOn'
    <3>1. ASSUME reply'.kind \in {"result", "error"}
          PROVE  /\ reply'.kind = verdict /\ handled = 1
                 /\ records' = <<IF verdict = "error" THEN "ERR" ELSE "RESULT">>
      <4>1. EncodeInvokeRejectResponse(ResultCode).kind = "reject"
        BY RejectShape
      <4>2. Answer = Response /\ ResultCode = "NOERROR" /\ response # "none"
        BY <1>5, <2>1, <3>1, <4>1 DEF NoReply
      <4>3. Outcome("NOERROR") = IF verdict = "error" THEN "ERR" ELSE "RESULT"
        BY <1>6, <4>2 DEF Outcome
      <4> QED
        BY <1>6, <2>1, <2>2, <4>2, <4>3
    <3>2. ASSUME reply'.kind = "reject",
                 GetRejectResultCode(reply') \in {"UNKNOWNOPERATION", "QUEUE_FULL"}
          PROVE  handled' = 0
      <4>1. /\ reply' = EncodeInvokeRejectResponse(lResult) /\ lResult # "NOERROR"
        BY <1>3, <1>5, <2>1, <3>2 DEF NoReply, TypeOK
      <4>2. lResult \notin HandledCodes
        BY <3>2, <4>1, HandledRejectIsDistinct
      <4> QED
        BY <1>2, <1>3, <4>1, <4>2 DEF OnItsWay, Untouched, Undispatched, Returned, HandledCodes
    <3> QED
      BY <1>2, <3>1, <3>2 DEF AnswerRestsOn
  <2>5. SuccessIsResult' /\ RetryIsSafe'
    BY <1>2, <1>4 DEF SuccessIsResult, RetryIsSafe
  <2>6. SilenceExplained'
    <3>1. request'.event => reply' = NoReply
      BY <1>2, <1>5, <1>6, <2>1
    <3>2. ASSUME ~request.event, Answer = NoReply
          PROVE  \/ request.op = "event" \/ lResult' = "TIMEOUT"
                 \/ lResult' = "SHUTDOWN" /\ invoked
      <4>1. CASE EndedMeanwhile
        BY <2>2, <4>1 DEF EndedMeanwhile, ResultCode
      <4>2. CASE ~EndedMeanwhile /\ mode = "DropExpired"
        BY <1>2, <1>3, <2>2, <4>2 DEF OnItsWay, ResultCode
      <4>3. CASE ~EndedMeanwhile /\ mode # "DropExpired"
        <5>1. lResult = "NOERROR" /\ response = "none"
          BY <1>3, <3>2, <4>3, RejectShape DEF Answer, DropReply, ResultCode, NoReply, TypeOK
        <5> QED
          BY <1>2, <1>3, <3>2, <5>1, ExchangeAssumption
            DEF OnItsWay, Untouched, Undispatched, Returned, AuthCodes
      <4> QED
        BY <4>1, <4>2, <4>3
    <3> QED
      BY <1>2, <2>1, <3>1, <3>2 DEF SilenceExplained
  <2>7. RecordTruthful'
    <3>1. request.op # "none" /\ verdict # "exception"
      BY <1>2, <1>3 DEF OnItsWay, Untouched, Undispatched, Returned
    <3>2. ASSUME ResultCode = "NOERROR"
          PROVE  /\ lResult = "NOERROR" /\ ~EndedMeanwhile /\ handled = 1 /\ mode = "Run"
                 /\ ~request.event => request.op = "event" \/ Answer = Response
                 /\ request.event \/ request.op = "event" => ~isError
      <4>1. lResult = "NOERROR" /\ ~EndedMeanwhile
        BY <3>2 DEF ResultCode
      <4>2. invoked /\ mode = "Run" /\ Returned
        BY <1>2, <1>3, <4>1 DEF OnItsWay, Undispatched
      <4>3. \/ (request.event \/ request.op = "event") /\ ~isError
            \/ ~request.event /\ request.op = "invoke" /\ response # "none"
        BY <4>1, <4>2, ExchangeAssumption DEF Returned, AuthCodes
      <4>4. ~request.event => request.op = "event" \/ Answer = Response
        BY <3>2, <4>1, <4>2, <4>3 DEF Answer, DropReply
      <4> QED
        BY <4>1, <4>2, <4>3, <4>4 DEF Returned
    <3>3. Response # NoReply \/ response = "none"
      BY DEF NoReply
    <3>4. ASSUME records' = <<"RESULT">>, request.op # "event"
          PROVE  reply' # NoReply /\ response' = "result"
      <4>1. ResultCode = "NOERROR" /\ ~request.event /\ ~isError
        BY <2>2, <3>4 DEF Outcome
      <4>2. reply' = Response /\ Answer = Response /\ lResult = "NOERROR" /\ mode = "Run"
        BY <2>1, <3>2, <3>4, <4>1
      <4>3. response = "result"
        BY <1>2, <1>3, <3>4, <4>1, <4>2, ExchangeAssumption
          DEF OnItsWay, Undispatched, Returned, AuthCodes
      <4> QED
        BY <1>2, <3>3, <4>2, <4>3
    <3>5. ASSUME records' = <<"ERR">>
          PROVE  reply' # NoReply /\ response' = "error"
      <4>1. ResultCode = "NOERROR" /\ ~request.event /\ isError
        BY <2>2, <3>5 DEF Outcome
      <4>2. reply' = Response /\ lResult = "NOERROR"
        BY <2>1, <3>2, <4>1
      <4>3. response = "error"
        BY <1>2, <1>3, <4>1, <4>2 DEF OnItsWay, Untouched, Undispatched, Returned
      <4> QED
        BY <1>2, <3>3, <4>2, <4>3
    <3>6. records' = <<"EVENT">> => request'.event /\ handled' = 1
      BY <1>2, <2>2, <3>2 DEF Outcome
    <3> QED
      BY <1>2, <1>9, <3>1, <3>4, <3>5, <3>6 DEF RecordTruthful
  <2> QED
    BY <1>10, <1>11, <1>12, <2>4, <2>5, <2>6, <2>7 DEF IInv
<1> QED
  BY <1>13, <1>14

\* A step that leaves everything alone.
LEMMA StutterStep == IInv /\ UNCHANGED vars => IInv'
  BY DEF IInv, vars, calleeVars, TypeOK, ReplyShape, OnItsWay, NothingOut, Untouched, Undispatched,
         Returned, AnswerRestsOn, ToldWhenDone, SuccessIsResult, RetryIsSafe, SilenceExplained,
         RecordTruthful, Readable

\* The invariant is inductive.
LEMMA IInvInvariant == Spec => []IInv
<1>1. IInv /\ [Next]_vars => IInv'
  BY EnvelopeFailureStep, RoseFailureStep, IgnoreNamelessStep, OnInvokeMessageStep,
     WorkerDecidesStep, DispatchStep, HandlerReturnsStep, HandlerThrowsSnaccStep,
     HandlerThrowsOtherStep, CompleteStep, CallerReceivesStep, CallerGivesUpStep,
     GateMovesStep, PoolStopsStep, StutterStep, Zenon DEF Next
<1> QED
  BY InitIInv, <1>1, PTL DEF Spec

-----------------------------------------------------------------------------
(* Theorems *)

\* Every variable keeps its type, the result codes among them.
THEOREM TypeCorrect == Spec => []TypeOK
<1>1. IInv => TypeOK
  BY DEF IInv
<1> QED
  BY IInvInvariant, <1>1, PTL

\* Success at the caller is a result of the handler that the callee counted as one, whatever
\* reject codes the handlers use and wherever session, pool, transport and timeout cut in.
THEOREM SuccessIsAlwaysResult == Spec => []SuccessIsResult
<1>1. IInv => SuccessIsResult
  BY DEF IInv
<1> QED
  BY IInvInvariant, <1>1, PTL

\* A caller told that the operation is unknown or the queue full may try again: the handler
\* did not run.
THEOREM RetryIsAlwaysSafe == Spec => []RetryIsSafe
<1>1. IInv => RetryIsSafe
  BY DEF IInv
<1> QED
  BY IInvInvariant, <1>1, PTL

\* Events are never answered, and an invoke that is not has one of the listed reasons.
THEOREM SilenceIsExplained == Spec => []SilenceExplained
<1>1. IInv => SilenceExplained
  BY DEF IInv
<1> QED
  BY IInvInvariant, <1>1, PTL

\* The callee's telemetry counts every request once and says what was sent.
THEOREM RecordIsTruthful == Spec => []RecordTruthful
<1>1. IInv => RecordTruthful
  BY DEF IInv
<1> QED
  BY IInvInvariant, <1>1, PTL
=============================================================================
