# esnacc: a verification project for the ROSE runtime and the code around it

esnacc is an ASN.1 compiler with back ends for several languages and a runtime for each.
The part of the repository that runs for months, on several threads at once, is the C++ ROSE
runtime: `SnaccROSEBase` (remote operations over a transport the application supplies) and
`SnaccWorkerPools` (named thread pools that run inbound handlers). Its TypeScript peer runs on
one thread and interleaves at every `await`. Both talk in frames and BER or JSON, with classes
the compiler wrote. The project models the runtimes as state machines, and the sequential parts
they rest on (lengths, integers, framing, the SEQUENCE code, the order of the generated
classes) as operators.

## 1. Inventory

| component | state | operations | what must be right | module |
|---|---|---|---|---|
| Outbound invokes (`SnaccROSEBase.cpp`, `syncevent.cpp`) | `m_PendingOperations`, one `SnaccROSEPendingOperation` per call, `m_asyncDeadlineCount` | `SendInvoke`, `SendInvokeAsync`, `SendEvent`, `CompletePendingOperation`, `FinishAsyncInvoke` | one completion per call, a code that says what happened, nothing left in the map | `OutboundInvoke` |
| Watchdog thread | its flags and the thread | `EnsureWatchdogRunning`, `ProcessAsyncTimeouts`, `StopWatchdogThread` | every deadline is acted on; the destructor can join it | `OutboundInvoke` |
| Processing gate | `m_bProcessingAllowed` | `PauseRoseProcessing`, `ResumeRoseProcessing`, the destructor | after a pause nobody waits and no handler runs | `OutboundInvoke`, `WorkerPools`, `StubSession` |
| Invoke ids (`GetNextInvokeID`) | a counter that wraps at 99998 | next id | a call has its own operation and its own answer | `StubSession` |
| Worker pools (`SnaccWorkerPools.cpp`) | deque, `running`, `idleWorkers`, `liveWorkers`, `stopping`, threads, in-flight count per stub, registry | `Configure`, `Enqueue`, `WorkerMain`, `RejectQueuedAndWait`, `Shutdown` | limits hold, no wake-up is lost, shutdown leaves nothing, a dead stub is never called | `WorkerPools` |
| Inbound dispatch | none of its own | receive, run on the socket thread or in a pool, reply or reject | each invoke ends exactly once | `WorkerPools`, `InboundContract` |
| Envelope and reject policy (`OnBinaryDataBlock`, `OnROSEMessage`, `EncodeInvokeRejectResponse`, `GetRejectResultCode`) | none | decode, classify, encode, record | a code the caller sees is true of what the callee did | `InvokeExchange` |
| Operation lookup, capabilities, block policy | three maps, the peer's offer, the policy | register, seal, look up, `IsOperationBlocked` | a verdict is right at some moment of the check | `SessionPolicy` |
| Session subscription store | ids by module and flat | set, add, clear | the flat sets agree with the sets by module | `SessionPolicy` |
| C and C++ codecs | buffers | encode, decode | decode inverts encode at every bound | `BerLength`, `AsnIntCodec`, `SequenceCodec` |
| Compiler core (`compiler/core`) | the parsed module list | parse, link, normalise, check, order | recursion is found, a class is defined before it is contained, tags can be told apart | `TypeOrder`, `SequenceCodec` |
| Compiler back ends | none | write text | what the written code does | `SequenceCodec`, `InvokeExchange`, `TypeOrder` |
| TypeScript client (`TSASN1Client`, `TSASN1Base`, `TSASN1NodeClient`) | socket, connection attempt, queued requests, pending invokes, timers | connect, disconnect, `sendInvoke`, reconnect, pause, framing | one attempt at a time, every promise settled once, frames survive TCP | `StateFullClient`, `TcpFraming` |
| Telemetry sinks, module versions | counters, tables | measure, format | | not modelled |
| jsoncpp, win_flex_bison, samples, scripts | | | | vendored or examples |

Interaction: an application thread calls `SendInvoke*` and hands bytes to the transport; the
transport's receiving thread calls `OnBinaryDataBlock`, which completes a pending operation or
dispatches an inbound invoke, on that thread or through a pool; the watchdog thread and the
thread that pauses finish asynchronous operations too; a pool thread calls back into the stub
it took the item for, and a handler may invoke in turn. Two mutexes guard the outbound half
(`m_InternalProtectMutex` for the map and the count, `m_watchdogMutex` for the watchdog flags);
a registry mutex, one mutex per pool and an in-flight mutex guard the pools.

Hard here: reads of the gate, of `pendingOP` and of the count outside a lock; the writes of
`SendInvokeAsync` into an operation that others can already claim; four threads that
may finish one operation; a stop flag and a counter under different mutexes; counters that
stand for what threads do; items that are in no queue and in no handler for a moment; shutdown
and destruction at any of those moments; a pause that waits for handlers which wait for
answers; a caller that gives up while the callee executes; connection attempts suspended in
user callbacks; peers of different versions. `PROJECT.json` lists each as a hazard with its line.

## 2. Modules

| module | what it is |
|---|---|
| `OutboundInvoke` | outbound calls, pending map, receiver, watchdog, gate and destructor |
| `OutboundContract` | the abstract promise of outbound calls, refined by `OutboundInvoke` |
| `WorkerPools` | pools, pool threads, socket threads, pause/resume/destroy of stubs, Configure and Shutdown |
| `InboundContract` | the abstract promise of the inbound half, refined by `WorkerPools` |
| `StubSession` | id counter, pending map, handlers and pause of one stub in one state |
| `InvokeExchange` | one request from caller to callee and back: decoding, routing, handler, reply, reject codes, telemetry |
| `StateFullClient` | the TypeScript client: connection attempts, requests, timers, disconnect, pause |
| `SessionPolicy` | subscription store, operation lookup, capabilities, block policy |
| `BerLength`, `AsnIntCodec` | length octets and INTEGER contents of both libraries |
| `CodecPromises` | what the two promise of one input |
| `TcpFraming` | a TCP connection of the node client: the JSON length header, `handleFraming`, reconnecting, over `BerLength` |
| `SequenceCodec` | the C++ code generated for a SEQUENCE, BER and JSON, the tag check of the compiler, the ROSE envelope |
| `TypeOrder` | recursion marks and order of the type definitions for the C++ back end |
| `WorkerPoolsProofs`, `InboundContractProofs` | theorems about `WorkerPools`: its counters and limits; the life of pools, stubs and items, and the refinement |
| `OutboundInvokeProofs`, `StubSessionProofs`, `InvokeExchangeProofs`, `StateFullClientProofs`, `SessionPolicyProofs` | theorems about the module of that name |
| `CodecProofs` | theorems about `CodecPromises` and `TcpFraming` |
| `MCOutbound`, `MCPools`, `MCSession`, `MCExchange`, `MCClient`, `MCAlgorithms` | instances for TLC |

`MCAlgorithms` drives the operator modules, `TcpFraming` and `SessionPolicy` together: a step
takes one input of one algorithm, or is one step of a connection or of a session.

### OutboundInvoke

A *call* is one `SendInvoke`, `SendInvokeAsync` or `SendEvent` on a thread of its own; `pc` is
where it is. One step is one critical section or one access outside a lock, so the unlocked
reads of the code are steps that others can come between. What a call asks for (function,
timeout, whether the session blocks the operation) is drawn once from `Asks`.

| state | code |
|---|---|
| `inMap`, `op` | `m_PendingOperations` and the fields of an operation; `ctx` and `stamp` say that the callback context and the start time of its telemetry record have been stored |
| `count` | `m_asyncDeadlineCount` |
| `wdpc`, `wdNext`, `wdList`, `stopReq`, `running` | watchdog thread, its `nextDeadline`, its list, its two flags |
| `gate`, `ppc`, `plist`, `dying` | `m_bProcessingAllowed` and the thread inside pause or the destructor |
| `fin` | what is left of a `FinishAsyncInvoke` that has claimed an operation, and who runs it; `at` is a history: which of its writes the registering thread still had before it |
| `wire` | what the transport holds: nothing, a request, or the answer that was delivered |
| `heirs` | operations that may sit at the address of a freed one (see `Reuse`) |
| `cbs`, `telem`, `shut` | histories: callbacks, telemetry outcomes, calls a pause completed |

A deadline is the number of ticks left, and `Tick` ages all of them at once; behaviours are not
bounded in time. The answer's kind stands for the message: a result, an error, a reject, or a
result whose payload does not decode.

`AddPendingOperation` puts the operation into the map, and `SendInvokeAsync` fills it in
afterwards through a reference, without a lock (lines 2278-2288). Each write is a step:
`MarkAsync`, `StoreContext`, `StampTelemetry`, `ArmDeadline`, `CountDeadline`. From the first of
them on, a pause may claim the operation before the next write, and from `ArmDeadline` on the
watchdog may too; the write then goes to an operation somebody else is finishing, or has freed.
`FinishAsyncInvoke` reads the fields as late as the code does: the context in `FinishContext`,
the start time in `FinishReport`.

`Reuse` lets the allocator hand out the memory of a freed operation before `SendInvokeAsync`
reads its id from it (line 2301). Without it the read finds the old id. It is FALSE in all runs;
with TRUE TLC finds `ResultExplained` violated in the instance of `outbound`: a fire-and-forget call was finished by the receiver, the sender reads an
id from the freed operation and finishes another call.

Simplifications: the two lookups of `CompletePendingOperation` and `FinishAsyncInvoke` are one
step (when somebody else claims the operation in between, the answer is as good as late); ids
are distinct; the exception path of `Send` ends the call and leaves its operation in the map,
as the code does; the mark of a fire-and-forget call is stored together with `m_bAsyncInvoke`
(claimed between the two, an operation has neither a context nor a start time to tell the
difference). Each unlocked read and write is atomic: two threads that store and copy the
`shared_ptr` `m_pAsyncContext` at the same moment are a data race, which the model does not go into.

### WorkerPools

One pool name, in successive generations: `Configure` shuts the current pool down and installs
the next, and threads that still hold the old `shared_ptr` keep seeing the old state. A
condition variable is modelled by where its waiters are: notify moves one or all from `wait` to
`woken`, and a woken thread is still counted idle until it holds the mutex again, as in the
code. A timed wait may end at any moment. The deque is a set of items with push tickets.

| state | code |
|---|---|
| `stopping`, `queue`, `running`, `idle`, `live` | the fields of `SnaccWorkerPoolState` |
| `current`, `configs` | the registry maps |
| `wpool`, `wpc`, `witem` | the pool threads: generation, place in `WorkerMain`, item |
| `inflight` | the in-flight count of each stub (`NoteInflight`) |
| `gate`, `ctl`, `pauses` | the gate of each stub and the thread that pauses or destroys it |
| `rpc`, `ritem`, `rpool` | the socket thread of each stub, between receiving and finishing |
| `opc`, `opool`, `oitems`, `again` | the owner inside `JoinPool`, called by `Shutdown` or `Configure` |
| `arrived`, `ends` | histories: what came and how it ended |

The check of the gate (`SnaccROSEBase.cpp` 1657) and the call of the handler (1663) are two steps:
`WorkerRun` or `InlineRun` lets the invoke in (`cleared`), `WorkerStart` or `InlineStart` calls the
handler, whatever the gate says by then. A pause waits for a pool thread that is in between
(`PauseDrains` counts it), and for no socket thread: an inline handler may start on a session that
has closed since. An item may wait in the queue through a pause and the resume after it; the
thread that pops it then finds the gate open.

Simplifications: for a pool thread, its own check of `stopping` and the gate
(`SnaccWorkerPools.cpp` 256-257) and the one of `OnInvokeMessage` (1657) are one step; the item is in
flight between them, so a pause that begins there has not returned at the second, and the gate
cannot have closed and opened again. The
`notify_one` after `Enqueue` started a thread is left out: a thread is started only when no
thread waits. `NoteInflight` never lets a count go below zero; the model decrements, and the
theorem `TypeCorrect` shows the guard never bites. A deadline that has passed is a free choice
for the items in `Deadlined`. A retired thread's replacement takes its name.

`SerialShutdown` is an assumption about the application: nobody pauses or destroys a stub while
the owner is inside `Shutdown` or `Configure`, nor the other way round. `DeadStubUntouched` needs it:
`JoinPool` takes the items out of the queue and rejects them later, and a destructor that runs
in between sees them neither in a queue nor in flight.

### InboundContract

An invoke is new, waiting, admitted, running, ended. It is refused while it waits or its handler
runs once, and it ends once. Only an open session admits. A session that closes is first
*closing*, and *closed* when the pools have left the last invoke they had let in; so no handler
starts on a pool thread of a closed session. An invoke the socket thread has let in is not waited
for: its handler may start, and run, on a closed session. An invoke that was queued while the
session was closed is let in by the session that reopened, which the contract allows and the
documentation does not (`bad_closed_session`).

The refinement mapping: `phase` is read off the threads that hold the item and its end, `onPool` are
the items with a pool thread between the check and the end of the reply, `session` is open or closed
as the thread that pauses or destroys the stub is outside, or has returned, and closing in between.

### StubSession

`OutboundInvoke` keeps ids distinct and `WorkerPools` knows no outbound calls; what goes wrong
between them needs one state. Threads call `SendInvoke`, from the application or nested in a
pooled handler of the same stub; ids come from the counter; `AddPendingOperation` gives the
caller the operation that is already under its id, as `emplace` does; answers are late,
reordered or lost; the pause shuts the gate, waits for the handlers in flight, then completes
the operations.

| state | code |
|---|---|
| `invokeCounter`, `id` | `m_lInvokeCounter` and the id a call took |
| `pending`, `op`, `signaled`, `answeredBy` | the map, the operation a caller holds, its event, its answer |
| `inflight`, `pause`, `processingAllowed` | handlers in flight, the thread in `PauseRoseProcessing`, the gate |
| `serial`, `wrapped` | histories: the number of a call; the ids came round on a call or an answer under way |

### InvokeExchange

One request and everything that can become of it. `pc` is where it is (transit, pool queue,
dispatch, handler, completion); `lResult`, `response`, `isError` are the locals the tail of
`OnInvokeMessage` decides from; gate and pool may shut between any two steps, the transport may
refuse the answer, the caller may give up at any moment. A request says whether it is an event,
whether the callee knows the operation, whether its argument decodes and how it is encoded.
The reject codes are translated in both directions (`EncodeInvokeRejectResponse`,
`GetRejectResultCode`), case by case.

### StateFullClient

An action is what runs between two returns to the event loop. `attempt` says where each
`createStateFullConnection` is suspended (in `onBeforeConnect`, until the socket reports, in
`onClientConnected`), `link` what the network under it does, `message` where the payload of a
request is. `kind` draws the requests of a behaviour: `connect()`, an invoke with a timeout, one
without, and the two over `fetch`. `quiet` and `lost` are histories.

An attempt ends in one of four ways before it has a socket: `onBeforeConnect` vetoes it,
`getConnectionSocket` throws or returns nothing (`NoConnectionSocket`), the connection fails, or it
succeeds. The first two leave `openingStateFullConnection` set for good. A `fetch` may end with a
response that completes nothing, because it does not decode or is a reject with the invoke id 0
(`FetchEnds`, `unanswered`). `SocketClosed` runs the `onClientDisconnected` callbacks first, up to
their first await, then the shutdown and `setReconnectTimeout`; a `disconnect()` in a callback is one
of its outcomes, and the timer is armed after it.

Not in it: inbound invokes, `setTarget` during an attempt, `sendEvent`, the browser socket.

### SessionPolicy

The store's operations hold its lock throughout and are one step each. `Owners` says which
modules an operation may be stored for; an operation of two modules leaves the flat set with
the first module that is cleared, as the comment in `RoseSessionSubscriptionStore.cpp` says.
`installed` says whether the sender forwards to a store at all; without one every subscription
query answers true.

`IsOperationBlocked` is a sequence of steps, as in the code: the policy, the store, the flag
`m_bRemoteModuleCapabilitiesSet`, the map of the capabilities (`check` is where it is and what it
was asked). Setting and clearing the capabilities are two unlocked writes each, the map and then the
flag (`calling`). The history `verdicts` collects what the documented rules say of the operation at
each moment of the check; `VerdictJustified` says that the verdict is one of them. It leaves out
three cases: a `ClearRemoteModuleCapabilities` that overlaps with the check (it empties the map
before it resets the flag, so an invoke that is allowed before and after can be blocked), a second
call that changes something during the same check, and the operations of two modules, which leave
the flat set early. The copy of the map is one step; a read in the middle of it is a data race.

### The algorithms

`BerLength`: `BEncDefLen` in both of its forms, the decoders of both libraries, which are the
same code, and the length reader of the framing, on octets. `AsnIntCodec`: the C library's four
octet INTEGER and the C++ library's octet string, unsigned values included. `TypeOrder`:
definitions with their references after normalisation; recursion marks, the members held by
pointer, and the passes of `SortTypeDependencies`. `SequenceCodec`: a SEQUENCE is its elements
with their tags and presence, its root elements and whether it is open; data are identities
with tags. The eight SEQUENCEs of the ROSE envelope (`SNACCROSE.cpp`) are written down as such
shapes.

### TcpFraming

The peer writes messages (`Write`), TCP hands any number of their octets to `onmessage`
(`Receive`), and each turn of `handleFraming`'s loop is a step: `Consume` a frame, `Discard` an
octet that starts none, `Return` the frames when the next one is not complete, or `Throw` out of
`parseBerLength`, which loses the frames of this call. Another read never comes between two turns
(`scanning`), because the client has one thread. `Reconnect` makes the next connection and leaves
`pendingSocketData` as it is, as `getConnectionSocket` does; `torn` remembers that this was in the
middle of a frame. `sent`, `stream` and `ends` record what the peer wrote, `frames` what
`onSocketMessage` got. A client behind a torn connection may take octets of the new one for the
rest of the old frame, discard octets or throw; the run reaches these steps, and the properties
say nothing after them.

## 3. Runs

All runs but `exchange` say `CHECK_DEADLOCK FALSE`: calls, items and inputs are finite and a
peer need not answer, so a behaviour may end.

| run | instance | shows |
|---|---|---|
| `outbound` | two calls, each of six kinds (waiting, fire-and-forget, asynchronous with and without a deadline, event, blocked); one pause anywhere and a resume, unless both calls are asynchronous; the destructor | at most one callback and one telemetry record that agrees with it, and both there unless another thread claimed the operation before the field they need was stored (`CompletesOnce`); every code is explained by what happened (`ResultExplained`); nothing left in the map (`ReturnLeavesNothing`); no thread after the destructor (`QuietAfterDestroy`) |
| `outbound_live` | two waiting calls; an event next to one; an asynchronous call next to a blocked one; two asynchronous calls that share the watchdog; failing sends; one pause unless both are asynchronous | the calls keep `OutboundContract` (`KeepsCallContract`); under fairness `WaitersReleased`, `DeadlineCallsBack`, `DestructorReturns` |
| `pools_threads` | three items, one stub, at most two threads, depth two, idle exits, throwing handlers, a pause, a shutdown | `TypeOK`, `CountersExact`, `LimitsHold`, `FloorStays`, `WorkNotStranded` |
| `pools_stubs` | two stubs, three items behind one thread that retires when a handler throws; pause, resume, destroy, shutdown | `PauseDrains`, `DeadStubUntouched`, refinement of `InboundContract` (`KeepsContract`) |
| `pools_live` | two generations, two items, two threads, idle exits, depth one | `RetiredPoolEmpty`, and under fairness `InvokesEnd`, `OwnersReturn` |
| `session` | a handler and two application threads, one without a deadline; two ids, three calls, one pause | `OwnOperation`, `OwnAnswer` although ids come round; `PauseEnds` although the pause waits for a handler that waits for an answer |
| `exchange` | every request, every order of pause, pool shutdown, failure and timeout | a success means one execution with a result (`SuccessIsResult`); the codes that invite a retry mean the handler did not run (`RetryIsSafe`); events are never answered and every silence has a reason (`SilenceExplained`); one record that says what was sent (`RecordTruthful`) |
| `ts_client` | three requests at a time, of five kinds between them; three connection attempts, a disconnect, also inside `onClientDisconnected`, a pause, drops, vetoes, attempts without a socket and failing ones | `TypeOK`, `NoForgottenCaller`, `SingleFlight`, `DisconnectIsFinal`; under fairness `RequestsEnd`, `Reconnects` |
| `algorithms` | inputs below; two modules, two operations, two names | `FramingTransparent`, `LengthsReadBack`, `IntegersReadBack`, `TypesOrdered`, `ClassesDefinedBeforeUse`, `ElementsReadBack`, `TablesAgree`, `VerdictJustified` |

Bounds. Two calls are enough for every race on one operation (its own thread, the receiver, the
watchdog and the pauser are separate actors already) and for two deadlines in one watchdog. One
pause and a resume reach a closed and a reopened session. When both calls are asynchronous the
instances have no pause (`MaxPauses` is a function of what the calls ask): their race is about the
shared watchdog and its count, and a pause meets one asynchronous call in every place in the other
instances. Timeouts are one or two ticks: only
their order matters. Two pool threads and a third name are enough to reach the cap, to go above
the floor and to replace a thread; three items reach a full queue with a running handler; two
generations are what an enqueue with a stale pool needs. With one thread, items wait behind a
handler of another stub, and a retirement with work in the queue has nobody else to fall back on.
Two ids and three calls bring an id round while its first user still waits; the theorems hold for
every limit. Three attempts reach a failure, a drop and a reconnect in one behaviour.

Inputs of `algorithms`. Framing: every pair of messages, JSON and BER, whose contents hold the
octets that start a frame, one of them long enough for the long length form, cut at every place
into any number of reads, with connections lost at any time; two messages are enough for one to
be behind another or behind the rest of a lost one, and the theorems are about any number.
Lengths: 0 to 300 and around every bound. Integers: around every power of two that changes the
number of octets, both signs; unsigned words of edge octets. Types: every module of three
definitions of the given shapes, and four with a cycle. SEQUENCEs: every list of up to three
elements of thirteen kinds, every number of root elements and every older version, and the
envelope. Session: two modules and two operations, one of them for both modules, one set of
capabilities and none; checks of the operation of one module, as an invoke and as an event, with and
without a store.

`TypesOrdered` says that no definition is lost and that a warning is right; that a warning is given
is stated only for modules none of whose CHOICEs has several alternatives. `ClassesDefinedBeforeUse`
leaves out two shapes the code does not order: a circle of values, and a recursive class that contains
by value one that is not recursive but leads to a recursive one (such a class is put last).

Fairness. `OutboundInvoke!Fairness`: each started call, each finishing thread, the watchdog and
a pause that has begun keep running, and time passes; mutexes are held for bounded sections and
the threads are plain OS threads. Nothing is assumed of the peer (answers may never come), of
the user (nobody has to call, pause or resume). `WorkerPools!Fairness`: pool threads, socket
threads, a drain and a shutdown that have begun keep running, and handlers return. An idle
timeout need not happen. `StubSession!Fairness`: the same, and deadlines pass; a thread without
one waits until it is answered or released. `StateFullClient`: the event loop runs what is due
(timers fire, user callbacks return, an attempt gets a socket, is vetoed or gets none, and a socket
that is connecting reports one way or the other). Which way is not assumed.

### Where the code and its documentation part

Each of these runs must end in a violation; `PROJECT.json` quotes the line it refutes.

| run | what happens |
|---|---|
| `bad_late_answer` (`LateAnswerIgnored`) | the pause completes a synchronous call, an answer arrives before its thread runs, the caller sees a success |
| `bad_vetoed_queue` (`VetoTerminatesRequests`) | `onBeforeConnect` answers false, and the requests queued behind that attempt are neither rejected then nor ever served |
| `bad_closed_session` (`ClosedSessionRejects`) | an invoke is queued in the pool while its session is closed, a thread pops it after the resume, and its handler is called |

### Met while modelling, not kept as runs

The properties are stated with these in mind: an exception in a property's statement is one of
them.

Outbound. A call that read the open gate before a pause is added after it and waits on the
paused session. While `SendInvokeAsync` fills in its operation, a pause can claim it:
between lines 2278 and 2280 there is no context yet and the callback is lost, although
`SnaccROSEInterfaces.h` 143 promises it exactly once for each accepted invoke; before line 2281 there
is no start time and the telemetry record is lost. `CompletesOnce` names these two windows by where
the registering thread was (`fin.at`) and requires callback and record everywhere else. Claimed
before line 2288, by a pause or, for a deadline that has passed already, by the watchdog, an operation
leaves a count that nobody gives back: the watchdog is never told to stop, and the destructor's join
does not return. `DestructorReturns` is about the behaviours in which this did not happen to a call
with a deadline. A request to stop the watchdog and a registration can cross: the call
finds the thread still `running`, on its way out or with the request not yet seen, and does not
withdraw the request; or it counts its deadline after the finishing thread has read 0 and before
that sets the flag. The thread then spins or ends and times nothing out. `DeadlineCallsBack` is
about the behaviours in which the two never cross (`StopCrosses`). A synchronous call's telemetry
record can contradict its returned code when an answer arrives between lines 2037 and 2052; a
synchronous fire-and-forget call returns the error of an answer that came before `Send` returned
(line 2048); the watchdog sleeps to the deadline of its last scan although an earlier one was added
(line 2204).

Pools and pause. `EnsureWorker` starts no thread while a woken one is still counted idle (line
183); without `SerialShutdown` a destroyed stub can be called back; a handler on the socket thread
may start after the pause has returned. A handler that invokes without a deadline, or that pauses
its own stub, keeps `PauseRoseProcessing` waiting for ever.

Exchange. `DecodeInvoke` ignores that `JDec` returned false. A foreign exception on a worker
leaves neither a reply nor a record. A call of an event operation is recorded as a result and
never answered. The branch that would record an inbound reject (lines 1713-1718) is not
reached. A reject for `ROSE_TE_SHUTDOWN` or a decode failure arrives as an unknown operation;
`STARTSSLREQUIRED` has no case; an invalid session arrives as unknown; a response that is too
big as an encoding failure of the caller.

TypeScript client. A veto of `onBeforeConnect`, and an attempt that gets no socket because the
target is no URL or the mode has none, leave the attempt's flag set for ever. A REST invoke without
a timer whose response does not decode, or is a reject without an invoke id, stays pending until a
pause. `disconnect()` does not cancel an attempt that is under way, and one inside
`onClientDisconnected` is undone by the reconnect timer. A drop during the `onClientConnected` callbacks is not
followed by a reconnect. Pending invokes are not rejected when the connection closes; their
timers end them. A queued message is sent although its call was paused away or timed out.
The node client writes the number of UTF-16 units (`TSASN1NodeClient.ts` 263) into the header of a
text it sends in UTF-8, where the reader (367-368) counts octets: with letters outside ASCII the
frame is cut short. The octets of an unfinished frame survive a reconnect; a malformed JSON length ends the loop
where the comment speaks of resynchronisation; an unsupported BER length throws and loses the
frames already cut; a four octet length with its top bit set becomes negative.

Codecs. The C library reads a negative INTEGER of fewer than four octets as a positive one: the sign
bit is not extended (`c-lib/src/asn-int.c` 185-186, theorem `CReadsBackExactly`). The bound for four length octets is 16777126 where 2^24 is meant, so lengths just below
2^24 are written with a leading zero octet; on LP64 the test `(long)dataCpy < 0` never holds;
`storeDERInteger` drops a single signed octet; the overflow check of the C tag reader cannot
fire; `BDecEoc` of the C++ library reads one octet in a branch that counts two.

SEQUENCE code. The first optional element of a generated class accepts a second tag, its
universal one: `{a [0] UTF8String OPTIONAL, b UTF8String, ...}` passes the compiler's check and,
with `a` absent, `b` is read as `a`; the element of an older version may swallow an untagged
optional of a newer one. A SEQUENCE that is only `...` reads nothing and keeps nothing. A
zero-length SEQUENCE is accepted without its mandatory members; a first element of untagged ANY
reads its tag octet as a length; `AsnAny` computes the header of a non-minimal length wrongly. A
DEFAULT that was not written is read back as an unset pointer. JSON throws on a mandatory
addition that is missing where BER accepts it. A second decode does not clear `extension`.
`ElementsReadBack` leaves out the lists in which tags are ambiguous in this way
(`Unambiguous`, `Usable`); dropping either condition gives TLC the counterexamples above.

Session policy. A check that overlaps with `ClearRemoteModuleCapabilities` can find the flag still set
and the map already empty, and blocks an invoke that is allowed before and after.

Compiler. A chain of type references that refers only to itself is never resolved; a CHOICE all of
whose alternatives are recursive gets no warning; the comment at `snacc.c` 1045 describes an
order the code no longer has.

## 4. Proofs

### WorkerPoolsProofs

For any items, stubs, finite set of thread names, limits and number of configurations
(`PoolAssumption`, `WorkersAssumption`):

| theorem | states |
|---|---|
| `TypeCorrect` | `Spec => []TypeOK`, no counter goes below zero |
| `CountersAreExact` | `Spec => []CountersExact` |
| `LimitsAreKept` | `Spec => []LimitsHold`, queue depth and number of threads |
| `PauseHasDrained` | `Spec => []PauseDrains` |

None is inductive alone. The inductive invariant is

    IInv == TypeOK /\ Shape /\ GateShut /\ FiniteQueues /\ CountersExact
              /\ DepthBound /\ ThreadBound /\ PauseDrains

`Shape` ties a thread's place to its pool and its item, and the places of the socket threads
and the owner to the pool they hold; `GateShut` says that a stub whose pause has begun has a
closed gate; `FiniteQueues` makes cardinalities meaningful. The counters go below zero unless
they are exact, so types need `CountersExact`; `DepthBound` and `ThreadBound` bound what the counters
count, so they need it too; `PauseDrains` needs both the exact in-flight count (zero in flight
means nobody inside, lemma `NobodyInside`) and the closed gate (nobody enters later).

The argument about counters is made once: in every action at most one thread changes what it is
counted for, the rest are at most woken, which no counter sees (`Moves`, lemma `CountersMove`). Each action's
lemma only has to show which counters that one thread moves (`WorkerMoves`, `CountersStep`).
Frame lemmas (`ThreadSteps`, `QueueSteps`, `OwnerSteps`, `GateSteps`) list the actions that touch a group of variables, so
each part of the invariant is proved against the actions that can disturb it.

### InboundContractProofs

On top of `IInv`, for the same constants:

| theorem | states |
|---|---|
| `WorkIsNotStranded` | `Spec => []WorkNotStranded` |
| `FloorThreadStays` | `Spec => []FloorStays` |
| `RetiredPoolIsEmpty` | `Spec => []RetiredPoolEmpty` |
| `DeadStubIsUntouched` | `SerialShutdown => (Spec => []DeadStubUntouched)` |
| `ContractIsKept` | `Spec => KeepsContract`: `WorkerPools` implements `InboundContract` |

Three invariants, each on top of the one before.

`LifeInv` is about a pool. A generation that was installed and is neither current nor with the
owner is stopped and has no thread; a stopped one has no item; the owner's place says which pool
it has and what it still holds of it (`OwnerAt`, `Life`). `WorkNotStranded` alone is not inductive:
a thread that retires after a fault is replaced only when nobody is counted idle, and a thread
that is counted idle may be asleep. `Covered` closes the gap: *while some thread of the pool sleeps, there
are at least as many alert threads as queued items*. Every push into a pool with a sleeper wakes
one, a pop takes one item and one alert thread, and nobody goes to sleep while there is work. So
when a thread retires with work queued and an idle one counted, that one is alert or another is.

`PlaceInv` is about an item: it is with the socket thread of its own stub, in one queue, with one
pool thread or with the owner, never at two of them; while it is at one it has arrived and
has no end. Four actions move an item (`Receive`, `Enqueue`, `WorkerPop`, `JoinStop`); an action
that records an end (`EndingSteps`) also lets go of the item (`ClosedIsNowhere`).

`EndInv` is about a stub that is being destroyed: its socket thread has left, then its items are
in no queue, then nobody is inside. `RejectQueued` looks only into the pools of the registry, so
the middle step needs that no pool is in the owner's hands at that moment, which is what
`SerialShutdown` says (`Serial`) and what the hypothesis of the theorem is for: without it
TLC finds the callback into the dead stub.

The refinement maps each action to one of the contract's. An action that records an end is a
`Refuse` or a `Return` (`EndingRefines`); `WorkerRun` and `InlineRun` are an `Admit`, `WorkerStart` and
`InlineStart` a `Start` (`ThreadRefines`, `ReceiverRefines`); `Receive` is an `Arrive`; pause and destroy
are a `Close`, the end of their wait, `AwaitInflight`, is a `Closed`, resume a `Reopen`
(`SwitchRefines`), the rest is nothing (`OpenRefines`). That a handler runs once is where `PlaceInv`
is needed: nobody else can hold the item whose handler is started. That a session is closed only
behind its pools, and that no handler starts on a pool thread then, is where `PauseDrains` and the
exact in-flight count are. TLC checks the three invariants on the instances of the pool runs.

### OutboundInvokeProofs

For any calls, requests, timeouts, number of pauses and answers (`CallsAssumption`, `NamesAssumption`):

| theorem | states |
|---|---|
| `TypeCorrect` | `Spec => []TypeOK` |
| `NothingIsLeft` | `Spec => []ReturnLeavesNothing` |
| `DestroyedIsQuiet` | `Spec => []QuietAfterDestroy` |
| `CompletionIsSingle` | `~Reuse => (Spec => []CompletesOnce)` |
| `ResultIsExplained` | `~Reuse => (Spec => []ResultExplained)` |
| `CallContractIsKept` | `~Reuse => (Spec => KeepsCallContract)`, where `KeepsCallContract` is `OutboundContract!Spec` |

The first layer, `OInv`, follows each operation (`PerCall`): which function runs through which
labels (`Stage`), that it is in the map from `AddPendingOperation` until exactly one thread claims
it and in which state its fields are then (`Owned`), that what `SendInvokeAsync` writes can be
missing for good only when the operation was claimed before that write (`Written`), that a call took
it out before it returned (`Left`), and how much was reported so far (`Reported`); and the threads
(`Threads`): a `FinishAsyncInvoke` that has not returned has its thread at the place where it was
called (`Inside`), and the destructor takes the asynchronous operations before it ends the watchdog
(`Dying`). `Written` is what makes `CompletesOnce` provable: outside the two windows the finisher
finds the context and the start time. The second layer, `Reasons`, follows what a caller is told back
to what happened: with what an asynchronous operation was claimed and what the finisher will say of
it (`Settled`, `Promised`, `Told`, `AsyncReason`), and what the fields a synchronous call reads when
it wakes rest on (`SyncReason`).

The hypothesis `~Reuse` is not for convenience. With `Reuse`, `SendInvokeAsync` may read the
id of another call from memory it no longer owns and finish that call with its own result; what
the last three theorems state is then false and TLC shows it. The first three hold with and without.

`OutboundContract` is what an application can rely on, without threads, map or watchdog: calls are
accepted or refused, time is up for some of them, the peer answers, the session closes and
reopens, and a call that asked for a result is told one code that is justified *at that
moment*. `ResultExplained` says that each code has a reason in every state; the contract adds that
the code comes once, is not exchanged for another one, and that a blocked operation
never reaches the wire. The mapping is: `begun` are the calls past `idle`, `told` is the callback's
argument or what `SendInvoke` returned, `peer` is `wire`, `open` is the gate, `closed` that there was
a pause or a destructor, `due` the calls whose ticks are used up. The steps need a third layer,
`Clocks`: a call past the gate and an operation in asynchronous use are not blocked, and ticks run
only for a call with a deadline. `Send` is then a `Transmit` or nothing, `RemovePendingOperation` and
`FinishCallback` are a `Tell` (or nothing, when there is no callback), `Tick` is an `Expire`, pause
and destructor are a `Close`; every other step of a call, the watchdog and the pausing thread is one
the application does not notice (`Unnoticed`).

### InvokeExchangeProofs

For any of the codes that handlers reject with (`ExchangeAssumption`): `TypeCorrect`, `SuccessIsAlwaysResult`,
`RetryIsAlwaysSafe`, `SilenceIsExplained`, `RecordIsTruthful`, each `Spec => []` of the property
of the run. The inductive invariant says what can have happened by the time the request is
at a place (`OnItsWay`: nothing is out before the end, nothing was touched before the handler,
what the dispatcher or the handler left behind), what an answer on its way rests on
(`AnswerRestsOn`), and that the caller learns nothing before the callee is done.

### StateFullClientProofs

For any requests, number of attempts and setting of `autoReconnect` (`ClientAssumption`): `TypeCorrect`,
`NobodyIsForgotten`, `FlightIsSingle`, `DisconnectStaysFinal`. `ConnInv` says that one attempt at most holds the
flag, one that was vetoed or got no socket included (`Holds`, `OneAttempt`), that there is no
connection while an attempt has no socket (`AttemptOwnsSocket`), and that a link which is up belongs
to the connection the client holds (`LinkIsHeld`); `SingleFlight` needs the second because
an attempt that succeeds puts its socket where the old one would be. `CallInv` says who owes each
request its answer (`Owed`): the pending invoke, the queue of `connect()`, or nobody because it
was settled once; an invoke over `fetch` is pending while its response is out, and stays so when the
response completed nothing. `NobodyIsForgotten` names that request instead of leaving it out;
`DisconnectStaysFinal` is about a `disconnect()` outside `onClientDisconnected`.

### StubSessionProofs

For any threads, handlers and id limit above one (`SessionAssumption`): `TypeCorrect`,
`OwnOperationHolds` (`Spec => []OwnOperation`) and `OwnAnswerHolds` (`Spec => []OwnAnswer`).
The inductive invariant says, as long as the ids have not come round on a call or an answer
under way: every call and every answer sits a known number of places before the counter, counted
round the ids (`Slot`); callers have different call numbers; what the map holds is held by a
caller with that id; and a holder's operation is its own, in the map, unanswered or answered by
its own answer. The core is `SameSlot`: two of them that are less than one round old and
have one id are one call. Arithmetic modulo the limit never appears; a slot is one of two linear
equations.

### SessionPolicyProofs

For any modules, operations, names, owners and offers: `TypeCorrect`, `TablesAlwaysAgree`
(`Spec => []TablesAgree`) and `VerdictIsJustified` (`Spec => []VerdictJustified`). The invariant has
two parts. `TablesInv` adds `StoredByOwner`, that a module stores only ids it may own: without it,
clearing one module could take the id of another from the flat set. Each operation of the store is a
lemma. `CheckInv` follows a check through its reads: the verdict it would reach if nothing changed
any more (`Pending`) is among the justified ones, and until an overlapping call has ended, what the
check has read still holds (`Fresh`); both are stated for operations of one module (`OneOwner`).

### CodecProofs

Lengths and integers are proved for every value, where TLC tries the ones around the bounds.
`LengthsPromised` is `LengthsReadBack` for every length up to 2^31 - 1. It rests on
`EveryLengthReads` (all three readers take the length and exactly its octets, whatever follows,
and the encoder uses the space `BytesInLen` reserves), `EveryPrefixWaits` (no beginning of an
encoding is taken for a length) and `EncodersAgreeExactly`. `IntegersPromised` is
`IntegersReadBack` for every value of four octets, signed and unsigned. The argument is about one
number: how many octets of a word are left when the leading ones that only repeat the sign are
dropped (`Stripped`); `ShortenIs` says that the octets which `storeDERInteger` keeps are these,
and `ContentFacts` that the C encoder writes the same. `CReadsBackExactly` delimits what the missing sign
extension of the C library's decoder does: it reads back exactly the values that are not negative
or below -8388608.

`FramesAreMessages` is `TcpSpec => []FramingTransparent` and `CleanStreamHolds` is
`TcpSpec => []CleanStream`, for any number of messages, any cuts and any number of connections.
Their hypothesis is that each message is `WellFormed`: a JSON text of at most 9999999 octets whose
header counts its octets, or a BER message with a ROSE tag and fewer than 2^31 octets of contents.
The messages of the run are (`FramesFindable`, which TLC evaluates); a JSON text of the node client
with letters outside ASCII is not (section 3).

`FramingTransparent` is not inductive: it is about the moments between two reads. The invariant
`TcpInv`, which TLC checked on the instance of `algorithms`, says that the stream is the messages
one after the other (`Placed`), that the frames handed on and the frames of the current call are
together the first messages (`Handed`), that `pendingSocketData` is what was received after them
(`Unread`), and that outside the loop the next message is not complete (`Settled`). The step that
needs more than bookkeeping is a turn of the loop (`NextTurn`): on octets that agree with a message
as far as both go (`SameSoFar`), it takes the message when all of it is there and waits when it is
not (`WholeMessage`, `PartOfMessage`), for a JSON text because seven digits read from the first give
the number back (`SevenDigitsFacts`, `ParseIntOfDigits`), for BER because of the theorems about
lengths.

### Only model-checked

- Liveness (`WaitersReleased`, `DeadlineCallsBack`, `DestructorReturns`, `InvokesEnd`,
  `OwnersReturn`, `PauseEnds`, `RequestsEnd`, `Reconnects`), which needs fairness and ENABLED and is
  out of the prover's reach.
- `TypesOrdered` and `ClassesDefinedBeforeUse`: `TypeOrder` is written with recursive operators.
- `ElementsReadBack`: a round trip over a list of elements of any length needs induction over data.
- The refinement and the invariants above say nothing about the assumptions `SerialShutdown` and
  `Reuse` where they are hypotheses; section 3 says what happens without them.

## 5. Plan

The plan is carried out. Every module that models a component keeping state has its safety
properties proved, and the two with a contract refine it; what stays with TLC is listed above.

## 6. Not modelled

- The larger part of the repository by lines cannot be modelled faithfully and shortly: the
  generated parser and lexer (`parse-asn1.c`, `lex-asn1.c`), `win_flex_bison` and jsoncpp, the
  text the back ends print (C++, C, TypeScript, Swift, Delphi, Java and others print one
  statement of text per statement of code), printing and measuring (`print.c`, telemetry), and
  the per-type boilerplate of generated classes. The map therefore covers a small share of all
  lines, and most of the lines that decide something at run time in `SnaccROSEBase.cpp`,
  `SnaccWorkerPools.cpp`, the session store, the operation lookup and the TypeScript client.
- Of the codecs: strings, REAL, BIT STRING, OID, PER, indefinite lengths and tags of several
  octets; SET, CHOICE and lists of the generated code; the C back end's classes.
- Of the compiler: parsing, linking of imports, value and constraint checks, normalisation.
- Of the runtime: module versions, telemetry sinks, the map from operation to pool and the
  validation of a pool's configuration, `OnBinaryDataBlockResult`.
- The throughput of the pools, and time beyond the order of deadlines.
