------------------------ MODULE StubSessionProofs ------------------------
(***************************************************************************)
(* Proofs about StubSession, for every set of threads, every id limit and  *)
(* every bound: types, and that a caller waits on its own operation and is *)
(* given its own answer as long as the ids do not come round on a call or  *)
(* an answer that is under way.                                            *)
(*                                                                         *)
(* The argument.  A call of number n has the id k that lies calls - n      *)
(* places before the counter, counted round the ids (Slot).  Two calls, or *)
(* a call and an answer, that are both less than one Period old and have   *)
(* the same id therefore have the same number (SameSlot).                  *)
(***************************************************************************)
EXTENDS StubSession, TLAPS

\* The id k of call n, counted back from the counter; the call is less than one round old.
Slot(n, k) ==
    /\ n <= calls /\ calls < n + Period
    /\ \/ k + calls = invokeCounter + n
       \/ k + calls = invokeCounter + Period + n

\* What holds as long as the ids did not come round.
CallSlots == \A t \in Active : Slot(serial[t], id[t])
AnswerSlots == \A a \in answers : Slot(a[1], a[2])
OneCallEach == \A s, t \in Active : serial[s] = serial[t] => s = t
MapHeld == \A k \in Ids : pending[k] # None => pending[k] \in Holding /\ id[pending[k]] = k
HolderOwns == \A t \in Holding :
    op[t] = t /\ pending[id[t]] = t /\ answeredBy[t] \in {0, serial[t]}

Inv == ~wrapped => CallSlots /\ AnswerSlots /\ OneCallEach /\ MapHeld /\ HolderOwns

-----------------------------------------------------------------------------
\* NextInvokeID stays within the ids, whatever the counter was.
LEMMA NextIdInRange == ASSUME NEW n \in 0..Period PROVE NextInvokeID(n) \in Ids
  BY SessionAssumption DEF NextInvokeID, Ids, Period

\* The types hold initially and every step of the stub keeps them.
LEMMA TypeStep == TypeOK /\ [Next]_vars => TypeOK'
<1> SUFFICES ASSUME TypeOK, [Next]_vars PROVE TypeOK'
  OBVIOUS
<1> USE SessionAssumption
<1>1. ASSUME NEW t \in Threads, NoteInflight(t) PROVE TypeOK'
  BY <1>1 DEF TypeOK, NoteInflight, idVars, opVars, counts, InCall
<1>2. ASSUME NEW t \in Threads, RunPooledInbound(t) PROVE TypeOK'
  BY <1>2 DEF TypeOK, RunPooledInbound, idVars, opVars, counts, InCall
<1>3. ASSUME NEW t \in Threads, HandlerReturns(t) PROVE TypeOK'
  BY <1>3 DEF TypeOK, HandlerReturns, idVars, opVars, counts, InCall
<1>4. ASSUME NEW t \in Threads, GetNextInvokeID(t) PROVE TypeOK'
  <2>1. NextInvokeID(invokeCounter) \in Ids
    BY NextIdInRange DEF TypeOK
  <2>2. invokeCounter' \in 0..Period /\ id' \in [Threads -> Ids]
    BY <1>4, <2>1 DEF TypeOK, GetNextInvokeID, Ids, Period
  <2>3. wrapped' \in BOOLEAN
    BY <1>4 DEF GetNextInvokeID
  <2> QED
    BY <1>4, <2>2, <2>3 DEF TypeOK, GetNextInvokeID, opVars, counts, InCall
<1>5. ASSUME NEW t \in Threads, PassGate(t) PROVE TypeOK'
  BY <1>5 DEF TypeOK, PassGate, AfterCall, idVars, opVars, counts, InCall
<1>6. ASSUME NEW t \in Threads, AddPendingOperation(t) PROVE TypeOK'
  <2>1. pending' \in [Ids -> Threads \cup {None}] /\ op' \in [Threads -> Threads]
    BY <1>6 DEF TypeOK, AddPendingOperation
  <2>2. signaled' \subseteq Threads /\ answeredBy' \in [Threads -> Nat]
    BY <1>6 DEF TypeOK, AddPendingOperation
  <2>3. answers' \subseteq (Nat \X Ids)
    BY <1>6 DEF TypeOK, AddPendingOperation
  <2> QED
    BY <1>6, <2>1, <2>2, <2>3 DEF TypeOK, AddPendingOperation, idVars, counts, InCall
<1>7. ASSUME NEW a \in answers, CompletePendingOperation(a) PROVE TypeOK'
  <2>1. a[1] \in Nat /\ pending[a[2]] \in Threads \cup {None}
    BY DEF TypeOK
  <2>2. answers' \subseteq (Nat \X Ids)
    BY <1>7 DEF TypeOK, CompletePendingOperation
  <2>3. answeredBy' \in [Threads -> Nat] /\ signaled' \subseteq Threads
    BY <1>7, <2>1 DEF TypeOK, CompletePendingOperation
  <2> QED
    BY <1>7, <2>2, <2>3 DEF TypeOK, CompletePendingOperation, idVars, counts
<1>8. ASSUME NEW a \in answers, AnswerLost(a) PROVE TypeOK'
  BY <1>8 DEF TypeOK, AnswerLost, idVars, counts
<1>9. ASSUME NEW t \in Threads, WaitCompleted(t) PROVE TypeOK'
  BY <1>9 DEF TypeOK, WaitCompleted, idVars, counts, InCall
<1>10. ASSUME NEW t \in Threads, WaitTimedOut(t) PROVE TypeOK'
  BY <1>10 DEF TypeOK, WaitTimedOut, idVars, opVars, counts, InCall
<1>11. ASSUME NEW t \in Threads, RemovePendingOperation(t) PROVE TypeOK'
  BY <1>11 DEF TypeOK, RemovePendingOperation, AfterCall, idVars, counts, InCall
<1>12. CASE ShutGate
  <2>1. processingAllowed' \in BOOLEAN
    BY <1>12, Zenon DEF ShutGate
  <2> QED
    BY <1>12, <2>1 DEF TypeOK, ShutGate, idVars, opVars
<1>13. CASE RejectQueuedAndWait
  BY <1>13 DEF TypeOK, RejectQueuedAndWait, idVars, opVars, counts
<1>14. CASE CompleteAllPendingOperations
  BY <1>14 DEF TypeOK, CompleteAllPendingOperations, idVars, counts
<1>15. CASE ResumeRoseProcessing
  BY <1>15 DEF TypeOK, ResumeRoseProcessing, idVars, opVars, counts
<1>16. CASE UNCHANGED vars
  BY <1>16 DEF TypeOK, vars, idVars, opVars, counts
<1> QED
  BY <1>1, <1>2, <1>3, <1>4, <1>5, <1>6, <1>7, <1>8, <1>9, <1>10, <1>11, <1>12, <1>13,
     <1>14, <1>15, <1>16 DEF Next, OfThread, OfPeer, OfPause

\* The variables of the stub keep their types; in particular the counter never leaves
\* 0..IdLimit-1 and every id it hands out is in 1..IdLimit-1.
THEOREM TypeCorrect == Spec => []TypeOK
<1>1. Init => TypeOK
  <2>1. Init => processingAllowed \in BOOLEAN /\ wrapped \in BOOLEAN
    BY Zenon DEF Init
  <2> QED
    BY <2>1, SessionAssumption DEF Init, TypeOK, Ids, Period, InCall
<1> QED
  BY <1>1, TypeStep, PTL DEF Spec

-----------------------------------------------------------------------------
\* Less than one round apart, the same id means the same call.
LEMMA SameSlot ==
    ASSUME TypeOK, NEW m \in Nat, NEW n \in Nat, NEW k \in Ids, Slot(m, k), Slot(n, k)
    PROVE  m = n
  BY SessionAssumption DEF TypeOK, Slot, Ids, Period

\* Taking an id moves every slot that is not too old one place back.
LEMMA SlotAdvances ==
    ASSUME TypeOK, NEW t \in Threads, GetNextInvokeID(t),
           NEW n \in Nat, NEW k \in Ids, Slot(n, k), ~(n + Period <= calls + 1)
    PROVE  Slot(n, k)'
<1>1. invokeCounter' = IF invokeCounter + 1 >= IdLimit THEN 1 ELSE invokeCounter + 1
  BY DEF GetNextInvokeID, NextInvokeID
<1>2. calls' = calls + 1 /\ calls \in Nat /\ invokeCounter \in 0..Period
  BY DEF GetNextInvokeID, TypeOK
<1> QED
  BY <1>1, <1>2, SessionAssumption DEF Slot, Ids, Period

\* The call that takes the id is in its own slot.
LEMMA SlotTaken ==
    ASSUME TypeOK, NEW t \in Threads, GetNextInvokeID(t)
    PROVE  Slot(serial[t], id[t])'
<1>1. serial'[t] = calls + 1 /\ id'[t] = invokeCounter' /\ calls' = calls + 1
  BY DEF GetNextInvokeID, TypeOK
<1>2. invokeCounter' \in Nat /\ calls \in Nat /\ Period \in Nat /\ Period > 0
  BY SessionAssumption DEF GetNextInvokeID, NextInvokeID, TypeOK, Period
<1> QED
  BY <1>1, <1>2 DEF Slot

\* A step that takes no id and holds nothing new keeps the slots and the order of calls.
LEMMA SlotsKept ==
    ASSUME UNCHANGED <<invokeCounter, id, calls, serial>>, Active' \subseteq Active,
           answers' \subseteq answers, CallSlots, AnswerSlots, OneCallEach
    PROVE  CallSlots' /\ AnswerSlots' /\ OneCallEach'
  BY DEF CallSlots, AnswerSlots, OneCallEach, Slot

-----------------------------------------------------------------------------
\* Inv is inductive.
LEMMA InvStep == TypeOK /\ Inv /\ [Next]_vars => Inv'
<1> SUFFICES ASSUME TypeOK, TypeOK', Inv, [Next]_vars, ~wrapped' PROVE Inv'
  BY TypeStep DEF Inv
<1> USE SessionAssumption
<1>a. ~wrapped
  <2>1. UNCHANGED idVars \/ \E t \in Threads : GetNextInvokeID(t)
    BY DEF Next, OfThread, OfPeer, OfPause, vars, NoteInflight, RunPooledInbound,
       HandlerReturns, PassGate, AddPendingOperation, CompletePendingOperation,
       AnswerLost, WaitCompleted, WaitTimedOut, RemovePendingOperation, ShutGate,
       RejectQueuedAndWait, CompleteAllPendingOperations, ResumeRoseProcessing
  <2>2. CASE UNCHANGED idVars
    BY <2>2, Zenon DEF idVars
  <2>3. ASSUME NEW t \in Threads, GetNextInvokeID(t) PROVE ~wrapped
    BY <2>3, Zenon DEF GetNextInvokeID
  <2> QED
    BY <2>1, <2>2, <2>3
<1>b. CallSlots /\ AnswerSlots /\ OneCallEach /\ MapHeld /\ HolderOwns
  BY <1>a DEF Inv
\* Steps that hold nothing new and change no operation.
<1>q. ASSUME UNCHANGED idVars, UNCHANGED <<op, pending, answeredBy>>, answers' \subseteq answers,
             Active' \subseteq Active, Holding' = Holding
      PROVE  Inv'
  <2>1. CallSlots' /\ AnswerSlots' /\ OneCallEach'
    BY <1>q, <1>b, SlotsKept DEF idVars
  <2>2. MapHeld' /\ HolderOwns'
    BY <1>q, <1>b DEF MapHeld, HolderOwns, idVars
  <2> QED
    BY <2>1, <2>2 DEF Inv
<1>1. ASSUME NEW t \in Threads,
             NoteInflight(t) \/ RunPooledInbound(t) \/ HandlerReturns(t) \/ PassGate(t)
      PROVE  Inv'
  <2>1. Active' \subseteq Active /\ Holding' = Holding
    BY <1>1 DEF Active, Holding, InCall, NoteInflight, RunPooledInbound, HandlerReturns, PassGate,
       AfterCall, TypeOK
  <2> QED
    BY <1>1, <1>q, <2>1 DEF NoteInflight, RunPooledInbound, HandlerReturns, PassGate, opVars
<1>2. ASSUME NEW t \in Threads, GetNextInvokeID(t) PROVE Inv'
  <2>1. /\ \A s \in Active : ~(serial[s] + Period <= calls + 1)
        /\ \A a \in answers : ~(a[1] + Period <= calls + 1)
    BY <1>2 DEF GetNextInvokeID
  <2>2. Active' = Active \cup {t} /\ Holding' = Holding /\ t \notin Active
    BY <1>2 DEF Active, Holding, InCall, GetNextInvokeID, TypeOK
  <2>3. \A s \in Threads : s # t => serial'[s] = serial[s] /\ id'[s] = id[s]
    BY <1>2 DEF GetNextInvokeID, TypeOK
  <2>4. CallSlots'
    <3>1. ASSUME NEW s \in Active PROVE Slot(serial[s], id[s])'
      <4>1. s \in Threads /\ s # t /\ serial[s] \in Nat /\ id[s] \in Ids /\ Slot(serial[s], id[s])
        BY <2>2, <1>b DEF Active, CallSlots, TypeOK
      <4>2. ASSUME NEW n \in Nat, NEW k \in Ids, n = serial[s], k = id[s]
            PROVE  Slot(n, k)'
        BY <4>1, <4>2, <1>2, <2>1, SlotAdvances
      <4> QED
        BY <4>1, <4>2, <2>3 DEF Slot
    <3> QED
      BY <3>1, <2>2, <1>2, SlotTaken DEF CallSlots
  <2>5. AnswerSlots'
    <3>1. answers' = answers
      BY <1>2 DEF GetNextInvokeID, opVars
    <3>2. ASSUME NEW a \in answers PROVE Slot(a[1], a[2])'
      <4>1. a[1] \in Nat /\ a[2] \in Ids /\ Slot(a[1], a[2])
        BY <1>b DEF AnswerSlots, TypeOK
      <4> QED
        BY <4>1, <1>2, <2>1, SlotAdvances DEF Slot
    <3> QED
      BY <3>1, <3>2 DEF AnswerSlots
  <2>6. OneCallEach'
    <3>1. \A s \in Active : serial[s] \in Nat /\ serial[s] <= calls
      BY <1>b DEF CallSlots, Slot, Active, TypeOK
    <3>2. serial'[t] = calls + 1 /\ calls \in Nat
      BY <1>2 DEF GetNextInvokeID, TypeOK
    <3>3. \A s \in Active : serial'[s] # serial'[t] /\ serial'[s] = serial[s]
      BY <3>1, <3>2, <2>2, <2>3 DEF Active
    <3> QED
      BY <3>3, <2>2, <1>b DEF OneCallEach
  <2>7. UNCHANGED <<op, pending, answeredBy>> /\ (\A s \in Holding : s # t /\ s \in Threads)
    BY <1>2, <2>2 DEF GetNextInvokeID, opVars, Holding, Active, InCall
  <2>8. MapHeld' /\ HolderOwns'
    BY <2>2, <2>3, <2>7, <1>b DEF MapHeld, HolderOwns
  <2> QED
    BY <2>4, <2>5, <2>6, <2>8 DEF Inv
<1>3. ASSUME NEW t \in Threads, AddPendingOperation(t) PROVE Inv'
  <2>1. Active' = Active /\ Holding' = Holding \cup {t} /\ t \in Active /\ t \notin Holding
    BY <1>3 DEF Active, Holding, InCall, AddPendingOperation, TypeOK
  <2>2. UNCHANGED <<invokeCounter, id, calls, serial>> /\ id[t] \in Ids /\ serial[t] \in Nat
    BY <1>3 DEF AddPendingOperation, idVars, TypeOK
  <2>3. pending[id[t]] = None
    <3> SUFFICES ASSUME pending[id[t]] # None PROVE FALSE
      OBVIOUS
    <3>1. PICK o \in Holding : o = pending[id[t]] /\ id[o] = id[t]
      BY <2>2, <1>b DEF MapHeld
    <3>2. o \in Active /\ o # t /\ serial[o] \in Nat
      BY <2>1 DEF Active, Holding, InCall, TypeOK
    <3>3. Slot(serial[o], id[t]) /\ Slot(serial[t], id[t])
      BY <3>1, <3>2, <2>1, <1>b DEF CallSlots
    <3>4. serial[o] = serial[t]
      BY <3>2, <3>3, <2>2, SameSlot
    <3> QED
      BY <3>4, <3>2, <2>1, <1>b DEF OneCallEach
  <2>4. /\ pending' = [pending EXCEPT ![id[t]] = t]
        /\ op' = [op EXCEPT ![t] = t]
        /\ answeredBy' = [answeredBy EXCEPT ![t] = 0]
        /\ answers' = answers \cup {<<serial[t], id[t]>>}
    BY <1>3, <2>3 DEF AddPendingOperation
  <2>5. CallSlots' /\ OneCallEach'
    BY <2>1, <2>2, <1>b DEF CallSlots, OneCallEach, Slot
  <2>6. AnswerSlots'
    <3>1. Slot(serial[t], id[t])
      BY <2>1, <1>b DEF CallSlots
    <3>2. \A a \in answers : Slot(a[1], a[2])
      BY <1>b DEF AnswerSlots
    <3> QED
      BY <3>1, <3>2, <2>2, <2>4 DEF AnswerSlots, Slot
  <2>7. MapHeld'
    BY <2>1, <2>2, <2>4, <1>b DEF MapHeld, TypeOK
  <2>8. HolderOwns'
    <3>1. \A s \in Holding : s # t /\ s \in Threads /\ id[s] \in Ids /\ pending[id[s]] = s
      BY <2>1, <1>b DEF HolderOwns, Holding, TypeOK
    <3>2. \A s \in Holding : s # None /\ id[s] # id[t]
      BY <3>1, <2>3 DEF Holding
    <3> QED
      BY <3>1, <3>2, <2>1, <2>2, <2>4, <1>b DEF HolderOwns, TypeOK
  <2> QED
    BY <2>5, <2>6, <2>7, <2>8 DEF Inv
<1>4. ASSUME NEW a \in answers, CompletePendingOperation(a) PROVE Inv'
  <2>1. /\ UNCHANGED <<invokeCounter, id, calls, serial, op, pending, pc>>
        /\ answers' \subseteq answers /\ Active' = Active /\ Holding' = Holding
    BY <1>4 DEF CompletePendingOperation, idVars, Active, Holding
  <2>2. CallSlots' /\ AnswerSlots' /\ OneCallEach'
    BY <2>1, <1>b, SlotsKept
  <2>3. MapHeld'
    BY <2>1, <1>b DEF MapHeld
  <2>4. a[1] \in Nat /\ a[2] \in Ids
    BY DEF TypeOK
  <2>5. CASE pending[a[2]] = None
    <3>1. answeredBy' = answeredBy
      BY <1>4, <2>5 DEF CompletePendingOperation
    <3>2. HolderOwns'
      BY <3>1, <2>1, <1>b DEF HolderOwns
    <3> QED
      BY <2>2, <2>3, <3>2 DEF Inv
  <2>6. CASE pending[a[2]] # None
    <3>1. PICK o \in Holding : o = pending[a[2]] /\ id[o] = a[2]
      BY <2>4, <2>6, <1>b DEF MapHeld
    <3>2. o \in Active /\ o \in Threads /\ serial[o] \in Nat
      BY DEF Active, Holding, InCall, TypeOK
    <3>3. Slot(serial[o], a[2]) /\ Slot(a[1], a[2])
      BY <3>1, <3>2, <1>b DEF CallSlots, AnswerSlots
    <3>4. a[1] = serial[o]
      BY <3>2, <3>3, <2>4, SameSlot
    <3>5. answeredBy' = [answeredBy EXCEPT ![o] = serial[o]]
      BY <1>4, <2>6, <3>1, <3>4 DEF CompletePendingOperation
    <3>6. HolderOwns'
      BY <3>2, <3>5, <2>1, <1>b DEF HolderOwns, TypeOK
    <3> QED
      BY <2>2, <2>3, <3>6 DEF Inv
  <2> QED
    BY <2>5, <2>6
<1>5. ASSUME NEW a \in answers, AnswerLost(a) PROVE Inv'
  BY <1>5, <1>q DEF AnswerLost, Active, Holding
<1>6. ASSUME NEW t \in Threads, WaitCompleted(t) \/ WaitTimedOut(t) PROVE Inv'
  <2>1. Active' \subseteq Active /\ Holding' = Holding
    BY <1>6 DEF Active, Holding, InCall, WaitCompleted, WaitTimedOut, TypeOK
  <2> QED
    BY <1>6, <1>q, <2>1 DEF WaitCompleted, WaitTimedOut, opVars
<1>7. ASSUME NEW t \in Threads, RemovePendingOperation(t) PROVE Inv'
  <2>1. Active' = Active \ {t} /\ Holding' = Holding \ {t} /\ t \in Holding
    BY <1>7 DEF Active, Holding, InCall, RemovePendingOperation, AfterCall, TypeOK
  <2>2. /\ UNCHANGED <<invokeCounter, id, calls, serial, op, answeredBy, answers>>
        /\ pending' = [pending EXCEPT ![id[t]] = None] /\ id[t] \in Ids
    BY <1>7 DEF RemovePendingOperation, idVars, TypeOK
  <2>3. CallSlots' /\ AnswerSlots' /\ OneCallEach'
    BY <2>1, <2>2, <1>b, SlotsKept
  <2>4. pending[id[t]] = t
    BY <2>1, <1>b DEF HolderOwns
  <2>5. MapHeld'
    <3>1. ASSUME NEW k \in Ids, pending'[k] # None
          PROVE  pending'[k] \in Holding' /\ id'[pending'[k]] = k
      <4>1. k # id[t] /\ pending'[k] = pending[k]
        BY <3>1, <2>2 DEF TypeOK
      <4>2. pending[k] \in Holding /\ id[pending[k]] = k
        BY <3>1, <4>1, <1>b DEF MapHeld
      <4> QED
        BY <4>1, <4>2, <2>1, <2>2
    <3> QED
      BY <3>1 DEF MapHeld
  <2>6. HolderOwns'
    <3>1. ASSUME NEW s \in Holding'
          PROVE  op'[s] = s /\ pending'[id'[s]] = s /\ answeredBy'[s] \in {0, serial'[s]}
      <4>1. s \in Holding /\ s # t /\ s \in Threads /\ id[s] \in Ids
        BY <2>1 DEF Holding, TypeOK
      <4>2. pending[id[s]] = s /\ id[s] # id[t]
        BY <4>1, <2>4, <1>b DEF HolderOwns
      <4> QED
        BY <4>1, <4>2, <2>2, <1>b DEF HolderOwns, TypeOK
    <3> QED
      BY <3>1 DEF HolderOwns
  <2> QED
    BY <2>3, <2>5, <2>6 DEF Inv
<1>8. ASSUME ShutGate \/ RejectQueuedAndWait \/ CompleteAllPendingOperations
             \/ ResumeRoseProcessing \/ UNCHANGED vars
      PROVE  Inv'
  BY <1>8, <1>q DEF ShutGate, RejectQueuedAndWait, CompleteAllPendingOperations,
     ResumeRoseProcessing, vars, opVars, Active, Holding
<1> QED
  BY <1>1, <1>2, <1>3, <1>4, <1>5, <1>6, <1>7, <1>8 DEF Next, OfThread, OfPeer, OfPause

\* Both safety properties follow from Inv in every reachable state.
THEOREM InvHolds == Spec => [](TypeOK /\ Inv)
<1>1. Init => Inv
  BY DEF Init, Inv, CallSlots, AnswerSlots, OneCallEach, MapHeld, HolderOwns, Active, Holding, InCall
<1>2. TypeOK /\ Inv /\ [Next]_vars => (TypeOK /\ Inv)'
  BY TypeStep, InvStep
<1> QED
  BY <1>1, <1>2, TypeCorrect, PTL DEF Spec

\* The assertion in AddPendingOperation holds, and a caller waits on its own operation
\* under its own id, for every id limit, unless the ids came round on a call or an
\* answer under way.
THEOREM OwnOperationHolds == Spec => []OwnOperation
<1>1. TypeOK /\ Inv => OwnOperation
  BY DEF Inv, OwnOperation, HolderOwns
<1> QED
  BY <1>1, InvHolds, PTL

\* A caller of SendInvoke is never given the answer to another call, under the same
\* proviso.
THEOREM OwnAnswerHolds == Spec => []OwnAnswer
<1>1. TypeOK /\ Inv => OwnAnswer
  BY DEF Inv, OwnAnswer, HolderOwns
<1> QED
  BY <1>1, InvHolds, PTL
=============================================================================
