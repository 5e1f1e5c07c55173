------------------------ MODULE SessionPolicyProofs ------------------------
(* What a session may send agrees with what it was told, for any interfaces,     *)
(* operations, owners and offers.  TablesAgree is not inductive: that an id of   *)
(* one owner stays in the flat set while its owner stores it needs that no       *)
(* other module stores it (StoredByOwner).  The verdict of a check needs what    *)
(* the check would answer if nothing changed any more (Pending) and that, as     *)
(* long as no call has ended its overlap, all it has read still holds (Fresh).   *)
EXTENDS SessionPolicy, TLAPS

Stores == [by : [Modules -> SUBSET OpIds], flat : SUBSET OpIds]

\* A module stores only ids it may own.
StoredByOwner(s) == \A m \in Modules : s.by[m] \subseteq IdsOf(m)

StoreOK(s) == s \in Stores /\ StoredByOwner(s) /\ FlatAgrees(s)

TablesInv == PolicyTypeOK /\ StoreOK(events) /\ StoreOK(invokes) /\ LookupConsistent

\* What the store and the capabilities answer now.
Stored(id, isEvent) == IF isEvent THEN IsSubscribedEvent(id) ELSE IsSupportedInvoke(id)
Refused(id) == Capabilities.isSet /\ ~InternalIsRemoteOperationSupported(id)

\* The check still reads.
Reads == {"store", "flag", "map"}

\* The verdict the check under way reaches if nothing changes any more.
Pending ==
  \/ check.pc = "store" /\ ~Stored(check.id, check.isEvent)
  \/ check.pc = "store" /\ ~check.isEvent /\ Refused(check.id)
  \/ check.pc = "flag" /\ Refused(check.id)
  \/ check.pc = "map" /\ ~InternalIsRemoteOperationSupported(check.id)
  \/ check.pc \notin Reads /\ check.blocked

\* What the check under way has read still holds.
Fresh ==
  /\ policy = "BlockUnsupportedOperations"
  /\ check.pc \in {"flag", "map"} => ~check.isEvent /\ Stored(check.id, FALSE)
  /\ check.pc = "map" => Capabilities.isSet

\* The check under way is about an operation that at most one module stores.
OneOwner == check.id \in Sends /\ \A m, k \in Owners[check.id] : m = k

\* What is read is what is justified, or a call has ended its overlap, or all is justified.
CheckInv ==
  check.pc # "idle" =>
    /\ sealed /\ check.id \in Sends
    /\ OneOwner => Pending \in check.verdicts
    /\ check.pc \in Reads /\ check.verdicts # BOOLEAN /\ (~check.changed \/ calling # {}) =>
         /\ Fresh /\ calling # {{}}
         /\ Verdicts[check.id][check.isEvent] \subseteq check.verdicts
    /\ check.pc \in Reads /\ check.verdicts # BOOLEAN /\ ~check.changed => calling = {}

IInv == TablesInv /\ CheckInv

-----------------------------------------------------------------------------
(* The operations of the store *)

\* The empty store is consistent.
LEMMA EmptyStoreOK == StoreOK(EmptyStore)
  BY DEF StoreOK, Stores, StoredByOwner, FlatAgrees, EmptyStore

\* ClearModuleOpIds keeps a store consistent.
LEMMA ClearKeeps ==
  ASSUME NEW s, StoreOK(s), NEW m \in Modules
  PROVE  StoreOK(ClearModuleOpIds(s, m))
<1> DEFINE t == ClearModuleOpIds(s, m)
<1>1. t \in Stores
  BY DEF StoreOK, Stores, ClearModuleOpIds
<1>2. \A k \in Modules : t.by[k] = IF k = m THEN {} ELSE s.by[k]
  BY DEF StoreOK, Stores, ClearModuleOpIds
<1>3. t.flat = s.flat \ s.by[m]
  BY DEF ClearModuleOpIds
<1>4. StoredByOwner(t)
  BY <1>2 DEF StoreOK, StoredByOwner
<1>5. ASSUME NEW id \in t.flat PROVE \E k \in Modules : id \in t.by[k]
  <2>1. PICK k \in Modules : id \in s.by[k]
    BY <1>3, <1>5 DEF StoreOK, FlatAgrees
  <2>2. k # m
    BY <2>1, <1>3, <1>5
  <2> QED BY <2>1, <2>2, <1>2
<1>6. ASSUME NEW id \in OpIds, NEW k \in Modules, Owners[id] = {k}, id \in t.by[k]
      PROVE  id \in t.flat
  <2>1. k # m /\ id \in s.by[k]
    BY <1>2, <1>6
  <2>2. id \in s.flat
    BY <2>1, <1>6 DEF StoreOK, FlatAgrees
  <2>3. id \notin s.by[m]
    BY <2>1, <1>6 DEF StoreOK, StoredByOwner, IdsOf
  <2> QED BY <2>2, <2>3, <1>3
<1> QED BY <1>1, <1>4, <1>5, <1>6 DEF StoreOK, FlatAgrees

\* Adding ids of a module's own keeps a store consistent.
LEMMA AddKeeps ==
  ASSUME NEW s, StoreOK(s), NEW m \in Modules, NEW ids \in SUBSET IdsOf(m), NEW t,
         t = [by |-> [s.by EXCEPT ![m] = @ \cup ids], flat |-> s.flat \cup ids]
  PROVE  StoreOK(t)
<1>0. ids \subseteq OpIds
  BY DEF IdsOf
<1>1. t \in Stores
  BY <1>0 DEF StoreOK, Stores
<1>2. \A k \in Modules : t.by[k] = IF k = m THEN s.by[m] \cup ids ELSE s.by[k]
  BY DEF StoreOK, Stores
<1>3. t.flat = s.flat \cup ids
  OBVIOUS
<1>4. StoredByOwner(t)
  BY <1>2 DEF StoreOK, StoredByOwner
<1>5. ASSUME NEW id \in t.flat PROVE \E k \in Modules : id \in t.by[k]
  <2>1. CASE id \in ids BY <2>1, <1>2
  <2>2. CASE id \in s.flat
    <3>1. PICK k \in Modules : id \in s.by[k]
      BY <2>2 DEF StoreOK, FlatAgrees
    <3> QED BY <3>1, <1>2
  <2> QED BY <2>1, <2>2, <1>3, <1>5
<1>6. ASSUME NEW id \in OpIds, NEW k \in Modules, Owners[id] = {k}, id \in t.by[k]
      PROVE  id \in t.flat
  <2>1. CASE id \in s.by[k]
    BY <2>1, <1>3, <1>6 DEF StoreOK, FlatAgrees
  <2>2. CASE id \notin s.by[k]
    BY <2>2, <1>2, <1>3, <1>6
  <2> QED BY <2>1, <2>2
<1> QED BY <1>1, <1>4, <1>5, <1>6 DEF StoreOK, FlatAgrees

\* AddOpId keeps a store consistent.
LEMMA AddOpIdKeeps ==
  ASSUME NEW s, StoreOK(s), NEW m \in Modules, NEW id \in IdsOf(m)
  PROVE  StoreOK(AddOpId(s, m, id))
<1>1. {id} \in SUBSET IdsOf(m)
  OBVIOUS
<1>2. AddOpId(s, m, id) = [by |-> [s.by EXCEPT ![m] = @ \cup {id}], flat |-> s.flat \cup {id}]
  BY DEF AddOpId
<1> QED BY <1>1, <1>2, AddKeeps

\* ReplaceModuleOpIds is a clear and an add.
LEMMA ReplaceKeeps ==
  ASSUME NEW s, StoreOK(s), NEW m \in Modules, NEW ids \in SUBSET IdsOf(m)
  PROVE  StoreOK(ReplaceModuleOpIds(s, m, ids))
<1> DEFINE c == ClearModuleOpIds(s, m)
<1>1. StoreOK(c)
  BY ClearKeeps
<1>2. c.by \in [Modules -> SUBSET OpIds]
  BY <1>1 DEF StoreOK, Stores
<1>3. c.by[m] = {}
  BY DEF ClearModuleOpIds, StoreOK, Stores
<1>4. [c.by EXCEPT ![m] = ids] = [c.by EXCEPT ![m] = @ \cup ids]
  BY <1>3
<1>5. ReplaceModuleOpIds(s, m, ids) = [by |-> [c.by EXCEPT ![m] = @ \cup ids], flat |-> c.flat \cup ids]
  BY <1>4 DEF ReplaceModuleOpIds
<1> HIDE DEF c
<1> QED BY <1>1, <1>5, AddKeeps

-----------------------------------------------------------------------------
(* The check *)

\* Verdicts is a set of truth values.
LEMMA VerdictsAre ==
  \A id \in OpIds, e \in BOOLEAN :
    Verdicts[id][e] = {b \in BOOLEAN : \E r \in {remote} \cup calling : b <=> Forbidden(r, id, e)}
  BY DEF Verdicts, Forbidden

\* The second write takes what the call brought.
LEMMA CallReturns ==
  ASSUME PolicyTypeOK, CapabilitiesCallReturns
  PROVE  calling = {remote'} /\ remote' \in calling /\ calling' = {}
<1>1. PICK c : c \in calling
  BY DEF CapabilitiesCallReturns
<1>2. calling = {c}
  BY <1>1 DEF PolicyTypeOK
<1>3. UNION calling = c
  BY <1>2
<1> QED BY <1>2, <1>3 DEF CapabilitiesCallReturns

\* A check keeps its type.
LEMMA CheckStaysTyped ==
  ASSUME TablesInv, CheckInv, [Next]_vars PROVE check' \in Checks
<1>1. check \in Checks
  BY DEF TablesInv, PolicyTypeOK
<1>2. ASSUME NEW spoils \in BOOLEAN, Changing(spoils) PROVE check' \in Checks
  <2>1. CASE check.pc \in {"idle", "done"}
    BY <2>1, <1>1, <1>2 DEF Changing
  <2>2. CASE check.pc \notin {"idle", "done"}
    <3>1. check.id \in OpIds /\ check.isEvent \in BOOLEAN
      BY <2>2, <1>1, SendsAssumption DEF CheckInv, Checks
    <3>2. Verdicts'[check.id][check.isEvent] \subseteq BOOLEAN
      BY <3>1 DEF Verdicts, Forbidden
    <3> QED BY <2>2, <1>1, <1>2, <3>2 DEF Changing, Checks
  <2> QED BY <2>1, <2>2
<1>3. ASSUME NEW id \in Sends, NEW e \in BOOLEAN, IsOperationBlocked(id, e)
      PROVE  check' \in Checks
  <2>1. id \in OpIds /\ Verdicts[id][e] \subseteq BOOLEAN
    BY SendsAssumption, VerdictsAre
  <2> QED BY <2>1, <1>3 DEF IsOperationBlocked, Checks
<1>4. ASSUME NEW b \in BOOLEAN, Decide(b) PROVE check' \in Checks
  BY <1>1, <1>4 DEF Decide, Checks
<1>5. CASE CheckStore
  BY <1>1, <1>4, <1>5 DEF CheckStore, Checks, IsSubscribedEvent, IsSupportedInvoke
<1>6. CASE CheckCapabilitiesSet
  BY <1>1, <1>4, <1>6 DEF CheckCapabilitiesSet, Checks
<1>7. CASE CheckRemoteOperation
  BY <1>1, <1>4, <1>7 DEF CheckRemoteOperation, InternalIsRemoteOperationSupported
<1>8. CASE CheckReturns
  BY <1>8, NoneAssumption DEF CheckReturns, NoCheck, Checks
<1>9. CASE UNCHANGED check
  BY <1>9, <1>1
<1> QED BY <1>2, <1>3, <1>5, <1>6, <1>7, <1>8, <1>9
        DEF Next, vars, StoreStep, RegisterOperation, ClearRegisteredOperations, Seal,
            SetRemoteModuleCapabilities, ClearRemoteModuleCapabilities,
            CapabilitiesCallReturns, SetOperationBlockPolicy

-----------------------------------------------------------------------------
(* The tables *)

\* It holds at the start: nothing is stored or registered.
LEMMA InitTables == Init => TablesInv
<1> SUFFICES ASSUME Init PROVE TablesInv
  OBVIOUS
<1>1. StoreOK(events) /\ StoreOK(invokes)
  BY EmptyStoreOK DEF Init
<1>2. PolicyTypeOK
  <2>1. NoCheck \in Checks
    BY DEF NoCheck, Checks
  <2>2. /\ remote \in Announced
        /\ calling \subseteq Announced /\ \A a, b \in calling : a = b
    BY DEF Init, Announced
  <2> QED BY <1>1, <2>1, <2>2 DEF Init, PolicyTypeOK, StoreOK, Stores, Policies
<1>3. LookupConsistent
  BY DEF Init, LookupConsistent, LookUpID, LookUpName, LookUpModuleName
<1> QED BY <1>1, <1>2, <1>3 DEF TablesInv

\* Every operation of the store keeps it.
LEMMA StoreStepTables == TablesInv /\ check' \in Checks /\ StoreStep => TablesInv'
<1> SUFFICES ASSUME TablesInv, check' \in Checks, StoreStep PROVE TablesInv'
  OBVIOUS
<1>1. StoreOK(events) /\ StoreOK(invokes)
  BY DEF TablesInv
<1>2. UNCHANGED <<installed, policy, remote, calling, opToId, idToOp, idToModule, sealed>>
  BY DEF StoreStep, lookup
<1>3. StoreOK(events') /\ StoreOK(invokes')
  <2>1. ASSUME NEW m \in Modules, NEW ids \in SUBSET IdsOf(m),
               SetSubscribedEvents(m, ids) \/ SetSupportedInvokes(m, ids)
        PROVE  StoreOK(events') /\ StoreOK(invokes')
    BY <1>1, <2>1, ReplaceKeeps DEF SetSubscribedEvents, SetSupportedInvokes
  <2>2. ASSUME NEW m \in Modules, NEW id \in IdsOf(m),
               AddSubscribedEvent(m, id) \/ AddSupportedInvoke(m, id)
        PROVE  StoreOK(events') /\ StoreOK(invokes')
    BY <1>1, <2>2, AddOpIdKeeps DEF AddSubscribedEvent, AddSupportedInvoke
  <2>3. ASSUME NEW m \in Modules, ClearSubscribedEvents(m) \/ ClearSupportedInvokes(m)
        PROVE  StoreOK(events') /\ StoreOK(invokes')
    BY <1>1, <2>3, ClearKeeps DEF ClearSubscribedEvents, ClearSupportedInvokes
  <2>4. CASE ClearAllSubscriptions
    BY <2>4, EmptyStoreOK DEF ClearAllSubscriptions
  <2> QED BY <2>1, <2>2, <2>3, <2>4 DEF StoreStep
<1>4. PolicyTypeOK'
  BY <1>2, <1>3 DEF TablesInv, PolicyTypeOK, Announced, Checks, StoreOK, Stores
<1>5. LookupConsistent'
  BY <1>2 DEF TablesInv, LookupConsistent, LookUpID, LookUpName, LookUpModuleName
<1>6. StoreOK(events)' /\ StoreOK(invokes)'
  BY <1>3 DEF StoreOK, Stores, StoredByOwner, FlatAgrees, IdsOf
<1> QED BY <1>4, <1>5, <1>6 DEF TablesInv

\* A registration moves a name to its new id: the id was not registered, so no
\* other name leads to it.
LEMMA RegisterTables ==
  ASSUME TablesInv, NEW id \in OpIds, NEW name \in OpNames, NEW m \in Owners[id],
         RegisterOperation(id, name, m)
  PROVE  TablesInv'
<1>1. m \in Modules
  BY OwnersAssumption
<1>2. UNCHANGED <<events, invokes, installed, policy, remote, calling, sealed, check>>
  BY DEF RegisterOperation, store
<1>3. PolicyTypeOK'
  BY <1>1, <1>2 DEF TablesInv, PolicyTypeOK, RegisterOperation
<1>4. StoreOK(events)' /\ StoreOK(invokes)'
  BY <1>2 DEF TablesInv, StoreOK, Stores, StoredByOwner, FlatAgrees, IdsOf
<1>5. ASSUME NEW n \in OpNames, opToId'[n] # None PROVE idToOp'[opToId'[n]] = n
  <2>1. CASE n = name
    BY <2>1 DEF TablesInv, PolicyTypeOK, RegisterOperation
  <2>2. CASE n # name
    <3>1. opToId'[n] = opToId[n]
      BY <2>2 DEF TablesInv, PolicyTypeOK, RegisterOperation
    <3>2. idToOp[opToId[n]] = n /\ opToId[n] \in OpIds
      BY <3>1, <1>5 DEF TablesInv, PolicyTypeOK, LookupConsistent, LookUpID, LookUpName
    <3>3. n # None
      BY NoneAssumption
    <3>4. opToId[n] # id
      BY <3>2, <3>3 DEF RegisterOperation
    <3> QED BY <3>1, <3>2, <3>4 DEF TablesInv, PolicyTypeOK, RegisterOperation
  <2> QED BY <2>1, <2>2
<1>6. ASSUME NEW o \in OpIds PROVE idToOp'[o] # None <=> idToModule'[o] # None
  <2>1. CASE o = id
    BY <2>1, <1>1, NoneAssumption DEF TablesInv, PolicyTypeOK, RegisterOperation
  <2>2. CASE o # id
    <3>1. idToOp'[o] = idToOp[o] /\ idToModule'[o] = idToModule[o]
      BY <2>2 DEF TablesInv, PolicyTypeOK, RegisterOperation
    <3> QED BY <3>1 DEF TablesInv, LookupConsistent, LookUpName, LookUpModuleName
  <2> QED BY <2>1, <2>2
<1>7. LookupConsistent'
  BY <1>5, <1>6 DEF LookupConsistent, LookUpID, LookUpName, LookUpModuleName
<1> QED BY <1>3, <1>4, <1>7 DEF TablesInv


\* Every step keeps them.
LEMMA NextTables == TablesInv /\ CheckInv /\ [Next]_vars => TablesInv'
<1> SUFFICES ASSUME TablesInv, CheckInv, [Next]_vars PROVE TablesInv'
  OBVIOUS
<1>t. PolicyTypeOK /\ check \in Checks
  BY DEF TablesInv, PolicyTypeOK
<1>c. check' \in Checks
  BY CheckStaysTyped
<1>1. CASE StoreStep
  BY <1>1, <1>c, StoreStepTables
<1>2. ASSUME NEW id \in OpIds, NEW name \in OpNames, NEW m \in Owners[id],
             RegisterOperation(id, name, m)
      PROVE  TablesInv'
  BY <1>2, RegisterTables
<1>3. ASSUME UNCHANGED <<events, invokes>>, PolicyTypeOK', LookupConsistent' PROVE TablesInv'
  BY <1>3 DEF TablesInv, StoreOK, Stores, StoredByOwner, FlatAgrees, IdsOf
<1>4. CASE ClearRegisteredOperations
  <2>1. UNCHANGED <<events, invokes>> /\ PolicyTypeOK'
    BY <1>4, <1>t DEF ClearRegisteredOperations, store, PolicyTypeOK, Announced, Checks
  <2>2. LookupConsistent'
    BY <1>4 DEF ClearRegisteredOperations, LookupConsistent, LookUpID, LookUpName, LookUpModuleName
  <2> QED BY <2>1, <2>2, <1>3
<1>5. CASE UNCHANGED <<opToId, idToOp, idToModule, events, invokes, installed>> /\ sealed' \in BOOLEAN
           /\ policy' \in Policies
           /\ remote' \in Announced /\ calling' \subseteq Announced /\ (\A a, b \in calling' : a = b)
  <2>1. LookupConsistent'
    BY <1>5 DEF TablesInv, LookupConsistent, LookUpID, LookUpName, LookUpModuleName
  <2>2. PolicyTypeOK'
    BY <1>5, <1>t, <1>c DEF PolicyTypeOK, Announced, Checks
  <2> QED BY <2>1, <2>2, <1>5, <1>3
<1>6. CASE Seal
  BY <1>5, <1>6, <1>t DEF Seal, store, PolicyTypeOK
<1>7. ASSUME NEW r \in Offers, SetRemoteModuleCapabilities(r) PROVE TablesInv'
  <2>1. UNCHANGED <<opToId, idToOp, idToModule, events, invokes, installed, sealed, policy, remote>>
    BY <1>7 DEF SetRemoteModuleCapabilities, store, lookup
  <2>2. calling' = {{r}} /\ {r} \in Announced
    BY <1>7 DEF SetRemoteModuleCapabilities, Announced
  <2> QED BY <1>5, <2>1, <2>2, <1>t DEF PolicyTypeOK
<1>8. CASE ClearRemoteModuleCapabilities
  <2>1. UNCHANGED <<opToId, idToOp, idToModule, events, invokes, installed, sealed, policy, remote>>
    BY <1>8 DEF ClearRemoteModuleCapabilities, store, lookup
  <2>2. calling' = {{}} /\ {} \in Announced
    BY <1>8 DEF ClearRemoteModuleCapabilities, Announced
  <2> QED BY <1>5, <2>1, <2>2, <1>t DEF PolicyTypeOK
<1>9. CASE CapabilitiesCallReturns
  <2>1. UNCHANGED <<opToId, idToOp, idToModule, events, invokes, installed, sealed, policy>>
    BY <1>9 DEF CapabilitiesCallReturns, store, lookup
  <2>2. remote' \in calling /\ calling' = {}
    BY <1>9, CallReturns, <1>t
  <2> QED BY <1>5, <2>1, <2>2, <1>t DEF PolicyTypeOK
<1>10. ASSUME NEW p \in Policies, SetOperationBlockPolicy(p) PROVE TablesInv'
  BY <1>5, <1>10, <1>t DEF SetOperationBlockPolicy, store, lookup, PolicyTypeOK
<1>11. CASE UNCHANGED <<store, installed, policy, remote, calling, lookup>>
  BY <1>5, <1>11, <1>t DEF store, lookup, PolicyTypeOK
<1>12. CASE UNCHANGED vars
  BY <1>12, <1>11 DEF vars, store, lookup
<1> QED BY <1>1, <1>2, <1>4, <1>6, <1>7, <1>8, <1>9, <1>10, <1>11, <1>12
        DEF Next, IsOperationBlocked, CheckStore, CheckCapabilitiesSet, CheckRemoteOperation,
            CheckReturns, Reading

-----------------------------------------------------------------------------
(* The verdict of a check *)

\* The flat set a query reads and the sets by module agree on the id of one module.
LEMMA StoredIsForbidden ==
  TablesInv /\ OneOwner =>
    (~Stored(check.id, check.isEvent) <=>
       installed /\ \A m \in Modules :
         check.id \notin (IF check.isEvent THEN events ELSE invokes).by[m])
<1> SUFFICES ASSUME TablesInv, OneOwner
             PROVE  ~Stored(check.id, check.isEvent) <=>
                      installed /\ \A m \in Modules :
                        check.id \notin (IF check.isEvent THEN events ELSE invokes).by[m]
  OBVIOUS
<1> DEFINE id == check.id
<1>1. id \in OpIds
  BY SendsAssumption DEF OneOwner
<1>2. ASSUME NEW s, StoreOK(s)
      PROVE  id \in s.flat <=> \E m \in Modules : id \in s.by[m]
  <2>1. id \in s.flat => \E m \in Modules : id \in s.by[m]
    BY <1>2 DEF StoreOK, FlatAgrees
  <2>2. ASSUME NEW m \in Modules, id \in s.by[m] PROVE id \in s.flat
    <3>1. m \in Owners[id]
      BY <1>2, <2>2 DEF StoreOK, StoredByOwner, IdsOf
    <3>2. Owners[id] = {m}
      BY <3>1 DEF OneOwner
    <3> QED BY <1>1, <1>2, <2>2, <3>2 DEF StoreOK, FlatAgrees
  <2> QED BY <2>1, <2>2
<1>3. id \in events.flat <=> \E m \in Modules : id \in events.by[m]
  BY <1>2 DEF TablesInv
<1>4. id \in invokes.flat <=> \E m \in Modules : id \in invokes.by[m]
  BY <1>2 DEF TablesInv
<1>5. CASE check.isEvent
  BY <1>5, <1>3 DEF Stored, IsSubscribedEvent
<1>6. CASE ~check.isEvent
  BY <1>6, <1>4 DEF Stored, IsSupportedInvoke
<1> QED BY <1>5, <1>6

\* What the lookup and the map refuse is what the capabilities in the map forbid.
LEMMA MapIsForbidden ==
  TablesInv =>
    \A id \in OpIds :
      InternalIsRemoteOperationSupported(id) <=>
        \E m \in Modules : idToModule[id] = m /\ \E o \in Capabilities.map : id \in o[m]
  BY NoneAssumption DEF InternalIsRemoteOperationSupported, LookUpModuleName, TablesInv,
     PolicyTypeOK

\* A check all of whose reads still hold, and the verdict pending is justified.
OnTheWay == TablesInv /\ OneOwner /\ check.pc \in Reads /\ Fresh /\ calling # {{}}
Justified == Pending \in Verdicts[check.id][check.isEvent]

\* As long as what the check has read still holds, it is on the way to a justified verdict.
LEMMA PendingIsJustified == OnTheWay => Justified
<1> SUFFICES ASSUME OnTheWay PROVE Pending \in Verdicts[check.id][check.isEvent]
  BY DEF Justified
<1>0. TablesInv /\ OneOwner /\ check.pc \in Reads /\ Fresh /\ calling # {{}}
  BY DEF OnTheWay
<1> DEFINE id == check.id
           now == Capabilities.map
           lacks(r) == ~(\E m \in Modules : idToModule[id] = m /\ \E o \in r : id \in o[m])
<1>1. id \in OpIds /\ check.isEvent \in BOOLEAN
  BY <1>0, SendsAssumption DEF OneOwner, TablesInv, PolicyTypeOK, Checks
<1>2. Verdicts[id][check.isEvent] = {b \in BOOLEAN :
                                       \E r \in {remote} \cup calling : b <=> Forbidden(r, id, check.isEvent)}
  BY <1>1, VerdictsAre
<1>3. now = remote \/ (now \in calling /\ now # {})
  <2>1. CASE calling = {}
    BY <2>1 DEF Capabilities
  <2>2. CASE calling # {}
    <3>1. PICK c : c \in calling
      BY <2>2
    <3>2. calling = {c}
      BY <1>0, <3>1 DEF TablesInv, PolicyTypeOK
    <3>3. now = c
      BY <3>2, <2>2 DEF Capabilities
    <3> QED BY <1>0, <3>2, <3>3
  <2> QED BY <2>1, <2>2
<1>4. \A r : Forbidden(r, id, check.isEvent) <=>
             \/ ~Stored(id, check.isEvent)
             \/ ~check.isEvent /\ r # {} /\ lacks(r)
  BY <1>0, StoredIsForbidden DEF Fresh, Forbidden
<1>5. InternalIsRemoteOperationSupported(id) <=> ~lacks(now)
  BY <1>0, <1>1, MapIsForbidden
<1>6. Capabilities.isSet <=> remote # {}
  BY DEF Capabilities
<1>s. check.pc \in {"flag", "map"} => ~check.isEvent /\ Stored(id, check.isEvent)
  BY <1>0 DEF Fresh, Stored
<1>7. \E r \in {remote} \cup calling : Pending <=> Forbidden(r, id, check.isEvent)
  <2>1. CASE remote = {}
    <3>1. ~Capabilities.isSet
      BY <2>1, <1>6
    <3>2. Pending <=> ~Stored(id, check.isEvent)
      BY <1>0, <1>s, <3>1 DEF Pending, Refused, Fresh, Reads
    <3>3. Forbidden({}, id, check.isEvent) <=> ~Stored(id, check.isEvent)
      BY <1>4
    <3> QED BY <2>1, <3>2, <3>3
  <2>2. CASE remote # {}
    <3>1. now # {} /\ now \in {remote} \cup calling
      BY <2>2, <1>3
    <3>2. Pending <=> ~Stored(id, check.isEvent) \/ (~check.isEvent /\ lacks(now))
      BY <1>0, <1>s, <2>2, <1>5, <1>6 DEF Pending, Refused, Reads
    <3>3. Forbidden(now, id, check.isEvent) <=>
            ~Stored(id, check.isEvent) \/ (~check.isEvent /\ lacks(now))
      BY <3>1, <1>4
    <3> QED BY <3>1, <3>2, <3>3
  <2> QED BY <2>1, <2>2
<1>8. Pending \in BOOLEAN
  BY DEF Pending
<1> HIDE DEF now
<1> QED BY <1>2, <1>7, <1>8

\* A call that changes what a check consults keeps the invariant.
LEMMA ChangingKeeps ==
  ASSUME TablesInv, TablesInv', CheckInv, NEW spoils \in BOOLEAN, Changing(spoils),
         UNCHANGED lookup,
         check.pc \in Reads /\ ~check.changed /\ ~spoils =>
           \/ UNCHANGED <<remote, calling>>
           \/ UNCHANGED <<events, invokes, installed, policy, remote>> /\ calling' # {} /\ calling' # {{}},
         check.pc \in Reads /\ ~check.changed /\ ~spoils =>
           UNCHANGED policy \/ UNCHANGED <<events, invokes, installed>>
  PROVE  CheckInv'
<1>1. CASE check.pc \in {"idle", "done"}
  <2>1. check' = check /\ sealed' = sealed
    BY <1>1 DEF Changing, lookup
  <2>2. check.pc \notin Reads /\ (Pending' <=> Pending)
    BY <1>1, <2>1 DEF Reads, Pending
  <2>3. Pending' \in BOOLEAN /\ Pending \in BOOLEAN
    BY DEF Pending
  <2> QED BY <2>1, <2>2, <2>3 DEF CheckInv, OneOwner
<1>2. CASE check.pc \in Reads
  <2>1. /\ check.pc # "idle" /\ check.pc \notin {"idle", "done"} /\ sealed' = sealed
        /\ check \in Checks /\ check' \in Checks
    BY <1>2 DEF Reads, lookup, TablesInv, PolicyTypeOK
  <2>2. /\ check'.pc = check.pc /\ check'.id = check.id /\ check'.isEvent = check.isEvent
        /\ check'.changed
        /\ check'.verdicts = IF check.changed \/ spoils THEN BOOLEAN
                             ELSE check.verdicts \cup Verdicts'[check.id][check.isEvent]
    BY <2>1 DEF Changing, Checks
  <2>3. sealed' /\ check'.id \in Sends /\ (OneOwner' => OneOwner)
    BY <2>1, <2>2 DEF CheckInv, OneOwner
  <2>4. Pending' \in BOOLEAN
    BY DEF Pending
  <2>5. CASE check.changed \/ spoils
    BY <2>2, <2>3, <2>4, <2>5 DEF CheckInv
  <2>6. CASE check.verdicts = BOOLEAN /\ ~check.changed /\ ~spoils
    <3>1. check'.verdicts = BOOLEAN
      BY <2>1, <2>2, <2>6 DEF Checks
    <3> QED BY <2>2, <2>3, <2>4, <3>1 DEF CheckInv
  <2>7. CASE check.verdicts # BOOLEAN /\ ~check.changed /\ ~spoils
    <3>1. Fresh /\ calling = {}
      BY <1>2, <2>1, <2>7 DEF CheckInv
    <3>2. Verdicts'[check.id][check.isEvent] \subseteq check'.verdicts
      BY <2>2, <2>7
    <3>3. OneOwner => Pending \in check'.verdicts
      BY <2>1, <2>2, <2>7 DEF CheckInv
    <3>4. Fresh' /\ calling' # {{}} => (OneOwner' => Pending' \in check'.verdicts)
      <4>1. OnTheWay' => Justified'
        BY PendingIsJustified, PTL
      <4> QED BY <4>1, <3>2, <2>2, <1>2 DEF OnTheWay, Justified, Reads
    <3>5. CASE UNCHANGED <<events, invokes, installed, policy, remote>> /\ calling' # {} /\ calling' # {{}}
      <4>1. Fresh'
        BY <3>1, <3>5, <2>2 DEF Fresh, Stored, IsSupportedInvoke, Capabilities
      <4> QED BY <4>1, <3>2, <3>4, <3>5, <2>2, <2>3 DEF CheckInv
    <3>6. CASE UNCHANGED <<remote, calling>>
      <4>1. OneOwner' => Pending' \in check'.verdicts
        <5>1. CASE check.pc = "store" /\ UNCHANGED policy
          <6>1. Fresh'
            BY <5>1, <3>1, <2>2 DEF Fresh
          <6> QED BY <6>1, <3>1, <3>4, <3>6
        <5>2. CASE check.pc \in {"flag", "map"} \/ UNCHANGED <<events, invokes, installed>>
          <6>1. Pending' = Pending
            BY <5>2, <3>6, <2>2, <1>2
               DEF Pending, Refused, Stored, IsSubscribedEvent, IsSupportedInvoke, Capabilities,
                   InternalIsRemoteOperationSupported, LookUpModuleName, Reads, lookup
          <6> QED BY <6>1, <3>3, <2>3
        <5> QED BY <5>1, <5>2, <1>2, <2>7 DEF Reads
      <4>2. calling' = {}
        BY <3>1, <3>6
      <4> QED BY <4>1, <4>2, <2>2, <2>3 DEF CheckInv
    <3> QED BY <3>5, <3>6, <1>2, <2>7
  <2> QED BY <2>5, <2>6, <2>7
<1> QED BY <1>1, <1>2 DEF TablesInv, PolicyTypeOK, Checks, Reads

\* The second write of a call makes the flag agree with the map.
LEMMA ReturnKeeps ==
  ASSUME TablesInv, CheckInv, CapabilitiesCallReturns PROVE CheckInv'
<1>1. calling = {remote'} /\ calling' = {} /\ calling # {}
  BY CallReturns DEF TablesInv, CapabilitiesCallReturns
<1>2. UNCHANGED <<events, invokes, installed, policy, opToId, idToOp, idToModule, sealed, check>>
  BY DEF CapabilitiesCallReturns, store, lookup
<1>3. UNCHANGED <<OneOwner, Capabilities.map>>
  BY <1>1, <1>2 DEF OneOwner, Capabilities
<1>4. check.pc \in Reads /\ check.verdicts # BOOLEAN => check.changed
  BY <1>1, <1>2 DEF CheckInv, Reads
<1>5. CASE check.pc \notin Reads
  <2>1. Pending' = Pending
    BY <1>2, <1>5 DEF Pending, Reads
  <2> QED BY <2>1, <1>2, <1>3, <1>5 DEF CheckInv
<1>6. CASE check.verdicts = BOOLEAN
  <2>1. Pending' \in BOOLEAN
    BY DEF Pending
  <2> QED BY <2>1, <1>2, <1>3, <1>6 DEF CheckInv
<1>7. CASE check.pc \in Reads /\ check.verdicts # BOOLEAN
  <2>1. Fresh /\ calling # {{}} /\ Verdicts[check.id][check.isEvent] \subseteq check.verdicts
    BY <1>1, <1>7 DEF CheckInv, Reads
  <2>2. TablesInv'
    BY NextTables DEF Next
  <2>3. remote' # {}
    BY <1>1, <2>1
  <2>4. Fresh'
    BY <1>2, <2>1, <2>3 DEF Fresh, Stored, IsSupportedInvoke, Capabilities
  <2>5. OnTheWay' => Justified'
    BY PendingIsJustified, PTL
  <2>6. check.id \in OpIds /\ check.isEvent \in BOOLEAN
    BY <1>7, SendsAssumption DEF CheckInv, Reads, TablesInv, PolicyTypeOK, Checks
  <2>7. Verdicts'[check.id][check.isEvent] \subseteq Verdicts[check.id][check.isEvent]
    <3>1. \A r : Forbidden(r, check.id, check.isEvent)' = Forbidden(r', check.id, check.isEvent)
      BY <1>2 DEF Forbidden
    <3> QED BY <3>1, <1>1, <1>2, <2>6 DEF Verdicts, Forbidden
  <2>8. OneOwner' => Pending' \in check'.verdicts
    BY <1>1, <1>2, <1>7, <2>1, <2>2, <2>4, <2>5, <2>7 DEF OnTheWay, Justified, Reads
  <2> QED BY <1>1, <1>2, <1>3, <1>4, <1>7, <2>8 DEF CheckInv, Reads
<1> QED BY <1>5, <1>6, <1>7

\* A check starts with everything still to read.
LEMMA BeginKeeps ==
  ASSUME TablesInv, TablesInv', CheckInv, NEW id \in Sends, NEW isEvent \in BOOLEAN,
         IsOperationBlocked(id, isEvent)
  PROVE  CheckInv'
<1>1. /\ UNCHANGED <<events, invokes, installed, policy, remote, calling, opToId, idToOp,
                     idToModule, sealed>>
      /\ sealed
  BY DEF IsOperationBlocked, Reading, store, lookup
<1>2. /\ check'.pc = IF policy = "BlockUnsupportedOperations" THEN "store" ELSE "done"
      /\ check'.id = id /\ check'.isEvent = isEvent /\ check'.blocked = FALSE
      /\ check'.verdicts = IF {} \in calling THEN BOOLEAN ELSE Verdicts[id][isEvent]
      /\ check'.changed = (calling # {})
  BY DEF IsOperationBlocked
<1>3. id \in OpIds
  BY SendsAssumption
<1>4. Verdicts'[id][isEvent] = Verdicts[id][isEvent]
  BY <1>1, <1>3 DEF Verdicts, Forbidden
<1>5. Verdicts[id][isEvent] = {b \in BOOLEAN : \E r \in {remote} \cup calling : b <=> Forbidden(r, id, isEvent)}
  BY <1>3, VerdictsAre
<1>6. Pending' \in BOOLEAN
  BY DEF Pending
<1>7. CASE {} \in calling
  BY <1>1, <1>2, <1>6, <1>7 DEF CheckInv
<1>8. CASE policy # "BlockUnsupportedOperations" /\ {} \notin calling
  <2>1. Pending' = FALSE
    BY <1>2, <1>8 DEF Pending
  <2>2. Forbidden(remote, id, isEvent) = FALSE
    BY <1>8 DEF Forbidden
  <2> QED BY <2>1, <2>2, <1>1, <1>2, <1>5, <1>8 DEF CheckInv, Reads
<1>9. CASE policy = "BlockUnsupportedOperations" /\ {} \notin calling
  <2>1. Fresh' /\ calling' # {{}} /\ check'.pc \in Reads
    BY <1>1, <1>2, <1>9 DEF Fresh, Reads
  <2>2. OnTheWay' => Justified'
    BY PendingIsJustified, PTL
  <2>3. OneOwner' => Pending' \in check'.verdicts
    BY <2>1, <2>2, <1>2, <1>4, <1>9 DEF OnTheWay, Justified, Reads
  <2> QED BY <2>1, <2>3, <1>1, <1>2, <1>4, <1>9 DEF CheckInv
<1> QED BY <1>7, <1>8, <1>9

\* A read takes nothing back: the pending verdict stays what it was.
LEMMA ReadKeeps ==
  ASSUME TablesInv, CheckInv, CheckStore \/ CheckCapabilitiesSet \/ CheckRemoteOperation
  PROVE  CheckInv'
<1>1. /\ UNCHANGED <<events, invokes, installed, policy, remote, calling, opToId, idToOp,
                     idToModule, sealed>>
      /\ check.pc \in Reads /\ check \in Checks
  BY DEF CheckStore, CheckCapabilitiesSet, CheckRemoteOperation, Reading, store, lookup, Reads,
         TablesInv, PolicyTypeOK
<1>2. /\ check'.id = check.id /\ check'.isEvent = check.isEvent
      /\ check'.verdicts = check.verdicts /\ check'.changed = check.changed
      /\ check'.pc \in {"flag", "map", "done"}
  <2>1. CASE CheckStore
    BY <1>1, <2>1 DEF CheckStore, Decide, Checks
  <2>2. CASE CheckCapabilitiesSet
    BY <1>1, <2>2 DEF CheckCapabilitiesSet, Decide, Checks
  <2>3. CASE CheckRemoteOperation
    BY <1>1, <2>3 DEF CheckRemoteOperation, Decide, Checks
  <2> QED BY <2>1, <2>2, <2>3
<1>3. UNCHANGED <<Capabilities, OneOwner>>
  BY <1>1, <1>2 DEF Capabilities, OneOwner
<1>4. Verdicts'[check.id][check.isEvent] = Verdicts[check.id][check.isEvent]
  BY <1>1, SendsAssumption DEF CheckInv, Reads, Verdicts, Forbidden, Checks
<1>5. Pending' <=> Pending
  <2>1. \A e \in BOOLEAN : (Stored(check.id, e)' <=> Stored(check.id, e))
    BY <1>1, <1>2 DEF Stored, IsSubscribedEvent, IsSupportedInvoke
  <2>2. InternalIsRemoteOperationSupported(check.id)' <=> InternalIsRemoteOperationSupported(check.id)
    BY <1>1, <1>2, <1>3 DEF InternalIsRemoteOperationSupported, LookUpModuleName
  <2>3. Refused(check.id)' <=> Refused(check.id)
    BY <2>2, <1>2, <1>3 DEF Refused
  <2>4. CASE CheckStore
    <3>1. check.pc = "store"
      BY <2>4 DEF CheckStore, Reading
    <3>2. CASE check.isEvent
      <4>1. check'.pc = "done" /\ check'.blocked = ~IsSubscribedEvent(check.id)
        BY <1>1, <3>2, <2>4 DEF CheckStore, Decide, Checks
      <4>2. check'.blocked <=> ~IsSubscribedEvent(check.id)
        BY <4>1, ZenonT(20)
      <4> QED BY <1>1, <3>1, <3>2, <4>1, <4>2 DEF Pending, Reads, Stored
    <3>3. CASE ~check.isEvent /\ ~IsSupportedInvoke(check.id)
      BY <1>1, <3>1, <3>3, <2>4 DEF CheckStore, Decide, Checks, Pending, Reads, Stored
    <3>4. CASE ~check.isEvent /\ IsSupportedInvoke(check.id)
      BY <1>1, <1>2, <3>1, <3>4, <2>3, <2>4 DEF CheckStore, Checks, Pending, Reads, Stored
    <3> QED BY <3>2, <3>3, <3>4
  <2>5. CASE CheckCapabilitiesSet
    BY <1>1, <1>2, <2>2, <2>5 DEF CheckCapabilitiesSet, Reading, Decide, Checks, Pending, Refused,
       Reads
  <2>6. CASE CheckRemoteOperation
    BY <1>1, <1>2, <2>6 DEF CheckRemoteOperation, Reading, Decide, Checks, Pending, Reads
  <2> QED BY <2>4, <2>5, <2>6
<1>6. Pending \in BOOLEAN /\ Pending' \in BOOLEAN
  BY DEF Pending
<1>7. check'.pc \in Reads /\ Fresh => Fresh'
  BY <1>1, <1>2, <1>3
     DEF CheckStore, CheckCapabilitiesSet, CheckRemoteOperation, Reading, Decide, Checks, Fresh,
         Stored, IsSupportedInvoke, Reads
<1> QED BY <1>1, <1>2, <1>3, <1>4, <1>5, <1>6, <1>7 DEF CheckInv, Reads

\* Every step keeps it.
LEMMA NextCheck == TablesInv /\ TablesInv' /\ CheckInv /\ [Next]_vars => CheckInv'
<1> SUFFICES ASSUME TablesInv, TablesInv', CheckInv, [Next]_vars PROVE CheckInv'
  OBVIOUS
<1>1. CASE StoreStep
  <2>1. Changing(FALSE) /\ UNCHANGED <<installed, policy, remote, calling>> /\ UNCHANGED lookup
    BY <1>1 DEF StoreStep
  <2> QED BY <2>1, ChangingKeeps
<1>2. ASSUME NEW r \in Offers, SetRemoteModuleCapabilities(r) PROVE CheckInv'
  <2>1. Changing(FALSE) /\ UNCHANGED <<events, invokes, installed, policy, remote>> /\ UNCHANGED lookup
    BY <1>2 DEF SetRemoteModuleCapabilities, store
  <2>2. calling' # {} /\ calling' # {{}}
    BY <1>2 DEF SetRemoteModuleCapabilities
  <2> QED BY <2>1, <2>2, ChangingKeeps
<1>3. CASE ClearRemoteModuleCapabilities
  <2>1. Changing(TRUE) /\ UNCHANGED lookup
    BY <1>3 DEF ClearRemoteModuleCapabilities
  <2> QED BY <2>1, ChangingKeeps
<1>4. CASE CapabilitiesCallReturns
  BY <1>4, ReturnKeeps
<1>5. ASSUME NEW p \in Policies, SetOperationBlockPolicy(p) PROVE CheckInv'
  <2>1. Changing(FALSE) /\ UNCHANGED <<events, invokes, installed, remote, calling>> /\ UNCHANGED lookup
    BY <1>5 DEF SetOperationBlockPolicy, store
  <2> QED BY <2>1, ChangingKeeps
<1>6. ASSUME NEW id \in Sends, NEW e \in BOOLEAN, IsOperationBlocked(id, e) PROVE CheckInv'
  BY <1>6, BeginKeeps
<1>7. CASE CheckStore \/ CheckCapabilitiesSet \/ CheckRemoteOperation
  BY <1>7, ReadKeeps
<1>8. CASE CheckReturns
  BY <1>8 DEF CheckReturns, NoCheck, CheckInv
<1>9. CASE ~sealed /\ UNCHANGED check
  BY <1>9 DEF CheckInv
<1>10. ASSUME UNCHANGED <<events, invokes, installed, policy, remote, calling, opToId, idToOp,
                          idToModule, check>>,
              sealed => sealed'
       PROVE  CheckInv'
  <2>1. UNCHANGED <<Pending, Fresh, Verdicts, OneOwner>>
    BY <1>10 DEF Pending, Refused, Stored, IsSubscribedEvent, IsSupportedInvoke, Capabilities,
                 InternalIsRemoteOperationSupported, LookUpModuleName, Fresh, Verdicts, Forbidden,
                 OneOwner
  <2> QED BY <1>10, <2>1 DEF CheckInv
<1>11. CASE Seal \/ UNCHANGED vars
  BY <1>10, <1>11 DEF Seal, vars, store
<1> QED BY <1>1, <1>2, <1>3, <1>4, <1>5, <1>6, <1>7, <1>8, <1>9, <1>11
        DEF Next, RegisterOperation, ClearRegisteredOperations

\* The invariant holds at the start and every step keeps it.
LEMMA IInvIsInductive == (Init => IInv) /\ (IInv /\ [Next]_vars => IInv')
<1>1. Init => CheckInv
  BY DEF Init, NoCheck, CheckInv
<1> QED BY <1>1, InitTables, NextTables, NextCheck DEF IInv

-----------------------------------------------------------------------------
(* The theorems *)

\* The store, the lookup, the capabilities, the policy and the check keep their
\* types, and at most one capability map of the peer is set.
THEOREM TypeCorrect == Spec => []PolicyTypeOK
<1>1. IInv => PolicyTypeOK
  BY DEF IInv, TablesInv
<1> QED BY IInvIsInductive, <1>1, PTL DEF Spec

\* The flat sets that decide about sending agree with the sets by module, and
\* names, ids and modules of the lookup with each other, through every sequence
\* of ReplaceModuleOpIds, ClearModuleOpIds and RegisterOperation.
THEOREM TablesAlwaysAgree == Spec => []TablesAgree
<1>1. IInv => TablesAgree
  BY DEF IInv, TablesInv, StoreOK, TablesAgree, FlatIsUnion
<1> QED BY IInvIsInductive, <1>1, PTL DEF Spec

\* IsOperationBlocked, which reads the policy, the store, the flag and the map one after
\* the other, gives a verdict that the documented rules give at some moment of the check,
\* whichever one call of those that change them overlaps with it, except
\* ClearRemoteModuleCapabilities, and whether or not the sender has a store.
THEOREM VerdictIsJustified == Spec => []VerdictJustified
<1>1. IInv => VerdictJustified
  <2> SUFFICES ASSUME IInv, check.pc = "done", \A m, k \in Owners[check.id] : m = k
               PROVE  check.blocked \in check.verdicts
    BY DEF VerdictJustified
  <2>1. OneOwner
    BY DEF IInv, CheckInv, OneOwner
  <2>2. (Pending <=> check.blocked) /\ Pending \in BOOLEAN /\ check.blocked \in BOOLEAN
    BY DEF Pending, Reads, IInv, TablesInv, PolicyTypeOK, Checks
  <2> QED BY <2>1, <2>2 DEF IInv, CheckInv
<1> QED BY IInvIsInductive, <1>1, PTL DEF Spec
=============================================================================
