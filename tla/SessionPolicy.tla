--------------------------- MODULE SessionPolicy ---------------------------
(* What a session may send: the session's RoseSessionSubscriptionStore, the      *)
(* operation lookup a stub registers its operations in                           *)
(* (SnaccRoseOperationLookup), the capabilities the peer announced, and the      *)
(* check before a send that consults all three                                   *)
(* (SnaccROSESender::IsOperationBlocked).  Every operation of the store holds    *)
(* its lock from end to end, but the check takes that lock once per query and    *)
(* reads the rest without one, so the tables may change between its reads.       *)
EXTENDS Integers, FiniteSets

CONSTANTS Modules,   \* interfaces
          OpIds,     \* operation ids
          OpNames,   \* operation names
          Sends,     \* the operations the session's stubs send
          Owners,    \* for each operation id, the modules it may be stored for
          Offers     \* capability maps the peer may announce

ASSUME OwnersAssumption == Owners \in [OpIds -> SUBSET Modules]
ASSUME SendsAssumption == Sends \subseteq OpIds
ASSUME OffersAssumption == Offers \subseteq [Modules -> SUBSET OpIds]

\* Not an id, a name or a module.
None == "none"
ASSUME NoneAssumption == None \notin OpIds \cup OpNames \cup Modules

VARIABLES
  events, invokes,          \* m_subscribedEvents..., m_supportedInvokes...: by module and flat
  installed,                \* the sender forwards to a store
  policy,                   \* m_operationBlockPolicy
  remote,                   \* the capabilities the last call that ended set: none or one map
  calling,                  \* those of a call between its two writes: none or one of those
  opToId, idToOp, idToModule, \* the lookup's maps
  sealed,                   \* m_bSealed
  check                     \* an IsOperationBlocked under way

store == <<events, invokes>>
lookup == <<opToId, idToOp, idToModule, sealed>>
vars == <<events, invokes, installed, policy, remote, calling, opToId, idToOp, idToModule,
          sealed, check>>

Policies == {"NeverBlock", "BlockUnsupportedOperations"}
\* verdicts is the history of a check: what the documented rules say, with the calls that
\* change the tables taken as one step each, at some moment of the check; and everything
\* once a second call has overlapped with it.
NoCheck == [pc |-> "idle", id |-> None, isEvent |-> FALSE, blocked |-> FALSE,
            verdicts |-> {}, changed |-> FALSE]

EmptyStore == [by |-> [m \in Modules |-> {}], flat |-> {}]

Init ==
  /\ events = EmptyStore /\ invokes = EmptyStore
  /\ installed \in BOOLEAN
  /\ policy = "NeverBlock" /\ remote = {} /\ calling = {} /\ check = NoCheck
  /\ opToId = [n \in OpNames |-> None]
  /\ idToOp = [o \in OpIds |-> None] /\ idToModule = [o \in OpIds |-> None]
  /\ sealed = FALSE

-----------------------------------------------------------------------------
(* The documented rules, and what a check is told of the changes.                *)

\* The flow chart of docs/rose-session-subscription.md, over the sets by module, for the
\* capabilities r.
Forbidden(r, id, isEvent) ==
  /\ policy = "BlockUnsupportedOperations"
  /\ \/ installed /\ \A m \in Modules : id \notin (IF isEvent THEN events ELSE invokes).by[m]
     \/ ~isEvent /\ r # {} /\ ~(\E m \in Modules : idToModule[id] = m /\ \E o \in r : id \in o[m])

\* A call between its two writes counts as made and as not made.
Verdicts ==
  [id \in OpIds |-> [isEvent \in BOOLEAN |->
    {b \in BOOLEAN : \E r \in {remote} \cup calling : b <=> Forbidden(r, id, isEvent)}]]

\* A change of what a check consults.  ClearRemoteModuleCapabilities empties the map before
\* it resets the flag: a check that reads the flag before and the map after it is not told
\* the truth of any moment, which spoils says.
Changing(spoils) ==
  check' = IF check.pc \in {"idle", "done"} THEN check
           ELSE [check EXCEPT !.changed = TRUE,
                              !.verdicts = IF check.changed \/ spoils THEN BOOLEAN
                                           ELSE @ \cup Verdicts'[check.id][check.isEvent]]

-----------------------------------------------------------------------------
(* The session store.  A module that is not in the map is one with no ids. *)

\* The ids of a module leave the flat set, whoever else stores them.
ClearModuleOpIds(s, m) ==
  [by |-> [s.by EXCEPT ![m] = {}], flat |-> s.flat \ s.by[m]]

\* Mutant: the new ids are inserted without clearing the old ones from the flat set.
ReplaceModuleOpIdsOnly(s, m, ids) ==
  [by |-> [s.by EXCEPT ![m] = ids], flat |-> s.flat \cup ids]

ReplaceModuleOpIds(s, m, ids) ==
  LET cleared == ClearModuleOpIds(s, m)
  IN [by |-> [cleared.by EXCEPT ![m] = ids], flat |-> cleared.flat \cup ids]

AddOpId(s, m, id) ==
  [by |-> [s.by EXCEPT ![m] = @ \cup {id}], flat |-> s.flat \cup {id}]

IdsOf(m) == {id \in OpIds : m \in Owners[id]}

SetSubscribedEvents(m, ids) ==
  events' = ReplaceModuleOpIds(events, m, ids) /\ UNCHANGED invokes
AddSubscribedEvent(m, id) ==
  events' = AddOpId(events, m, id) /\ UNCHANGED invokes
ClearSubscribedEvents(m) ==
  events' = ClearModuleOpIds(events, m) /\ UNCHANGED invokes
SetSupportedInvokes(m, ids) ==
  invokes' = ReplaceModuleOpIds(invokes, m, ids) /\ UNCHANGED events
AddSupportedInvoke(m, id) ==
  invokes' = AddOpId(invokes, m, id) /\ UNCHANGED events
ClearSupportedInvokes(m) ==
  invokes' = ClearModuleOpIds(invokes, m) /\ UNCHANGED events
ClearAllSubscriptions ==
  events' = EmptyStore /\ invokes' = EmptyStore

\* A sender without a store asserts that nobody writes.
StoreStep ==
  /\ installed
  /\ \/ \E m \in Modules : \E ids \in SUBSET IdsOf(m) :
          SetSubscribedEvents(m, ids) \/ SetSupportedInvokes(m, ids)
     \/ \E m \in Modules : \E id \in IdsOf(m) :
          AddSubscribedEvent(m, id) \/ AddSupportedInvoke(m, id)
     \/ \E m \in Modules : ClearSubscribedEvents(m) \/ ClearSupportedInvokes(m)
     \/ ClearAllSubscriptions
  /\ UNCHANGED <<installed, policy, remote, calling, lookup>>
  /\ Changing(FALSE)

\* A sender without a store answers true.
IsSubscribedEvent(id) == installed => id \in events.flat
IsSupportedInvoke(id) == installed => id \in invokes.flat

-----------------------------------------------------------------------------
(* The operation lookup *)

\* A known id keeps what it has; a known name moves to the new id.
RegisterOperation(id, name, m) ==
  /\ ~sealed /\ idToOp[id] = None
  /\ opToId' = [opToId EXCEPT ![name] = id]
  /\ idToOp' = [idToOp EXCEPT ![id] = name]
  /\ idToModule' = [idToModule EXCEPT ![id] = m]
  /\ UNCHANGED <<store, installed, policy, remote, calling, sealed, check>>

ClearRegisteredOperations ==
  /\ ~sealed
  /\ opToId' = [n \in OpNames |-> None]
  /\ idToOp' = [o \in OpIds |-> None] /\ idToModule' = [o \in OpIds |-> None]
  /\ UNCHANGED <<store, installed, policy, remote, calling, sealed, check>>

Seal ==
  /\ sealed' = TRUE
  /\ UNCHANGED <<store, installed, policy, remote, calling, opToId, idToOp, idToModule, check>>

LookUpName(id) == idToOp[id]
LookUpID(name) == opToId[name]
LookUpModuleName(id) == idToModule[id]

-----------------------------------------------------------------------------
(* Capabilities and policy.  One thread negotiates, so one call at a time changes the  *)
(* capabilities: the map first, then m_bRemoteModuleCapabilitiesSet, without a lock.   *)
(* (The copy of the map is one step here; a read inside it is undefined behaviour.)    *)

SetRemoteModuleCapabilities(r) ==
  /\ calling = {} /\ calling' = {{r}}
  /\ UNCHANGED <<store, installed, policy, remote, lookup>>
  /\ Changing(FALSE)

ClearRemoteModuleCapabilities ==
  /\ calling = {} /\ calling' = {{}}
  /\ UNCHANGED <<store, installed, policy, remote, lookup>>
  /\ Changing(TRUE)

\* The second write of either call.
CapabilitiesCallReturns ==
  /\ calling # {}
  /\ remote' = UNION calling /\ calling' = {}
  /\ UNCHANGED <<store, installed, policy, lookup, check>>

SetOperationBlockPolicy(p) ==
  /\ policy' = p
  /\ UNCHANGED <<store, installed, remote, calling, lookup>>
  /\ Changing(FALSE)

\* Mutant: a call sets the flag before it stores the map.
CapabilitiesFlagFirst ==
  [isSet |-> (IF calling = {} THEN remote ELSE UNION calling) # {}, map |-> remote]

\* What the flag and the map hold: in the middle of a call the map is already written.
Capabilities ==
  [isSet |-> remote # {}, map |-> IF calling = {} THEN remote ELSE UNION calling]

InternalIsRemoteOperationSupported(id) ==
  /\ LookUpModuleName(id) # None
  /\ \E o \in Capabilities.map : id \in o[LookUpModuleName(id)]

-----------------------------------------------------------------------------
(* IsOperationBlocked: the policy, the store, the flag and the map are read one after  *)
(* the other.  The lookup is sealed before anything is sent.                           *)

Decide(b) == check' = [check EXCEPT !.pc = "done", !.blocked = b]
Reading(pc) ==
  /\ check.pc = pc
  /\ UNCHANGED <<store, installed, policy, remote, calling, lookup>>

IsOperationBlocked(id, isEvent) ==
  /\ Reading("idle") /\ sealed
  /\ check' = [pc |-> IF policy = "BlockUnsupportedOperations" THEN "store" ELSE "done",
               id |-> id, isEvent |-> isEvent, blocked |-> FALSE,
               verdicts |-> IF {} \in calling THEN BOOLEAN ELSE Verdicts[id][isEvent],
               changed |-> calling # {}]

CheckStore ==
  /\ Reading("store")
  /\ IF check.isEvent THEN Decide(~IsSubscribedEvent(check.id))
     ELSE IF ~IsSupportedInvoke(check.id) THEN Decide(TRUE)
     ELSE check' = [check EXCEPT !.pc = "flag"]

CheckCapabilitiesSet ==
  /\ Reading("flag")
  /\ IF Capabilities.isSet THEN check' = [check EXCEPT !.pc = "map"] ELSE Decide(FALSE)

CheckRemoteOperation ==
  /\ Reading("map")
  /\ Decide(~InternalIsRemoteOperationSupported(check.id))

\* The send goes on, or is refused.
CheckReturns == Reading("done") /\ check' = NoCheck

Next ==
  \/ StoreStep
  \/ \E id \in OpIds : \E name \in OpNames : \E m \in Owners[id] : RegisterOperation(id, name, m)
  \/ ClearRegisteredOperations
  \/ Seal
  \/ \E r \in Offers : SetRemoteModuleCapabilities(r)
  \/ ClearRemoteModuleCapabilities
  \/ CapabilitiesCallReturns
  \/ \E p \in Policies : SetOperationBlockPolicy(p)
  \/ \E id \in Sends : \E isEvent \in BOOLEAN : IsOperationBlocked(id, isEvent)
  \/ CheckStore
  \/ CheckCapabilitiesSet
  \/ CheckRemoteOperation
  \/ CheckReturns

Spec == Init /\ [][Next]_vars

-----------------------------------------------------------------------------
(* Properties *)

\* No capabilities, or one map of them.
Announced == {{}} \cup {{r} : r \in Offers}

Checks == [pc : {"idle", "store", "flag", "map", "done"}, id : OpIds \cup {None},
           isEvent : BOOLEAN, blocked : BOOLEAN, verdicts : SUBSET BOOLEAN, changed : BOOLEAN]

PolicyTypeOK ==
  /\ events \in [by : [Modules -> SUBSET OpIds], flat : SUBSET OpIds]
  /\ invokes \in [by : [Modules -> SUBSET OpIds], flat : SUBSET OpIds]
  /\ policy \in Policies
  /\ installed \in BOOLEAN
  /\ remote \in Announced
  /\ calling \subseteq Announced /\ \A a, b \in calling : a = b
  /\ opToId \in [OpNames -> OpIds \cup {None}]
  /\ idToOp \in [OpIds -> OpNames \cup {None}]
  /\ idToModule \in [OpIds -> Modules \cup {None}]
  /\ sealed \in BOOLEAN
  /\ check \in Checks

\* The flat set a lookup reads holds no id that no module stores, and every id
\* that only one module may store as long as that module stores it.  (An id two
\* modules store leaves the flat set with the first of them.)
FlatAgrees(s) ==
  /\ \A id \in s.flat : \E m \in Modules : id \in s.by[m]
  /\ \A id \in OpIds : \A m \in Modules :
       Owners[id] = {m} /\ id \in s.by[m] => id \in s.flat

\* The two flat sets agree with the sets by module, through replacing, adding
\* and clearing (ReplaceModuleOpIds, ClearModuleOpIds).
FlatIsUnion == FlatAgrees(events) /\ FlatAgrees(invokes)

\* The name that an operation name's id is registered under is that name, also
\* after two operations of one name were registered; and the three maps know
\* the same ids (RegisterOperation).
LookupConsistent ==
  /\ \A name \in OpNames : LookUpID(name) # None => LookUpName(LookUpID(name)) = name
  /\ \A id \in OpIds : LookUpName(id) # None <=> LookUpModuleName(id) # None

\* What a send consults agrees with what the session was told.
TablesAgree == FlatIsUnion /\ LookupConsistent

\* The verdict of IsOperationBlocked is one the documented rules give at some moment of the
\* check, although it reads the policy, the store, the flag and the map of the capabilities
\* one after the other: whichever of the calls that change them overlaps with the check, as
\* long as it is one call, and not ClearRemoteModuleCapabilities.  It is about the operations
\* one module stores; those of two leave the flat set early.
VerdictJustified ==
  check.pc = "done" /\ (\A m, k \in Owners[check.id] : m = k)
    => check.blocked \in check.verdicts
=============================================================================
