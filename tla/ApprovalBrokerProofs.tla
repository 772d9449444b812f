----------------------- MODULE ApprovalBrokerProofs -----------------------
(***************************************************************************)
(* Theorems about ApprovalBroker, for any sets of sandboxes, domains,      *)
(* requests, decide calls and tabs and any number of faults.               *)
(***************************************************************************)
EXTENDS ApprovalBroker, DecisionStoreProofs

USE DEF Verdicts, Entry

-----------------------------------------------------------------------------
(* The broker is a client of the store: every step of it is a step of the  *)
(* store or leaves the store alone, so that what holds of the store for    *)
(* every use of it holds within the broker.                                *)

LEMMA BrokerStepIsStoreStep ==
    ASSUME BrokerTypeOK, [Next]_vars PROVE [StoreNext]_storeVars
  <1>1. CASE (StartStep \/ EditStep \/ PutByPane \/ Commit) /\ UNCHANGED brokerVars
    BY <1>1 DEF PutByPane, PutStep, StoreNext
  <1>2. CASE Ask
    BY <1>2 DEF Ask, Arrive
  <1>3. ASSUME NEW r \in Requests, RequestStep(r) PROVE [StoreNext]_storeVars
    <2>1. CASE CreateFails(r)
      <3>1. CASE UNCHANGED faults
        BY <2>1, <3>1 DEF CreateFails, storeVars
      <3>2. CASE Fault
        BY <2>1, <3>2 DEF CreateFails, FaultElsewhere, StoreNext
      <3> QED
        BY <2>1, <3>1, <3>2 DEF CreateFails
    <2>2. CASE CreateRow(r)
      BY <2>2 DEF CreateRow, StoreNext
    <2>3. CASE ~CreateFails(r) /\ ~CreateRow(r)
      BY <1>3, <2>3 DEF RequestStep, ReadDecision, AnswerStored, Join, Lead,
         Deliver, EndBroadcast, Awaken, Expire, Return
    <2> QED
      BY <2>1, <2>2, <2>3
  <1>4. ASSUME NEW e \in Edits, NEW t \in Tabs, NEW v \in Verdicts, NEW p \in BOOLEAN,
               NEW a \in popups[t], Click(e, t, a, v, p)
        PROVE  [StoreNext]_storeVars
    <2>1. rkey[a] \in Keys
      BY DEF BrokerTypeOK
    <2>2. Say(rkey[a], v)
      BY <1>4 DEF Click
    <2> QED
      BY <2>1, <2>2 DEF AnswerStep, StoreNext
  <1>5. ASSUME NEW e \in Edits, DecideStep(e) PROVE [StoreNext]_storeVars
    <2>1. CASE ResolveRow(e)
      <3>1. CASE Decide(e, rkey[dapp[e]], dverdict[e])
        <4>1. rkey[dapp[e]] \in Keys /\ dverdict[e] \in Verdicts
          BY <2>1 DEF ResolveRow, BrokerTypeOK
        <4> QED
          BY <3>1, <4>1 DEF AnswerStep, StoreNext
      <3>2. CASE Commit
        BY <3>2 DEF StoreNext
      <3> QED
        BY <2>1, <3>1, <3>2 DEF ResolveRow
    <2>2. CASE ResolveFails(e)
      <3>1. CASE UNCHANGED faults
        BY <2>2, <3>1 DEF ResolveFails, storeVars
      <3>2. CASE Fault
        BY <2>2, <3>2 DEF ResolveFails, FaultElsewhere, StoreNext
      <3> QED
        BY <2>2, <3>1, <3>2 DEF ResolveFails
    <2>3. CASE PersistFails(e) \/ Settle(e) \/ Dismiss(e)
      BY <2>3 DEF PersistFails, Settle, Dismiss
    <2> QED
      BY <1>5, <2>1, <2>2, <2>3 DEF DecideStep
  <1>6. CASE Restart
    BY <1>6 DEF Restart, StoreNext
  <1>7. CASE UNCHANGED vars
    BY <1>7 DEF vars
  <1>8. ASSUME NEW t \in Tabs, Reload(t) PROVE [StoreNext]_storeVars
    BY <1>8 DEF Reload
  <1> HIDE DEF Verdicts, Entry
  <1> QED
    BY <1>1, <1>2, <1>3, <1>4, <1>5, <1>6, <1>7, <1>8 DEF Next, Clicked

-----------------------------------------------------------------------------
(* Types.                                                                  *)

BrokerOwnTypes ==
    /\ pendingByDomain \in [Keys -> Requests \cup {None}]
    /\ approvalFutures \in SUBSET Requests
    /\ fut \in [Requests -> {"none", "pending"} \cup Verdicts]
    /\ rows \in SUBSET Requests
    /\ rpc \in [Requests -> RequestPhase]
    /\ rkey \in [Requests -> Keys]
    /\ seen \in [Requests -> Entry]
    /\ ron \in [Requests -> Requests \cup {None}]
    /\ reply \in [Requests -> {"none", "expired", "error"} \cup Verdicts]
    /\ tosend \in [Requests -> SUBSET Tabs]
    /\ popups \in [Tabs -> SUBSET Requests]
    /\ dpc \in [Edits -> DecidePhase]
    /\ dapp \in [Edits -> Requests \cup {None}]
    /\ dtab \in [Edits -> Tabs]
    /\ dverdict \in [Edits -> Verdicts]
    /\ dperm \in [Edits -> BOOLEAN]
    /\ late \in SUBSET Requests

LEMMA TypesSplit == BrokerTypeOK <=> StoreTypeOK /\ BrokerOwnTypes
  BY Zenon DEF BrokerTypeOK, BrokerOwnTypes

LEMMA InitTypes == BrokerInit => BrokerOwnTypes
  <1> SUFFICES ASSUME BrokerInit PROVE BrokerOwnTypes
    OBVIOUS
  <1>1. (CHOOSE t \in Tabs : TRUE) \in Tabs
    BY SomeTab
  <1>2. rkey \in [Requests -> Keys]
    <2> QED
      BY SomeKeyIsKey DEF BrokerInit
  <1>3. pendingByDomain \in [Keys -> Requests \cup {None}]
    <2> QED
      BY DEF BrokerInit
  <1>4. dtab \in [Edits -> Tabs]
    BY <1>1 DEF BrokerInit
  <1> QED
    BY <1>2, <1>3, <1>4 DEF BrokerInit, BrokerOwnTypes, RequestPhase, DecidePhase

\* One step per action of a request.
LEMMA RequestStepTypes ==
    ASSUME StoreTypeOK, BrokerOwnTypes, NEW r \in Requests, RequestStep(r) PROVE BrokerOwnTypes'
  <1> USE DEF BrokerOwnTypes, RequestPhase, DecidePhase, registryVars, requestVars,
              decideVars, Goto, PopBoth
  <1>1. CASE ReadDecision(r)
    <2>1. decision[rkey[r]] \in Entry
      BY <1>1 DEF ReadDecision, StoreTypeOK
    <2> QED
      BY <1>1, <2>1 DEF ReadDecision
  <1>2. CASE AnswerStored(r)
    BY <1>2 DEF AnswerStored
  <1>3. CASE Join(r)
    BY <1>3 DEF Join
  <1>4. CASE Lead(r)
    BY <1>4 DEF Lead
  <1>5. CASE CreateRow(r)
    BY <1>5 DEF CreateRow
  <1>6. CASE CreateFails(r)
    BY <1>6 DEF CreateFails
  <1>7. ASSUME NEW t \in Tabs, Deliver(r, t) PROVE BrokerOwnTypes'
    BY <1>7 DEF Deliver
  <1>8. CASE EndBroadcast(r)
    BY <1>8 DEF EndBroadcast
  <1>9. CASE Awaken(r)
    BY <1>9 DEF Awaken, Return
  <1>10. CASE Expire(r)
    BY <1>10 DEF Expire, Return
  <1> HIDE DEF BrokerOwnTypes
  <1> QED
    BY <1>1, <1>2, <1>3, <1>4, <1>5, <1>6, <1>7, <1>8, <1>9, <1>10 DEF RequestStep

\* And one per action of a decide call.
LEMMA DecideStepTypes ==
    ASSUME BrokerOwnTypes, NEW e \in Edits, DecideStep(e) PROVE BrokerOwnTypes'
  <1> USE DEF BrokerOwnTypes, DecidePhase, registryVars, requestVars, DecideGoto
  <1>1. CASE ResolveRow(e)
    BY <1>1 DEF ResolveRow
  <1>2. CASE ResolveFails(e)
    BY <1>2 DEF ResolveFails
  <1>3. CASE PersistFails(e)
    BY <1>3 DEF PersistFails
  <1>4. CASE Settle(e)
    BY <1>4 DEF Settle
  <1>5. CASE Dismiss(e)
    BY <1>5 DEF Dismiss
  <1> HIDE DEF BrokerOwnTypes
  <1> QED
    BY <1>1, <1>2, <1>3, <1>4, <1>5 DEF DecideStep

LEMMA StepTypes ==
    ASSUME StoreTypeOK, BrokerOwnTypes, [Next]_vars PROVE BrokerOwnTypes'
  <1>1. CASE UNCHANGED brokerVars
    BY <1>1 DEF brokerVars, registryVars, requestVars, decideVars, BrokerOwnTypes
  <1>2. ASSUME NEW r \in Requests, NEW k \in Keys, Arrive(r, k) PROVE BrokerOwnTypes'
    BY <1>2 DEF Arrive, Goto, registryVars, decideVars, BrokerOwnTypes, RequestPhase
  <1>3. ASSUME NEW e \in Edits, NEW t \in Tabs, NEW v \in Verdicts, NEW p \in BOOLEAN,
               NEW a \in popups[t], Click(e, t, a, v, p)
        PROVE  BrokerOwnTypes'
    <2>1. a \in Requests
      BY DEF BrokerOwnTypes
    <2> QED
      BY <1>3, <2>1 DEF Click, registryVars, requestVars, BrokerOwnTypes, DecidePhase
  <1>4. CASE Restart
    BY <1>4 DEF Restart, BrokerOwnTypes, RequestPhase, DecidePhase
  <1>5. CASE UNCHANGED vars
    BY <1>1, <1>5 DEF vars
  <1>6. ASSUME NEW t \in Tabs, Reload(t) PROVE BrokerOwnTypes'
    BY <1>6 DEF Reload, registryVars, requestVars, decideVars, BrokerOwnTypes
  <1> QED
    BY <1>1, <1>2, <1>3, <1>4, <1>5, <1>6, RequestStepTypes, DecideStepTypes
       DEF Next, Ask, Clicked

\* Every variable of the broker and its store has its type in every reachable state.
THEOREM BrokerTyped == Spec => []BrokerTypeOK
  <1>1. BrokerInit => BrokerTypeOK
    BY InitTypes, StoreInitTypes, TypesSplit DEF BrokerInit
  <1>2. BrokerTypeOK /\ [Next]_vars => BrokerTypeOK'
    <2> SUFFICES ASSUME BrokerTypeOK, [Next]_vars PROVE BrokerTypeOK'
      OBVIOUS
    <2>1. StoreTypeOK'
      BY BrokerStepIsStoreStep, StoreTypeStep, TypesSplit
    <2>2. BrokerOwnTypes'
      BY StepTypes, TypesSplit
    <2>3. (StoreTypeOK /\ BrokerOwnTypes => BrokerTypeOK)'
      BY TypesSplit, PTL
    <2> QED
      BY <2>1, <2>2, <2>3
  <1> QED
    BY <1>1, <1>2, PTL DEF Spec

\* The broker uses the store as the store's specification allows, so that whatever
\* is proved of StoreSpec holds of the composition.
THEOREM BrokerUsesStore == Spec => StoreSpec
  <1>1. BrokerInit => StoreInit
    BY DEF BrokerInit
  <1>2. BrokerTypeOK /\ [Next]_vars => [StoreNext]_storeVars
    BY BrokerStepIsStoreStep
  <1> QED
    BY <1>1, <1>2, BrokerTyped, PTL DEF Spec, StoreSpec

-----------------------------------------------------------------------------
(* The registry.  The finally clause pops what the key holds now; that this  *)
(* is the leader's own future needs the second conjunct of the property, and *)
(* that a leader stays one from its registration to its wait needs to know   *)
(* whose future it is going to wait on.                                      *)

RegistryInv ==
    /\ RegistryConsistent
    /\ \A r \in Requests : rpc[r] \in {"creating", "broadcast"} => ron[r] = r

\* A step that leaves the registry, the keys and who is leading alone.
LEMMA SameLeaders ==
    ASSUME RegistryInv,
           UNCHANGED <<pendingByDomain, approvalFutures, rkey>>,
           \A r \in Requests :
              /\ (r \in Leading)' <=> r \in Leading
              /\ rpc'[r] \in {"creating", "broadcast"} => ron'[r] = r
    PROVE  RegistryInv'
  <1>1. Leading' = Leading
    BY DEF Leading
  <1> QED
    BY <1>1 DEF RegistryInv, RegistryConsistent

\* A leader leaves: both entries are its own.
LEMMA LeaderPops ==
    ASSUME BrokerOwnTypes, RegistryInv, NEW r \in Leading, PopBoth(r),
           UNCHANGED <<rkey, ron>>, Goto(r, "done")
    PROVE  RegistryInv'
  <1> USE DEF BrokerOwnTypes
  <1>1. r \in Requests
    BY DEF Leading
  <1>2. Leading' = Leading \ {r}
    BY <1>1 DEF Goto, Leading
  <1>3. approvalFutures' = Leading'
    BY <1>2 DEF PopBoth, RegistryInv, RegistryConsistent
  <1>4. ASSUME NEW k \in Keys, NEW q \in Requests
        PROVE  pendingByDomain'[k] = q <=> q \in Leading' /\ rkey'[q] = k
    <2>1. CASE k = rkey[r]
      <3>1. pendingByDomain[k] = r
        BY <1>1, <2>1 DEF RegistryInv, RegistryConsistent
      <3>2. pendingByDomain'[k] = None
        BY <2>1 DEF PopBoth
      <3> QED
        BY <1>2, <3>1, <3>2, NoneIsNoRequest DEF RegistryInv, RegistryConsistent
    <2>2. CASE k # rkey[r]
      <3>1. pendingByDomain'[k] = pendingByDomain[k]
        BY <2>2 DEF PopBoth
      <3> QED
        BY <1>2, <2>2, <3>1 DEF RegistryInv, RegistryConsistent
    <2> QED
      BY <2>1, <2>2
  <1> QED
    BY <1>1, <1>3, <1>4 DEF Goto, RegistryInv, RegistryConsistent

LEMMA RegistryStep ==
    ASSUME BrokerOwnTypes, RegistryInv, [Next]_vars PROVE RegistryInv'
  <1> USE DEF BrokerOwnTypes, registryVars, requestVars, decideVars, Goto, Leading
  <1>1. CASE UNCHANGED brokerVars
    BY <1>1, SameLeaders DEF brokerVars, RegistryInv
  <1>2. ASSUME NEW r \in Requests, NEW k \in Keys, Arrive(r, k) PROVE RegistryInv'
    <2>1. r \notin Leading
      BY <1>2 DEF Arrive
    <2>2. Leading' = Leading
      BY <1>2 DEF Arrive
    <2> QED
      BY <1>2, <2>1, <2>2 DEF Arrive, RegistryInv, RegistryConsistent
  <1>3. ASSUME NEW r \in Requests, ReadDecision(r) \/ AnswerStored(r) PROVE RegistryInv'
    BY <1>3, SameLeaders DEF ReadDecision, AnswerStored, RegistryInv
  <1>4. ASSUME NEW r \in Requests, Join(r) PROVE RegistryInv'
    <2>1. pendingByDomain[rkey[r]] # r
      BY <1>4 DEF Join, RegistryInv, RegistryConsistent
    <2> QED
      BY <1>4, <2>1, SameLeaders DEF Join, RegistryInv
  <1>5. ASSUME NEW r \in Requests, Lead(r) PROVE RegistryInv'
    <2>1. Leading' = Leading \cup {r}
      BY <1>5 DEF Lead
    <2>2. \A q \in Leading : rkey[q] # rkey[r]
      BY <1>5, NoneIsNoRequest DEF Lead, RegistryInv, RegistryConsistent
    <2>3. r \notin Leading
      BY <1>5 DEF Lead
    <2> HIDE DEF Leading
    <2> QED
      BY <1>5, <2>1, <2>2, <2>3 DEF Lead, RegistryInv, RegistryConsistent
  <1>6. ASSUME NEW r \in Requests, CreateRow(r) \/ EndBroadcast(r) PROVE RegistryInv'
    BY <1>6, SameLeaders DEF CreateRow, EndBroadcast, RegistryInv
  <1>7. ASSUME NEW r \in Requests, CreateFails(r) PROVE RegistryInv'
    BY <1>7, LeaderPops DEF CreateFails
  <1>8. ASSUME NEW r \in Requests, NEW t \in Tabs, Deliver(r, t) PROVE RegistryInv'
    BY <1>8, SameLeaders DEF Deliver, RegistryInv
  <1>9. ASSUME NEW r \in Requests, Awaken(r) \/ Expire(r) PROVE RegistryInv'
    <2>1. PICK how : rpc[r] = "waiting" /\ Return(r, how)
      BY <1>9 DEF Awaken, Expire
    <2>2. CASE ron[r] = r
      BY <2>1, <2>2, LeaderPops DEF Return
    <2>3. CASE ron[r] # r
      BY <2>1, <2>3, SameLeaders DEF Return, RegistryInv
    <2> QED
      BY <2>2, <2>3
  <1>10. ASSUME NEW e \in Edits, NEW t \in Tabs, NEW v \in Verdicts, NEW p \in BOOLEAN,
                NEW a \in popups[t], Click(e, t, a, v, p)
         PROVE  RegistryInv'
    BY <1>10, SameLeaders DEF Click, RegistryInv
  <1>11. ASSUME NEW e \in Edits, DecideStep(e) PROVE RegistryInv'
    BY <1>11, SameLeaders DEF DecideStep, ResolveRow, ResolveFails, PersistFails, Settle,
       Dismiss, RegistryInv
  <1>12. CASE Restart
    <2>1. Leading' = {}
      BY <1>12 DEF Restart
    <2> QED
      BY <1>12, <2>1, NoneIsNoRequest DEF Restart, RegistryInv, RegistryConsistent
  <1>13. CASE UNCHANGED vars
    BY <1>1, <1>13 DEF vars
  <1>14. ASSUME NEW t \in Tabs, Reload(t) PROVE RegistryInv'
    BY <1>14, SameLeaders DEF Reload, RegistryInv
  <1> HIDE DEF BrokerOwnTypes, Leading
  <1> QED
    BY <1>1, <1>2, <1>3, <1>4, <1>5, <1>6, <1>7, <1>8, <1>9, <1>10, <1>11, <1>12, <1>13,
       <1>14
       DEF Next, Ask, Clicked, RequestStep

LEMMA RegistryInit == BrokerInit => RegistryInv
  <1> SUFFICES ASSUME BrokerInit PROVE RegistryInv
    OBVIOUS
  <1>1. Leading = {}
    BY DEF BrokerInit, Leading
  <1> QED
    BY <1>1, NoneIsNoRequest DEF BrokerInit, RegistryInv, RegistryConsistent

\* The two dictionaries hold the futures of the requests that are leading, and
\* nothing else, in every reachable state.
THEOREM RegistryKept == Spec => []RegistryConsistent
  <1>1. BrokerInit => RegistryInv
    BY RegistryInit
  <1>2. BrokerTypeOK /\ RegistryInv /\ [Next]_vars => RegistryInv'
    BY RegistryStep, TypesSplit
  <1>3. RegistryInv => RegistryConsistent
    BY DEF RegistryInv
  <1> QED
    BY <1>1, <1>2, <1>3, BrokerTyped, PTL DEF Spec

-----------------------------------------------------------------------------
(* Consent.  A verdict on its way to a request, in a decide call, in a        *)
(* future or in what the request read from the table, was spoken for the      *)
(* request's own key; and whatever names a request came after its arrival,    *)
(* so that the key cannot change any more.                                    *)

Deciding(e) == dpc[e] \in {"resolving", "persisting", "settling"}

ConsentInv ==
    /\ \A r \in Requests :
        /\ rpc[r] = "checking" /\ seen[r] # "none" => <<rkey[r], seen[r]>> \in spoken
        /\ fut[r] # "none" => rpc[r] # "idle"
        /\ fut[r] \in Verdicts => <<rkey[r], fut[r]>> \in spoken
        /\ rpc[r] = "waiting" =>
            /\ ron[r] \in Requests
            /\ rpc[ron[r]] # "idle"
            /\ rkey[ron[r]] = rkey[r]
        /\ r \in rows => rpc[r] # "idle"
        /\ rpc[r] = "broadcast" => r \in rows
    /\ \A e \in Edits : Deciding(e) =>
        /\ dapp[e] \in Requests
        /\ rpc[dapp[e]] # "idle"
        /\ <<rkey[dapp[e]], dverdict[e]>> \in spoken
    /\ PopupsHaveRows

LEMMA SpokenGrows == ASSUME [StoreNext]_storeVars PROVE spoken \subseteq spoken'
  <1> USE DEF tableVars, startVars, editVars
  <1>1. CASE StartStep
    BY <1>1 DEF StartStep, StartSandbox, StartFails, LoadDecision, LoadFails, FinishStart
  <1>2. CASE EditStep
    BY <1>2 DEF EditStep, StoreVerdict, StoreFails, ReadTable, ReadFails, WriteFile,
       WriteFileFails
  <1>3. CASE PutStep \/ AnswerStep
    BY <1>3 DEF PutStep, AnswerStep, Put, Say, Decide
  <1>4. CASE Commit \/ StoreRestart \/ FaultElsewhere \/ UNCHANGED storeVars
    BY <1>4 DEF Commit, StoreRestart, FaultElsewhere, storeVars
  <1> QED
    BY <1>1, <1>2, <1>3, <1>4 DEF StoreNext

\* A step of one request on its own future, the table and the popups.
LEMMA ConsentRequestStep ==
    ASSUME BrokerOwnTypes, DecisionsSpoken, RegistryInv, ConsentInv,
           NEW r \in Requests, RequestStep(r), spoken \subseteq spoken'
    PROVE  ConsentInv'
  <1> USE DEF BrokerOwnTypes, ConsentInv, Deciding, PopupsHaveRows, registryVars,
              requestVars, decideVars, Goto, PopBoth
  <1>1. CASE ReadDecision(r)
    BY <1>1 DEF ReadDecision, DecisionsSpoken
  <1>2. CASE AnswerStored(r)
    BY <1>2 DEF AnswerStored
  <1>3. CASE Join(r)
    <2>1. PICK q \in Requests : q \in Leading /\ rkey[q] = rkey[r] /\ ron'[r] = q
      BY <1>3 DEF Join, RegistryInv, RegistryConsistent
    <2>2. rpc[q] # "idle"
      BY <2>1 DEF Leading
    <2> QED
      BY <1>3, <2>1, <2>2 DEF Join
  <1>4. CASE Lead(r)
    BY <1>4 DEF Lead
  <1>5. CASE CreateRow(r)
    BY <1>5 DEF CreateRow
  <1>6. CASE CreateFails(r)
    BY <1>6 DEF CreateFails
  <1>7. ASSUME NEW t \in Tabs, Deliver(r, t) PROVE ConsentInv'
    BY <1>7 DEF Deliver
  <1>8. CASE EndBroadcast(r)
    BY <1>8 DEF EndBroadcast, RegistryInv
  <1>9. CASE Awaken(r) \/ Expire(r)
    <2>1. PICK how : rpc[r] = "waiting" /\ Return(r, how)
      BY <1>9 DEF Awaken, Expire
    <2> QED
      BY <2>1 DEF Return
  <1> HIDE DEF BrokerOwnTypes, ConsentInv
  <1> QED
    BY <1>1, <1>2, <1>3, <1>4, <1>5, <1>6, <1>7, <1>8, <1>9 DEF RequestStep

LEMMA ConsentStep ==
    ASSUME BrokerTypeOK, DecisionsSpoken, RegistryInv, ConsentInv, [Next]_vars
    PROVE  ConsentInv'
  <1> USE DEF BrokerOwnTypes, ConsentInv, Deciding, PopupsHaveRows, registryVars,
              requestVars, decideVars, DecideGoto
  <1>1. BrokerOwnTypes /\ spoken \subseteq spoken'
    BY BrokerStepIsStoreStep, SpokenGrows, TypesSplit
  <1>2. CASE UNCHANGED brokerVars
    BY <1>1, <1>2 DEF brokerVars
  <1>3. ASSUME NEW r \in Requests, NEW k \in Keys, Arrive(r, k) PROVE ConsentInv'
    BY <1>1, <1>3 DEF Arrive, Goto
  <1>4. ASSUME NEW e \in Edits, NEW t \in Tabs, NEW v \in Verdicts, NEW p \in BOOLEAN,
               NEW a \in popups[t], Click(e, t, a, v, p)
        PROVE  ConsentInv'
    <2>1. a \in Requests /\ rpc[a] # "idle"
      BY <1>1
    <2>2. <<rkey[a], v>> \in spoken'
      BY <1>4 DEF Click, Say
    <2> QED
      BY <1>1, <1>4, <2>1, <2>2 DEF Click
  <1>5. ASSUME NEW e \in Edits, DecideStep(e) PROVE ConsentInv'
    <2>1. CASE ResolveRow(e)
      BY <1>1, <2>1 DEF ResolveRow
    <2>2. CASE ResolveFails(e)
      BY <1>1, <2>2 DEF ResolveFails
    <2>3. CASE PersistFails(e)
      BY <1>1, <2>3 DEF PersistFails
    <2>4. CASE Settle(e)
      <3>1. Deciding(e)
        BY <2>4 DEF Settle, ReadyToSettle
      <3> QED
        BY <1>1, <2>4, <3>1 DEF Settle
    <2>5. CASE Dismiss(e)
      BY <1>1, <2>5 DEF Dismiss
    <2> HIDE DEF BrokerOwnTypes, ConsentInv
    <2> QED
      BY <1>5, <2>1, <2>2, <2>3, <2>4, <2>5 DEF DecideStep
  <1>6. CASE Restart
    BY <1>1, <1>6 DEF Restart
  <1>7. CASE UNCHANGED vars
    BY <1>2, <1>7 DEF vars
  <1>8. ASSUME NEW t \in Tabs, Reload(t) PROVE ConsentInv'
    BY <1>1, <1>8 DEF Reload
  <1> HIDE DEF BrokerOwnTypes, ConsentInv
  <1> QED
    BY <1>1, <1>2, <1>3, <1>4, <1>5, <1>6, <1>7, <1>8, ConsentRequestStep
       DEF Next, Ask, Clicked

ConsentIInv == RegistryInv /\ ConsentInv

\* Registry and consent together are inductive.
LEMMA ConsentKept == Spec => []ConsentIInv
  <1>1. BrokerInit => ConsentIInv
    <2> SUFFICES ASSUME BrokerInit PROVE ConsentIInv
      OBVIOUS
    <2>1. ConsentInv
      BY DEF BrokerInit, ConsentInv, Deciding, PopupsHaveRows
    <2> QED
      BY <2>1, RegistryInit DEF ConsentIInv
  <1>2. BrokerTypeOK /\ DecisionsSpoken /\ ConsentIInv /\ [Next]_vars => ConsentIInv'
    BY RegistryStep, ConsentStep, TypesSplit DEF ConsentIInv
  <1> QED
    BY <1>1, <1>2, BrokerTyped, BrokerUsesStore, StoredAreSpoken, PTL DEF Spec

\* A popup never outlives its row, so that a click on it finds the approval.
THEOREM PopupsAnswerable == Spec => []PopupsHaveRows
  <1>1. ConsentIInv => PopupsHaveRows
    BY DEF ConsentIInv, ConsentInv
  <1> QED
    BY <1>1, ConsentKept, PTL

-----------------------------------------------------------------------------
(* Refinement: every step of the broker is a step of the gate or leaves the   *)
(* gate's variables alone.                                                    *)

GateStep == [Gate!GateNext]_Gate!gateVars

LEMMA GateStutters ==
    ASSUME UNCHANGED <<rkey, spoken>>, \A r \in Requests : Status(r)' = Status(r)
    PROVE  GateStep
  BY DEF GateStep, Gate!gateVars

LEMMA GateSpeaks ==
    ASSUME UNCHANGED rkey, \A r \in Requests : Status(r)' = Status(r),
           spoken \subseteq spoken', spoken' \in SUBSET (Keys \X Verdicts)
    PROVE  GateStep
  <1>1. spoken' = spoken \cup spoken'
    OBVIOUS
  <1>2. Gate!Speak(spoken')
    BY <1>1 DEF Gate!Speak
  <1> HIDE DEF Keys, Verdicts
  <1> QED
    BY <1>2 DEF GateStep, Gate!GateNext

\* An open request gets an answer, and nothing else happens.
LEMMA GateAnswers ==
    ASSUME NEW r \in Requests, Status(r) = "open", UNCHANGED <<rkey, spoken>>,
           \A q \in Requests : q # r => Status(q)' = Status(q),
           \/ Status(r)' = "blocked"
           \/ Status(r)' \in Verdicts /\ <<rkey[r], Status(r)'>> \in spoken
    PROVE  GateStep
  <1>1. [q \in Requests |-> Status(q)'] =
            [[q \in Requests |-> Status(q)] EXCEPT ![r] = Status(r)']
    OBVIOUS
  <1>2. CASE Status(r)' = "blocked"
    <2>1. Gate!Block(r)
      BY <1>1, <1>2 DEF Gate!Block
    <2> QED
      BY <2>1 DEF GateStep, Gate!GateNext
  <1>3. CASE Status(r)' \in Verdicts /\ <<rkey[r], Status(r)'>> \in spoken
    <2>1. Gate!Answer(r, Status(r)')
      BY <1>1, <1>3 DEF Gate!Answer
    <2> HIDE DEF Verdicts
    <2> QED
      BY <1>3, <2>1 DEF GateStep, Gate!GateNext
  <1> QED
    BY <1>2, <1>3

LEMMA GateRequestStep ==
    ASSUME BrokerOwnTypes, ConsentInv, NEW r \in Requests, RequestStep(r)
    PROVE  GateStep
  <1> USE DEF BrokerOwnTypes, Goto, Status, storeVars, tableVars
  <1>1. UNCHANGED <<rkey, spoken>>
    BY DEF RequestStep, ReadDecision, AnswerStored, Join, Lead, CreateRow, CreateFails,
       Commit, Deliver, EndBroadcast, Awaken, Expire, Return
  <1>2. CASE ReadDecision(r) \/ Join(r) \/ Lead(r) \/ CreateRow(r) \/ EndBroadcast(r)
    <2>1. \A q \in Requests : Status(q)' = Status(q)
      BY <1>2 DEF ReadDecision, Join, Lead, CreateRow, EndBroadcast
    <2> QED
      BY <1>1, <2>1, GateStutters
  <1>3. ASSUME NEW t \in Tabs, Deliver(r, t) PROVE GateStep
    <2>1. \A q \in Requests : Status(q)' = Status(q)
      BY <1>3 DEF Deliver
    <2> QED
      BY <1>1, <2>1, GateStutters
  <1>4. CASE AnswerStored(r)
    <2>1. Status(r) = "open" /\ Status(r)' = seen[r] /\ seen[r] \in Verdicts
      BY <1>4 DEF AnswerStored
    <2>2. \A q \in Requests : q # r => Status(q)' = Status(q)
      BY <1>4 DEF AnswerStored
    <2>3. <<rkey[r], seen[r]>> \in spoken
      BY <1>4 DEF AnswerStored, ConsentInv
    <2> HIDE DEF Status
    <2> QED
      BY <1>1, <2>1, <2>2, <2>3, GateAnswers
  <1>5. CASE CreateFails(r)
    <2>1. Status(r) = "open" /\ Status(r)' = "blocked"
      BY <1>5 DEF CreateFails
    <2>2. \A q \in Requests : q # r => Status(q)' = Status(q)
      BY <1>5 DEF CreateFails
    <2> HIDE DEF Status
    <2> QED
      BY <1>1, <2>1, <2>2, GateAnswers
  <1>6. CASE Awaken(r)
    <2>1. Status(r) = "open" /\ Status(r)' = fut[ron[r]] /\ fut[ron[r]] \in Verdicts
      BY <1>6 DEF Awaken, Return
    <2>2. \A q \in Requests : q # r => Status(q)' = Status(q)
      BY <1>6 DEF Awaken, Return
    <2>3. <<rkey[r], fut[ron[r]]>> \in spoken
      BY <1>6 DEF Awaken, ConsentInv
    <2> HIDE DEF Status
    <2> QED
      BY <1>1, <2>1, <2>2, <2>3, GateAnswers
  <1>7. CASE Expire(r)
    <2>1. Status(r) = "open" /\ Status(r)' = "blocked"
      BY <1>7 DEF Expire, Return
    <2>2. \A q \in Requests : q # r => Status(q)' = Status(q)
      BY <1>7 DEF Expire, Return
    <2> HIDE DEF Status
    <2> QED
      BY <1>1, <2>1, <2>2, GateAnswers
  <1> HIDE DEF BrokerOwnTypes, Status
  <1> QED
    BY <1>2, <1>3, <1>4, <1>5, <1>6, <1>7 DEF RequestStep

LEMMA GateNextStep ==
    ASSUME BrokerTypeOK, BrokerTypeOK', ConsentInv, [Next]_vars
    PROVE  GateStep
  <1> USE DEF registryVars, requestVars, decideVars
  <1>1. BrokerOwnTypes /\ spoken \subseteq spoken' /\ spoken' \in SUBSET (Keys \X Verdicts)
    <2>1. (BrokerTypeOK => StoreTypeOK)'
      BY TypesSplit, PTL
    <2> QED
      BY <2>1, BrokerStepIsStoreStep, SpokenGrows, TypesSplit DEF StoreTypeOK
  <1>2. ASSUME UNCHANGED <<rpc, rkey, reply>> PROVE GateStep
    BY <1>1, <1>2, GateSpeaks DEF Status
  <1>3. ASSUME NEW r \in Requests, NEW k \in Keys, Arrive(r, k) PROVE GateStep
    <2>1. Status(r) = "idle" /\ Status(r)' = "open"
      BY <1>1, <1>3 DEF Arrive, Status, Goto, BrokerOwnTypes
    <2>2. \A q \in Requests : q # r => Status(q)' = Status(q)
      BY <1>1, <1>3 DEF Arrive, Status, Goto, BrokerOwnTypes
    <2>3. [q \in Requests |-> Status(q)'] =
            [[q \in Requests |-> Status(q)] EXCEPT ![r] = "open"]
      BY <2>1, <2>2
    <2>4. Gate!Ask(r, k)
      BY <1>3, <2>1, <2>3 DEF Arrive, Gate!Ask, storeVars, tableVars
    <2> HIDE DEF Keys
    <2> QED
      BY <2>4 DEF GateStep, Gate!GateNext
  <1>4. CASE Restart
    <2>1. \A q \in Requests :
            Status(q)' = IF Status(q) = "open" THEN "lost" ELSE Status(q)
      BY <1>1, <1>4 DEF Restart, Status, BrokerOwnTypes, RequestPhase
    <2>2. Gate!Lose
      BY <1>4, <2>1 DEF Restart, StoreRestart, tableVars, Gate!Lose
    <2> QED
      BY <2>2 DEF GateStep, Gate!GateNext
  <1>5. CASE UNCHANGED brokerVars
    BY <1>2, <1>5 DEF brokerVars
  <1>6. CASE Clicked
    BY <1>2, <1>6 DEF Clicked, Click
  <1>7. ASSUME NEW e \in Edits, DecideStep(e) PROVE GateStep
    BY <1>2, <1>7 DEF DecideStep, ResolveRow, ResolveFails, PersistFails, Settle, Dismiss
  <1>8. CASE UNCHANGED vars
    BY <1>5, <1>8 DEF vars
  <1>9. ASSUME NEW t \in Tabs, Reload(t) PROVE GateStep
    BY <1>2, <1>9 DEF Reload
  <1> QED
    BY <1>1, <1>3, <1>4, <1>5, <1>6, <1>7, <1>8, <1>9, GateRequestStep DEF Next, Ask

\* The broker implements the gate: a request is answered at most once, and with a
\* verdict only if that verdict was spoken for its own sandbox and domain.
THEOREM GateImplemented == Spec => ImplementsGate
  <1>1. BrokerInit => Gate!GateInit
    <2> SUFFICES ASSUME BrokerInit PROVE Gate!GateInit
      OBVIOUS
    <2>1. rkey \in [Requests -> Keys]
      BY InitTypes DEF BrokerOwnTypes
    <2>2. \A r \in Requests : Status(r) = "idle"
      BY DEF BrokerInit, Status
    <2> QED
      BY <2>1, <2>2 DEF BrokerInit, StoreInit, Gate!GateInit
  <1>2. BrokerTypeOK /\ BrokerTypeOK' /\ ConsentIInv /\ [Next]_vars
            => [Gate!GateNext]_Gate!gateVars
    BY GateNextStep DEF ConsentIInv, GateStep
  <1> QED
    BY <1>1, <1>2, BrokerTyped, ConsentKept, PTL DEF Spec, ImplementsGate, Gate!GateSpec

-----------------------------------------------------------------------------
(* An "Always" applies at once.  A call that has been answered 200 has gone   *)
(* through an edit that stored a decision for its key; decisions are not      *)
(* withdrawn, so a request that arrives later reads one.                      *)

Called(e) == dpc[e] # "idle"

AppliesInv ==
    /\ \A e \in Edits : Called(e) => dapp[e] \in Requests /\ rpc[dapp[e]] # "idle"
    /\ \A e \in Edits : dpc[e] = "settling" => ~dperm[e]
    /\ \A e \in Edits : dpc[e] = "persisting" =>
        epc[e] # "idle" /\ ekey[e] = rkey[dapp[e]]
    /\ \A e \in Edits : dpc[e] \in {"done", "closed"} /\ dperm[e] =>
        committed[rkey[dapp[e]]] # "none"
    /\ \A r \in late :
        /\ rpc[r] \notin {"idle", "creating", "broadcast", "waiting"}
        /\ rpc[r] = "reading" => committed[rkey[r]] # "none"
        /\ rpc[r] = "checking" => seen[r] # "none"

\* An edit under way keeps its key.
LEMMA EditKeepsKey ==
    ASSUME StoreTypeOK, [StoreNext]_storeVars, NEW e \in Edits, epc[e] # "idle"
    PROVE  epc'[e] # "idle" /\ ekey'[e] = ekey[e]
  <1> USE DEF tableVars, startVars, editVars, StoreTypeOK
  <1>1. CASE StartStep
    BY <1>1 DEF StartStep, StartSandbox, StartFails, LoadDecision, LoadFails, FinishStart
  <1>2. CASE EditStep
    <2>1. ASSUME NEW x \in Edits, StoreVerdict(x) \/ StoreFails(x)
          PROVE  epc'[e] # "idle" /\ ekey'[e] = ekey[e]
      BY <2>1 DEF StoreVerdict, StoreFails
    <2>2. ASSUME NEW x \in Edits, ReadTable(x) \/ ReadFails(x)
          PROVE  epc'[e] # "idle" /\ ekey'[e] = ekey[e]
      BY <2>2 DEF ReadTable, ReadFails
    <2>3. CASE WriteFile \/ WriteFileFails
      BY <2>3, HeadType DEF WriteFile, WriteFileFails
    <2> QED
      BY <1>2, <2>1, <2>2, <2>3 DEF EditStep
  <1>3. ASSUME NEW x \in Edits, NEW k \in Keys, NEW v \in Verdicts,
               Put(x, k, v) \/ Decide(x, k, v)
        PROVE  epc'[e] # "idle" /\ ekey'[e] = ekey[e]
    BY <1>3 DEF Put, Decide, BeginEdit
  <1>4. ASSUME NEW k \in Keys, NEW v \in Verdicts, Say(k, v)
        PROVE  epc'[e] # "idle" /\ ekey'[e] = ekey[e]
    BY <1>4 DEF Say
  <1>5. CASE Commit \/ StoreRestart \/ FaultElsewhere \/ UNCHANGED storeVars
    BY <1>5 DEF Commit, StoreRestart, FaultElsewhere, storeVars
  <1> HIDE DEF StoreTypeOK
  <1> QED
    BY <1>1, <1>2, <1>3, <1>4, <1>5 DEF StoreNext, PutStep, AnswerStep

LEMMA AppliesStep ==
    ASSUME BrokerTypeOK, SpokenInv, FilingKept, ConsentInv, AppliesInv, [Next]_vars
    PROVE  AppliesInv'
  <1> USE DEF registryVars, requestVars, decideVars, DecideGoto, Called
  <1>1. BrokerOwnTypes /\ StoreTypeOK
    BY TypesSplit
  <1>2. \A k \in Keys : committed[k] # "none" => committed'[k] # "none"
    BY <1>1, BrokerStepIsStoreStep, DecisionsStay
  <1>3. \A k \in Keys : committed[k] # "none" => decision[k] # "none"
    BY DEF SpokenInv
  <1>4. \A e \in Edits : dpc[e] \in {"done", "closed"} /\ dperm[e] =>
             committed'[rkey[dapp[e]]] # "none"
    <2>1. \A e \in Edits : Called(e) => rkey[dapp[e]] \in Keys
      BY <1>1 DEF AppliesInv, BrokerOwnTypes
    <2> QED
      BY <1>2, <2>1 DEF AppliesInv
  <1>5. \A r \in late : rpc[r] = "reading" => committed'[rkey[r]] # "none"
    BY <1>1, <1>2 DEF AppliesInv, BrokerOwnTypes
  <1>6. \A e \in Edits : epc[e] # "idle" => epc'[e] # "idle" /\ ekey'[e] = ekey[e]
    BY <1>1, BrokerStepIsStoreStep, EditKeepsKey
  <1>7. CASE UNCHANGED brokerVars
    BY <1>1, <1>2, <1>6, <1>7 DEF brokerVars, AppliesInv, BrokerOwnTypes
  <1>8. ASSUME NEW r \in Requests, NEW k \in Keys, Arrive(r, k) PROVE AppliesInv'
    <2>1. \A e \in Edits : Called(e) => rkey'[dapp[e]] = rkey[dapp[e]]
      BY <1>1, <1>8 DEF Arrive, AppliesInv, BrokerOwnTypes
    <2>2. Acknowledged(k) => committed[k] # "none"
      BY DEF Acknowledged, AppliesInv
    <2>3. UNCHANGED <<committed, epc, ekey, decideVars, seen>> /\ rpc[r] = "idle"
      BY <1>8 DEF Arrive, storeVars, tableVars, editVars
    <2>4. \A q \in late : q # r
      BY <2>3 DEF AppliesInv
    <2> QED
      BY <1>1, <1>8, <2>1, <2>2, <2>3, <2>4 DEF Arrive, Goto, AppliesInv, BrokerOwnTypes
  <1>9. ASSUME NEW r \in Requests, RequestStep(r) PROVE AppliesInv'
    <2>1. UNCHANGED <<epc, ekey, decideVars, rkey, late>>
      BY <1>9 DEF RequestStep, ReadDecision, AnswerStored, Join, Lead, CreateRow,
         CreateFails, Commit, Deliver, EndBroadcast, Awaken, Expire, Return, storeVars,
         tableVars, editVars
    <2>2. /\ rpc[r] # "idle" /\ rpc'[r] # "idle"
          /\ \A q \in Requests : q # r => rpc'[q] = rpc[q] /\ seen'[q] = seen[q]
          /\ r \in late =>
              /\ rpc'[r] \notin {"reading", "creating", "broadcast", "waiting"}
              /\ rpc'[r] = "checking" => seen'[r] # "none"
      <3> USE DEF Goto, BrokerOwnTypes
      <3>1. CASE ReadDecision(r)
        BY <1>1, <1>3, <3>1 DEF ReadDecision, AppliesInv
      <3>2. CASE AnswerStored(r) \/ Join(r) \/ Lead(r)
        BY <1>1, <3>2 DEF AnswerStored, Join, Lead, AppliesInv
      <3>3. CASE CreateRow(r) \/ CreateFails(r) \/ EndBroadcast(r)
        BY <1>1, <3>3 DEF CreateRow, CreateFails, EndBroadcast, AppliesInv
      <3>4. ASSUME NEW t \in Tabs, Deliver(r, t)
              PROVE  /\ rpc[r] # "idle" /\ rpc'[r] # "idle"
                     /\ \A q \in Requests : q # r => rpc'[q] = rpc[q] /\ seen'[q] = seen[q]
                     /\ r \in late =>
                         /\ rpc'[r] \notin {"reading", "creating", "broadcast", "waiting"}
                         /\ rpc'[r] = "checking" => seen'[r] # "none"
        BY <1>1, <3>4 DEF Deliver, AppliesInv
      <3>5. CASE Awaken(r) \/ Expire(r)
        BY <1>1, <3>5 DEF Awaken, Expire, Return, AppliesInv
      <3> HIDE DEF BrokerOwnTypes
      <3> QED
        BY <1>9, <3>1, <3>2, <3>3, <3>4, <3>5 DEF RequestStep
    <2> QED
      BY <1>1, <1>4, <1>5, <2>1, <2>2 DEF AppliesInv, BrokerOwnTypes
  <1>10. ASSUME NEW e \in Edits, NEW t \in Tabs, NEW v \in Verdicts, NEW p \in BOOLEAN,
               NEW a \in popups[t], Click(e, t, a, v, p)
        PROVE  AppliesInv'
    <2>1. a \in Requests /\ rpc[a] # "idle"
      BY <1>1 DEF ConsentInv, PopupsHaveRows, BrokerOwnTypes
    <2>2. UNCHANGED <<committed, epc, ekey>>
      BY <1>10 DEF Click, Say, editVars
    <2> QED
      BY <1>1, <1>10, <2>1, <2>2 DEF Click, AppliesInv, BrokerOwnTypes
  <1>11. ASSUME NEW e \in Edits, ResolveRow(e) PROVE AppliesInv'
    <2>1. CASE dperm[e]
      <3>1. epc'[e] # "idle" /\ ekey'[e] = rkey[dapp[e]]
        BY <1>1, <1>11, <2>1 DEF ResolveRow, Decide, BeginEdit, tableVars, StoreTypeOK
      <3>2. dpc[e] = "resolving" /\ dpc' \in {[dpc EXCEPT ![e] = "persisting"],
                                              [dpc EXCEPT ![e] = "settling"]}
        BY <1>11 DEF ResolveRow
      <3>3. dpc'[e] = "settling" => ~dperm[e]
        BY <1>1, <1>11 DEF ResolveRow, BrokerOwnTypes
      <3>4. UNCHANGED <<rpc, rkey, seen, late, dapp, dperm>>
        BY <1>11 DEF ResolveRow
      <3>5. \A x \in Edits : dpc'[x] = "persisting" =>
                epc'[x] # "idle" /\ ekey'[x] = rkey[dapp[x]]
        BY <1>1, <1>6, <3>1, <3>2 DEF AppliesInv, BrokerOwnTypes
      <3> QED
        BY <1>1, <1>4, <1>5, <3>1, <3>2, <3>3, <3>4, <3>5 DEF AppliesInv, BrokerOwnTypes
    <2>2. CASE ~dperm[e]
      <3>1. /\ UNCHANGED <<epc, ekey, rpc, rkey, seen, late, dapp, dperm>>
            /\ dpc' = [dpc EXCEPT ![e] = "settling"]
        BY <1>11, <2>2 DEF ResolveRow, Commit, editVars
      <3>2. dpc[e] = "resolving"
        BY <1>11 DEF ResolveRow
      <3> QED
        BY <1>1, <1>4, <1>5, <2>2, <3>1, <3>2 DEF AppliesInv, BrokerOwnTypes
    <2> QED
      BY <2>1, <2>2
  <1>12. ASSUME NEW e \in Edits, ResolveFails(e) \/ PersistFails(e) PROVE AppliesInv'
    BY <1>1, <1>12 DEF ResolveFails, PersistFails, AppliesInv, BrokerOwnTypes, storeVars,
       tableVars, editVars
  <1>13. ASSUME NEW e \in Edits, Settle(e) PROVE AppliesInv'
    <2>1. dperm[e] => committed[rkey[dapp[e]]] # "none"
      BY <1>13 DEF Settle, ReadyToSettle, AppliesInv, FilingKept
    <2>2. Called(e)
      BY <1>13 DEF Settle, ReadyToSettle
    <2> QED
      BY <1>1, <1>13, <2>1, <2>2 DEF Settle, AppliesInv, BrokerOwnTypes, storeVars,
         tableVars, editVars
  <1>14. ASSUME NEW e \in Edits, Dismiss(e) PROVE AppliesInv'
    BY <1>1, <1>14 DEF Dismiss, AppliesInv, BrokerOwnTypes, storeVars, tableVars, editVars
  <1>15. CASE Restart
    BY <1>1, <1>6, <1>15 DEF Restart, StoreRestart, tableVars, AppliesInv, BrokerOwnTypes
  <1>16. CASE UNCHANGED vars
    BY <1>7, <1>16 DEF vars
  <1>17. ASSUME NEW t \in Tabs, Reload(t) PROVE AppliesInv'
    BY <1>17 DEF Reload, AppliesInv, storeVars, tableVars, editVars
  <1> QED
    BY <1>7, <1>8, <1>9, <1>10, <1>11, <1>12, <1>13, <1>14, <1>15, <1>16, <1>17
       DEF Next, Ask, Clicked, DecideStep

\* A request made after an "Always" for its key was acknowledged is never put to
\* the user and never waits.
THEOREM AlwaysHolds == Spec => []AlwaysApplies
  <1>1. BrokerInit => AppliesInv
    BY DEF BrokerInit, AppliesInv, Called
  <1>2. /\ BrokerTypeOK /\ SpokenInv /\ FilingKept /\ ConsentIInv
        /\ AppliesInv /\ [Next]_vars
        => AppliesInv'
    BY AppliesStep DEF ConsentIInv
  <1>3. AppliesInv => AlwaysApplies
    BY DEF AppliesInv, AlwaysApplies
  <1> QED
    BY <1>1, <1>2, <1>3, BrokerTyped, BrokerUsesStore, StoreInvKept, ConsentKept, PTL
       DEF Spec

-----------------------------------------------------------------------------
(* One verdict per approval.  A future that has a verdict keeps it, and those *)
(* who return with a verdict return with the future's; a restart forgets the  *)
(* future, but then nobody waits on it any more and it is not created again.  *)

SharedInv ==
    /\ \A r \in Leading : fut[r] # "none"
    /\ \A r \in Requests : rpc[r] = "waiting" => ron[r] \in Requests /\ fut[ron[r]] # "none"
    /\ \A r \in Requests : ron[r] \in Requests =>
            rpc[ron[r]] \notin {"idle", "reading", "checking"}
    /\ \A r \in Requests : rpc[r] \in {"idle", "reading", "checking"} => ron[r] = None
    /\ \A r \in Requests :
        rpc[r] = "done" /\ reply[r] \in Verdicts /\ ron[r] \in Requests =>
            fut[ron[r]] \in {reply[r], "none"}
    /\ SameVerdict

LEMMA SharedRequestStep ==
    ASSUME BrokerOwnTypes, RegistryInv, SharedInv, NEW r \in Requests, RequestStep(r)
    PROVE  SharedInv'
  <1> USE NoneIsNoRequest DEF BrokerOwnTypes, SharedInv, SameVerdict, Leading, Goto,
              registryVars, requestVars
  <1>1. CASE ReadDecision(r)
    BY <1>1 DEF ReadDecision
  <1>2. CASE AnswerStored(r)
    BY <1>2 DEF AnswerStored
  <1>3. CASE Join(r)
    <2>1. PICK q \in Requests : q \in Leading /\ ron'[r] = q
      BY <1>3 DEF Join, RegistryInv, RegistryConsistent
    <2>2. fut[q] # "none" /\ rpc[q] \notin {"idle", "reading", "checking"}
      BY <2>1
    <2> QED
      BY <1>3, <2>1, <2>2 DEF Join
  <1>4. CASE Lead(r)
    BY <1>4 DEF Lead
  <1>5. CASE CreateRow(r) \/ EndBroadcast(r)
    BY <1>5 DEF CreateRow, EndBroadcast, RegistryInv
  <1>6. CASE CreateFails(r)
    BY <1>6 DEF CreateFails, PopBoth
  <1>7. ASSUME NEW t \in Tabs, Deliver(r, t) PROVE SharedInv'
    BY <1>7 DEF Deliver
  <1>8. CASE Awaken(r)
    BY <1>8 DEF Awaken, Return, PopBoth
  <1>9. CASE Expire(r)
    BY <1>9 DEF Expire, Return, PopBoth
  <1> HIDE DEF BrokerOwnTypes, SharedInv
  <1> QED
    BY <1>1, <1>2, <1>3, <1>4, <1>5, <1>6, <1>7, <1>8, <1>9 DEF RequestStep

LEMMA SharedStep ==
    ASSUME BrokerOwnTypes, RegistryInv, SharedInv, [Next]_vars PROVE SharedInv'
  <1> USE NoneIsNoRequest DEF BrokerOwnTypes, SharedInv, SameVerdict, Leading,
              registryVars, requestVars
  <1>1. CASE UNCHANGED <<fut, rpc, ron, reply>>
    BY <1>1
  <1>2. ASSUME NEW r \in Requests, NEW k \in Keys, Arrive(r, k) PROVE SharedInv'
    BY <1>2 DEF Arrive, Goto
  <1>3. ASSUME NEW e \in Edits, Settle(e) PROVE SharedInv'
    BY <1>3 DEF Settle
  <1>4. CASE Restart
    BY <1>4 DEF Restart
  <1> HIDE DEF BrokerOwnTypes, SharedInv, SameVerdict, Leading
  <1>5. CASE UNCHANGED brokerVars
    BY <1>1, <1>5 DEF brokerVars
  <1>6. CASE Clicked
    BY <1>1, <1>6 DEF Clicked, Click
  <1>7. ASSUME NEW e \in Edits,
               ResolveRow(e) \/ ResolveFails(e) \/ PersistFails(e) \/ Dismiss(e)
        PROVE  SharedInv'
    BY <1>1, <1>7 DEF ResolveRow, ResolveFails, PersistFails, Dismiss
  <1>8. CASE UNCHANGED vars
    BY <1>5, <1>8 DEF vars
  <1>9. ASSUME NEW t \in Tabs, Reload(t) PROVE SharedInv'
    BY <1>1, <1>9 DEF Reload
  <1> QED
    BY <1>2, <1>3, <1>4, <1>5, <1>6, <1>7, <1>8, <1>9, SharedRequestStep
       DEF Next, Ask, DecideStep

\* Requests that shared an approval never get different verdicts.
THEOREM VerdictShared == Spec => []SameVerdict
  <1>1. BrokerInit => SharedInv
    BY NoneIsNoRequest DEF BrokerInit, SharedInv, SameVerdict, Leading
  <1>2. BrokerTypeOK /\ ConsentIInv /\ SharedInv /\ [Next]_vars => SharedInv'
    BY SharedStep, TypesSplit DEF ConsentIInv
  <1>3. SharedInv => SameVerdict
    BY DEF SharedInv
  <1> QED
    BY <1>1, <1>2, <1>3, BrokerTyped, ConsentKept, PTL DEF Spec
=============================================================================
