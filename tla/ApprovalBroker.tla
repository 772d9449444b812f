-------------------------- MODULE ApprovalBroker --------------------------
(***************************************************************************)
(* The approval broker of server.py: request_approval, which the proxy     *)
(* addon and the gateway call before they let a connection through,        *)
(* decide_approval, which the popups of the browser tabs call, and the     *)
(* popups themselves (App.vue, DomainApproval.vue).  Decisions are kept by *)
(* DecisionStore, which this module extends: a permanent decide call runs  *)
(* an edit of that module and waits for it.                                *)
(*                                                                         *)
(* The first request for a key without a decision leads: it registers a    *)
(* future in two dictionaries, inserts a pending_approvals row, broadcasts *)
(* a popup and waits on the future for 60 s.  Requests for the same key    *)
(* that come while it is registered join: they wait on the same future     *)
(* with 60 s of their own.  An approval and its future are named here by   *)
(* the request that leads them.                                            *)
(*                                                                         *)
(* An action is the code a coroutine runs between two awaits.  Time is not *)
(* modelled: a wait may run out whenever it has begun.                     *)
(***************************************************************************)
EXTENDS DecisionStore

CONSTANTS
    Requests,   \* identities of request-approval calls
    Tabs,       \* browser tabs that listen to the approvals feed
    None        \* no request

ASSUME NoneIsNoRequest == None \notin Requests
ASSUME SomeTab == Tabs # {}

VARIABLES
    pendingByDomain,    \* _pending_by_domain: key -> leader of the registered future
    approvalFutures,    \* _approval_futures: leaders whose future is registered
    fut,                \* the future each leader created
    rows,               \* ids in the pending_approvals table
    rpc,                \* where each request is
    rkey,               \* the key a request is about
    seen,               \* what get_domain_decision returned to it
    ron,                \* whose future it waits on, or waited on
    reply,              \* how it was answered
    tosend,             \* tabs a leader's broadcast has not reached yet
    popups,             \* popups each tab shows
    dpc,                \* where each decide call is; its edit has the same identity
    dapp, dtab,         \* the approval it is about, the tab it came from
    dverdict, dperm,    \* its body: approved, permanent
    late                \* history: requests made after an "Always" for their key
                        \* had been acknowledged

registryVars == <<pendingByDomain, approvalFutures, fut>>
requestVars  == <<rpc, rkey, seen, ron, reply, tosend, late>>
decideVars   == <<dpc, dapp, dtab, dverdict, dperm>>
brokerVars   == <<registryVars, requestVars, decideVars, rows, popups>>
vars         == <<storeVars, brokerVars>>

RequestPhase == {"idle", "reading", "checking", "creating", "broadcast", "waiting",
                 "done", "lost"}
DecidePhase  == {"idle", "resolving", "persisting", "settling", "done", "failed",
                 "closed", "dropped", "lost"}

BrokerTypeOK ==
    /\ StoreTypeOK
    /\ pendingByDomain \in [Keys -> Requests \cup {None}]
    /\ approvalFutures \in SUBSET Requests
    /\ fut \in [Requests -> {"none", "pending"} \cup Verdicts]
    /\ rows \in SUBSET Requests
    /\ rpc \in [Requests -> RequestPhase]
    /\ rkey \in [Requests -> Keys]
    /\ seen \in [Requests -> Entry]
    /\ ron \in [Requests -> Requests \cup {None}]
    /\ reply \in [Requests -> {"none", "expired", "error"} \cup Verdicts]
    /\ tosend \in [Requests -> SUBSET Tabs]
    /\ popups \in [Tabs -> SUBSET Requests]
    /\ dpc \in [Edits -> DecidePhase]
    /\ dapp \in [Edits -> Requests \cup {None}]
    /\ dtab \in [Edits -> Tabs]
    /\ dverdict \in [Edits -> Verdicts]
    /\ dperm \in [Edits -> BOOLEAN]
    /\ late \in SUBSET Requests

BrokerInit ==
    /\ StoreInit
    /\ pendingByDomain = [k \in Keys |-> None]
    /\ approvalFutures = {}
    /\ fut = [r \in Requests |-> "none"]
    /\ rows = {}
    /\ rpc = [r \in Requests |-> "idle"]
    /\ rkey = [r \in Requests |-> CHOOSE k \in Keys : TRUE]
    /\ seen = [r \in Requests |-> "none"]
    /\ ron = [r \in Requests |-> None]
    /\ reply = [r \in Requests |-> "none"]
    /\ tosend = [r \in Requests |-> {}]
    /\ popups = [t \in Tabs |-> {}]
    /\ dpc = [e \in Edits |-> "idle"]
    /\ dapp = [e \in Edits |-> None]
    /\ dtab = [e \in Edits |-> CHOOSE t \in Tabs : TRUE]
    /\ dverdict = [e \in Edits |-> "block"]
    /\ dperm = [e \in Edits |-> FALSE]
    /\ late = {}

Goto(r, phase) == rpc' = [rpc EXCEPT ![r] = phase]

-----------------------------------------------------------------------------
(* POST /api/proxy/request-approval.                                       *)

\* An "Always" about k has been answered 200.
Acknowledged(k) ==
    \E e \in Edits : dpc[e] \in {"done", "closed"} /\ dperm[e] /\ rkey[dapp[e]] = k

\* A sandbox that was launched tries to connect somewhere.
Arrive(r, k) ==
    /\ rpc[r] = "idle"
    /\ sbx[k[1]] \in {"up", "orphan"}
    /\ Goto(r, "reading")
    /\ rkey' = [rkey EXCEPT ![r] = k]
    /\ late' = IF Acknowledged(k) THEN late \cup {r} ELSE late
    /\ UNCHANGED <<storeVars, registryVars, seen, ron, reply, tosend, decideVars,
                   rows, popups>>

\* The database worker reads the decision; the coroutine resumes later.
ReadDecision(r) ==
    /\ rpc[r] = "reading"
    /\ Goto(r, "checking")
    /\ seen' = [seen EXCEPT ![r] = decision[rkey[r]]]
    /\ UNCHANGED <<storeVars, registryVars, rkey, ron, reply, tosend, late, decideVars,
                   rows, popups>>

AnswerStored(r) ==
    /\ rpc[r] = "checking"
    /\ seen[r] # "none"
    /\ Goto(r, "done")
    /\ reply' = [reply EXCEPT ![r] = seen[r]]
    /\ UNCHANGED <<storeVars, registryVars, rkey, seen, ron, tosend, late, decideVars,
                   rows, popups>>

\* Bug for a mutant: requests deduplicated by domain, whatever the sandbox.
JoinByDomain(r) ==
    /\ rpc[r] = "checking"
    /\ seen[r] = "none"
    /\ \E k \in Keys :
        /\ k[2] = rkey[r][2]
        /\ pendingByDomain[k] # None
        /\ ron' = [ron EXCEPT ![r] = pendingByDomain[k]]
    /\ Goto(r, "waiting")
    /\ UNCHANGED <<storeVars, registryVars, rkey, seen, reply, tosend, late, decideVars,
                   rows, popups>>

Join(r) ==
    /\ rpc[r] = "checking"
    /\ seen[r] = "none"
    /\ pendingByDomain[rkey[r]] # None
    /\ ron' = [ron EXCEPT ![r] = pendingByDomain[rkey[r]]]
    /\ Goto(r, "waiting")
    /\ UNCHANGED <<storeVars, registryVars, rkey, seen, reply, tosend, late, decideVars,
                   rows, popups>>

Lead(r) ==
    /\ rpc[r] = "checking"
    /\ seen[r] = "none"
    /\ pendingByDomain[rkey[r]] = None
    /\ ron' = [ron EXCEPT ![r] = r]
    /\ fut' = [fut EXCEPT ![r] = "pending"]
    /\ approvalFutures' = approvalFutures \cup {r}
    /\ pendingByDomain' = [pendingByDomain EXCEPT ![rkey[r]] = r]
    /\ Goto(r, "creating")
    /\ UNCHANGED <<storeVars, rkey, seen, reply, tosend, late, decideVars, rows, popups>>

\* The insert and its commit; the row references the sandbox's row.
CreateRow(r) ==
    /\ rpc[r] = "creating"
    /\ sbx[rkey[r][1]] # "orphan"
    /\ rows' = rows \cup {r}
    /\ tosend' = [tosend EXCEPT ![r] = Tabs]
    /\ Goto(r, "broadcast")
    /\ Commit
    /\ UNCHANGED <<registryVars, rkey, seen, ron, reply, late, decideVars, popups>>

\* The finally clause: both entries are popped, whatever they hold.
PopBoth(r) ==
    /\ approvalFutures' = approvalFutures \ {r}
    /\ pendingByDomain' = [pendingByDomain EXCEPT ![rkey[r]] = None]
    /\ UNCHANGED fut

\* Bug for a mutant: the caller lets the connection through when it gets an error.
CreateFailsOpen(r) ==
    /\ rpc[r] = "creating"
    /\ Fault
    /\ PopBoth(r)
    /\ Goto(r, "done")
    /\ reply' = [reply EXCEPT ![r] = "allow"]
    /\ UNCHANGED <<tableVars, startVars, editVars, permFile, rkey, seen, ron, tosend,
                   late, decideVars, rows, popups>>

\* The insert raises, as it must for a sandbox without a row; the caller gets
\* an error, which it takes for a block.
CreateFails(r) ==
    /\ rpc[r] = "creating"
    /\ \/ sbx[rkey[r][1]] = "orphan" /\ UNCHANGED faults
       \/ sbx[rkey[r][1]] # "orphan" /\ Fault
    /\ PopBoth(r)
    /\ Goto(r, "done")
    /\ reply' = [reply EXCEPT ![r] = "error"]
    /\ UNCHANGED <<tableVars, startVars, editVars, permFile, rkey, seen, ron, tosend,
                   late, decideVars, rows, popups>>

\* One send of _broadcast: the tab shows the popup.
Deliver(r, t) ==
    /\ rpc[r] = "broadcast"
    /\ t \in tosend[r]
    /\ tosend' = [tosend EXCEPT ![r] = @ \ {t}]
    /\ popups' = [popups EXCEPT ![t] = @ \cup {r}]
    /\ UNCHANGED <<storeVars, registryVars, rpc, rkey, seen, ron, reply, late, decideVars,
                   rows>>

\* Tabs that are not connected, or whose send failed, are passed over.
EndBroadcast(r) ==
    /\ rpc[r] = "broadcast"
    /\ tosend' = [tosend EXCEPT ![r] = {}]
    /\ Goto(r, "waiting")
    /\ UNCHANGED <<storeVars, registryVars, rkey, seen, ron, reply, late, decideVars,
                   rows, popups>>

\* A waiting request returns: a leader cleans up after itself, a joiner does not.
Return(r, how) ==
    /\ Goto(r, "done")
    /\ reply' = [reply EXCEPT ![r] = how]
    /\ IF ron[r] = r THEN PopBoth(r) ELSE UNCHANGED registryVars
    /\ UNCHANGED <<storeVars, rkey, seen, ron, tosend, late, decideVars, rows, popups>>

\* Bug for a mutant: the request returns without a look at the future's state.
AwakenEarly(r) == rpc[r] = "waiting" /\ Return(r, fut[ron[r]])

Awaken(r) ==
    /\ rpc[r] = "waiting"
    /\ fut[ron[r]] \in Verdicts
    /\ Return(r, fut[ron[r]])

\* Bug for a mutant: no cleanup when the wait runs out.
ExpireWithoutCleanup(r) ==
    /\ rpc[r] = "waiting"
    /\ Goto(r, "done")
    /\ reply' = [reply EXCEPT ![r] = "expired"]
    /\ UNCHANGED <<storeVars, registryVars, rkey, seen, ron, tosend, late, decideVars,
                   rows, popups>>

\* Bug for a mutant: only the leader's wait has a limit.
ExpireLeader(r) == rpc[r] = "waiting" /\ ron[r] = r /\ Return(r, "expired")

\* 60 s have passed.  A verdict set in the same turn of the event loop is lost
\* to the cancellation that asyncio's timeout has already requested.
Expire(r) == rpc[r] = "waiting" /\ Return(r, "expired")

-----------------------------------------------------------------------------
(* Popups and POST /api/approvals/{approval_id}/decide.                    *)

\* A click on a popup.  The buttons stay enabled while a call is under way, and
\* every tab shows its own popup: an approval can be decided several times.
Click(e, t, a, v, p) ==
    /\ epc[e] = "idle" /\ dpc[e] = "idle"
    /\ a \in popups[t]
    /\ dpc' = [dpc EXCEPT ![e] = "resolving"]
    /\ dapp' = [dapp EXCEPT ![e] = a]
    /\ dtab' = [dtab EXCEPT ![e] = t]
    /\ dverdict' = [dverdict EXCEPT ![e] = v]
    /\ dperm' = [dperm EXCEPT ![e] = p]
    /\ Say(rkey[a], v)
    /\ UNCHANGED <<registryVars, requestVars, rows, popups>>

DecideGoto(e, phase) ==
    /\ dpc' = [dpc EXCEPT ![e] = phase]
    /\ UNCHANGED <<dapp, dtab, dverdict, dperm>>

\* resolve_pending_approval finds the row; whether it was decided before does
\* not matter.  "Once" goes straight on to the future.
ResolveRow(e) ==
    /\ dpc[e] = "resolving"
    /\ dapp[e] \in rows
    /\ \/ /\ dperm[e]
          /\ DecideGoto(e, "persisting")
          /\ Decide(e, rkey[dapp[e]], dverdict[e])
       \/ /\ ~dperm[e]
          /\ DecideGoto(e, "settling")
          /\ Commit
    /\ UNCHANGED <<registryVars, requestVars, rows, popups>>

\* 404 when there is no row, 500 when the database fails.
ResolveFails(e) ==
    /\ dpc[e] = "resolving"
    /\ \/ dapp[e] \notin rows /\ UNCHANGED faults
       \/ dapp[e] \in rows /\ Fault
    /\ DecideGoto(e, "failed")
    /\ UNCHANGED <<tableVars, startVars, editVars, permFile, registryVars, requestVars,
                   rows, popups>>

\* Bug for a mutant: the call is answered 200 although nothing was stored.
PersistForgives(e) ==
    /\ dpc[e] = "persisting"
    /\ epc[e] = "failed"
    /\ DecideGoto(e, "done")
    /\ UNCHANGED <<storeVars, registryVars, requestVars, rows, popups>>

\* The edit raised: the call ends with 500 and never gets to the future.
PersistFails(e) ==
    /\ dpc[e] = "persisting"
    /\ epc[e] = "failed"
    /\ DecideGoto(e, "failed")
    /\ UNCHANGED <<storeVars, registryVars, requestVars, rows, popups>>

ReadyToSettle(e) ==
    \/ dpc[e] = "settling"
    \/ dpc[e] = "persisting" /\ epc[e] = "stored"

\* Bug for a mutant: the future's state is not looked at.
SettleAgain(e) ==
    /\ ReadyToSettle(e)
    /\ fut' = IF dapp[e] \in approvalFutures
              THEN [fut EXCEPT ![dapp[e]] = dverdict[e]] ELSE fut
    /\ DecideGoto(e, "done")
    /\ UNCHANGED <<storeVars, pendingByDomain, approvalFutures, requestVars, rows, popups>>

\* Bug for a mutant: the call waits for a future that may be gone.
SettleRegistered(e) ==
    /\ ReadyToSettle(e)
    /\ dapp[e] \in approvalFutures
    /\ fut' = [fut EXCEPT ![dapp[e]] = IF @ = "pending" THEN dverdict[e] ELSE @]
    /\ DecideGoto(e, "done")
    /\ UNCHANGED <<storeVars, pendingByDomain, approvalFutures, requestVars, rows, popups>>

\* The future, if it is still registered and pending, gets the verdict; the
\* call is answered 200 in any case.
Settle(e) ==
    /\ ReadyToSettle(e)
    /\ fut' = IF dapp[e] \in approvalFutures /\ fut[dapp[e]] = "pending"
              THEN [fut EXCEPT ![dapp[e]] = dverdict[e]] ELSE fut
    /\ DecideGoto(e, "done")
    /\ UNCHANGED <<storeVars, pendingByDomain, approvalFutures, requestVars, rows, popups>>

\* The tab gets an answer, with whatever status, and drops the popup.
Dismiss(e) ==
    /\ dpc[e] \in {"done", "failed"}
    /\ DecideGoto(e, IF dpc[e] = "done" THEN "closed" ELSE "dropped")
    /\ popups' = [popups EXCEPT ![dtab[e]] = @ \ {dapp[e]}]
    /\ UNCHANGED <<storeVars, registryVars, requestVars, rows>>

\* The tab is closed and opened again, or reloaded: it starts without popups, and
\* the server does not send the pending ones again.  A call it had made goes on.
Reload(t) ==
    /\ popups[t] # {}
    /\ popups' = [popups EXCEPT ![t] = {}]
    /\ UNCHANGED <<storeVars, registryVars, requestVars, decideVars, rows>>

-----------------------------------------------------------------------------
\* Bug for a mutant: a new server starts with an empty table of approvals.
RestartForgets ==
    /\ StoreRestart
    /\ pendingByDomain' = [k \in Keys |-> None]
    /\ approvalFutures' = {}
    /\ fut' = [r \in Requests |-> "none"]
    /\ rows' = {}
    /\ rpc' = [r \in Requests |-> IF rpc[r] \in {"idle", "done"} THEN rpc[r] ELSE "lost"]
    /\ dpc' = [e \in Edits |-> IF dpc[e] \in {"idle", "closed"} THEN dpc[e] ELSE "lost"]
    /\ UNCHANGED <<rkey, seen, ron, reply, tosend, late, dapp, dtab, dverdict, dperm, popups>>

\* The memory of the server and its coroutines are gone; the table, the file
\* and what the tabs show stay.
Restart ==
    /\ StoreRestart
    /\ pendingByDomain' = [k \in Keys |-> None]
    /\ approvalFutures' = {}
    /\ fut' = [r \in Requests |-> "none"]
    /\ rpc' = [r \in Requests |-> IF rpc[r] \in {"idle", "done"} THEN rpc[r] ELSE "lost"]
    /\ tosend' = [r \in Requests |-> {}]
    /\ dpc' = [e \in Edits |-> IF dpc[e] \in {"resolving", "persisting", "settling"}
                               THEN "lost" ELSE dpc[e]]
    /\ UNCHANGED <<rkey, seen, ron, reply, late, dapp, dtab, dverdict, dperm, rows, popups>>

RequestStep(r) ==
    \/ ReadDecision(r) \/ AnswerStored(r) \/ Join(r) \/ Lead(r)
    \/ CreateRow(r) \/ CreateFails(r)
    \/ \E t \in Tabs : Deliver(r, t)
    \/ EndBroadcast(r) \/ Awaken(r) \/ Expire(r)

DecideStep(e) ==
    ResolveRow(e) \/ ResolveFails(e) \/ PersistFails(e) \/ Settle(e) \/ Dismiss(e)

Ask     == \E r \in Requests, k \in Keys : Arrive(r, k)
Clicked == \E e \in Edits, t \in Tabs, v \in Verdicts, p \in BOOLEAN :
               \E a \in popups[t] : Click(e, t, a, v, p)

\* An identity that a decide call has taken is not used for a PUT.
PutByPane == \E e \in Edits, k \in Keys, v \in Verdicts : dpc[e] = "idle" /\ Put(e, k, v)

Next ==
    \/ (StartStep \/ EditStep \/ PutByPane \/ Commit) /\ UNCHANGED brokerVars
    \/ Ask
    \/ \E r \in Requests : RequestStep(r)
    \/ Clicked
    \/ \E e \in Edits : DecideStep(e)
    \/ \E t \in Tabs : Reload(t)
    \/ Restart

Spec == BrokerInit /\ [][Next]_vars

\* The event loop resumes every coroutine whose await has ended, the database
\* worker serves its queue, and the 60 s timers fire.  Nobody is obliged to
\* start a sandbox, to make a request or to click.
Fairness ==
    /\ \A r \in Requests : WF_vars(RequestStep(r))
    /\ \A e \in Edits :
        /\ WF_vars(DecideStep(e))
        /\ WF_vars((StoreVerdict(e) \/ ReadTable(e)) /\ UNCHANGED brokerVars)
    /\ WF_vars(WriteFile /\ UNCHANGED brokerVars)

FairSpec == Spec /\ Fairness

-----------------------------------------------------------------------------
(* Properties.                                                             *)

\* The broker keeps the promise of ApprovalGate: a request is answered at most
\* once, for the sandbox and the domain it named, and with a verdict only if the
\* user or the permissions file gave that verdict for that sandbox and domain,
\* also when the request shared another's future, when the decision it read was
\* stale, and across failures and restarts.
Status(r) ==
    CASE rpc[r] = "idle" -> "idle"
      [] rpc[r] = "lost" -> "lost"
      [] rpc[r] = "done" /\ reply[r] \in Verdicts -> reply[r]
      [] rpc[r] = "done" /\ reply[r] \notin Verdicts -> "blocked"
      [] OTHER -> "open"

Gate == INSTANCE ApprovalGate
            WITH status <- [r \in Requests |-> Status(r)], about <- rkey, verdicts <- spoken

ImplementsGate == Gate!GateSpec

\* Requests between the registration of their future and its removal.
Leading == {r \in Requests :
                \/ rpc[r] \in {"creating", "broadcast"}
                \/ rpc[r] = "waiting" /\ ron[r] = r}

\* The two dictionaries never drift apart or leak: they hold the futures of the
\* requests that are leading, each key has at most one, and with no request
\* under way both are empty (the try/finally of request_approval).
RegistryConsistent ==
    /\ approvalFutures = Leading
    /\ \A k \in Keys : \A r \in Requests :
        pendingByDomain[k] = r <=> r \in Leading /\ rkey[r] = k

\* Requests that shared an approval are not answered with different verdicts,
\* even when two tabs decided it differently at the same time; one that ran out
\* of time is blocked (the fut.done() test of decide_approval).
SameVerdict ==
    \A r1, r2 \in Requests :
        /\ rpc[r1] = "done" /\ rpc[r2] = "done"
        /\ ron[r1] # None /\ ron[r1] = ron[r2]
        /\ reply[r1] \in Verdicts /\ reply[r2] \in Verdicts
        => reply[r1] = reply[r2]

\* An "Always" applies at once: a request made after it was acknowledged is
\* neither shown to the user nor made to wait for an older popup (the decision
\* is stored before the future is resolved and the call is answered).
AlwaysApplies ==
    \A r \in late : rpc[r] \notin {"creating", "broadcast", "waiting"}

\* A popup that a tab shows can be answered: its row is in the table, also after
\* a restart, so that decide_approval does not answer it 404.
PopupsHaveRows == \A t \in Tabs : popups[t] \subseteq rows

\* Every request is answered, if only with a block, unless the server dies.
EveryRequestAnswered ==
    \A r \in Requests : rpc[r] # "idle" ~> rpc[r] \in {"done", "lost"}

\* Every click is answered, unless the server dies, even if the approval has
\* been decided by another tab or nobody waits for it any more.
EveryClickAnswered ==
    \A e \in Edits : dpc[e] # "idle" ~> dpc[e] \in {"closed", "dropped", "lost"}

\* What docs/network-isolation.md says of a request: it blocks until the user
\* answers the popup.  Once the answer is accepted, nobody goes on waiting for it.
ClickFreesRequest ==
    \A e \in Edits, r \in Requests :
        dpc[e] = "done" /\ rpc[r] = "waiting" /\ ron[r] = dapp[e]
            => fut[dapp[e]] # "pending"

\* What CHANGELOG.md says of 0.10.0: no more than one request per domain is shown.
OnePopupPerDomain ==
    \A t \in Tabs : \A r1, r2 \in popups[t] : rkey[r1] = rkey[r2] => r1 = r2

=============================================================================
