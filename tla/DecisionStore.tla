--------------------------- MODULE DecisionStore ---------------------------
(***************************************************************************)
(* The per-sandbox network decisions of aleash and the two places they are *)
(* kept: the domain_decisions table (db.py) and the permissions file of    *)
(* the sandbox's working directory (server.py).                            *)
(*                                                                         *)
(* A sandbox start inserts the sandbox row and copies the file into the    *)
(* table one awaited upsert at a time.  An edit, made by the PUT of the    *)
(* Domains pane or by an "Always" answer to a popup, upserts one row, then *)
(* reads the sandbox's rows back and rewrites the whole file from them.    *)
(* Handlers are coroutines of one event loop, so every await is a point    *)
(* where another handler may run: an action here is the code between two   *)
(* awaits.                                                                 *)
(*                                                                         *)
(* All database calls of a server go through the single FIFO worker of one *)
(* aiosqlite connection, and their results resume the callers in the same  *)
(* order.  Table snapshots therefore reach the file in the order they were *)
(* read, which the queue "filing" models.                                  *)
(*                                                                         *)
(* Sandboxes here share one working directory, hence one file: that is     *)
(* what starting aleash twice in a project does.                           *)
(***************************************************************************)
EXTENDS Integers, Sequences, FiniteSets

CONSTANTS
    Sandboxes,  \* sandbox ids, all with the same working directory
    Domains,    \* host names a request can be about
    Edits,      \* identities of decision edits: PUT and permanent decide calls
    MaxFaults   \* bound on failing database or file operations and on restarts

ASSUME FaultBound == MaxFaults \in Nat
ASSUME SomeKey    == Sandboxes # {} /\ Domains # {}

Verdicts == {"allow", "block"}
Entry    == Verdicts \cup {"none"}
Keys     == Sandboxes \X Domains
View     == [Domains -> Entry]

\* The content of an absent, truncated or unparsable permissions file.
EmptyView == [d \in Domains |-> "none"]

VARIABLES
    decision,   \* domain_decisions: the row of each key that the server reads, or "none"
    committed,  \* the same, without a row that could not be committed
    permFile,   \* "domains" of .aleash-network-permissions.json
    sbx,        \* where each sandbox is in its start
    snapshot,   \* file content a starting sandbox parsed
    todo,       \* domains of the snapshot that are not in the table yet
    epc,        \* where each edit is
    ekey,       \* the key an edit is about
    everdict,   \* the verdict an edit stores
    filing,     \* table snapshots read and not yet written to the file
    faults,     \* failures so far
    latest,     \* history: last verdict an edit stored for a domain
    spoken      \* history: verdicts the user, or a file at start, ever gave

tableVars == <<decision, committed, latest, spoken>>
startVars == <<sbx, snapshot, todo>>
editVars  == <<epc, ekey, everdict, filing>>
storeVars == <<tableVars, startVars, editVars, permFile, faults>>

EditRest  == {"idle", "stored", "failed", "lost"}
EditPhase == EditRest \cup {"storing", "reading", "writing"}

\* One snapshot waiting to be written.
Filing == [edit : Edits, view : View]

StoreTypeOK ==
    /\ decision \in [Keys -> Entry]
    /\ committed \in [Keys -> Entry]
    /\ permFile \in View
    /\ sbx \in [Sandboxes -> {"new", "loading", "up", "orphan", "gone"}]
    /\ snapshot \in [Sandboxes -> View]
    /\ todo \in [Sandboxes -> SUBSET Domains]
    /\ epc \in [Edits -> EditPhase]
    /\ ekey \in [Edits -> Keys]
    /\ everdict \in [Edits -> Verdicts]
    /\ filing \in Seq(Filing)
    /\ faults \in 0..MaxFaults
    /\ latest \in [Domains -> Entry]
    /\ spoken \in SUBSET (Keys \X Verdicts)

StoreInit ==
    /\ decision = [k \in Keys |-> "none"]
    /\ committed = decision
    /\ permFile \in View
    /\ sbx = [s \in Sandboxes |-> "new"]
    /\ snapshot = [s \in Sandboxes |-> EmptyView]
    /\ todo = [s \in Sandboxes |-> {}]
    /\ epc = [e \in Edits |-> "idle"]
    /\ ekey \in [Edits -> {CHOOSE k \in Keys : TRUE}]
    /\ everdict = [e \in Edits |-> "block"]
    /\ filing = <<>>
    /\ faults = 0
    /\ latest = EmptyView
    /\ spoken = {}

Fault == faults < MaxFaults /\ faults' = faults + 1

-----------------------------------------------------------------------------
(* Starting a sandbox: POST /api/internal/sandbox-start.                   *)

Listed(view) == {d \in Domains : view[d] # "none"}

\* The row is inserted and committed, with what an earlier call left uncommitted on the
\* one connection; without another await, the file is read whole.
StartSandbox(s) ==
    /\ sbx[s] = "new"
    /\ sbx' = [sbx EXCEPT ![s] = "loading"]
    /\ snapshot' = [snapshot EXCEPT ![s] = permFile]
    /\ todo' = [todo EXCEPT ![s] = Listed(permFile)]
    /\ spoken' = spoken \cup {<<<<s, d>>, permFile[d]>> : d \in Listed(permFile)}
    /\ committed' = decision
    /\ UNCHANGED <<decision, latest, editVars, permFile, faults>>

\* insert_sandbox raises: no row, and the runner, which does not look at the
\* status of the answer, launches the sandbox all the same.
StartFails(s) ==
    /\ sbx[s] = "new"
    /\ Fault
    /\ sbx' = [sbx EXCEPT ![s] = "orphan"]
    /\ UNCHANGED <<tableVars, snapshot, todo, editVars, permFile>>

\* Bug for a mutant: the string of the file taken for a truth value.
LoadTruthy(s, d) ==
    /\ sbx[s] = "loading"
    /\ d \in todo[s]
    /\ decision' = [decision EXCEPT ![<<s, d>>] = "allow"]
    /\ committed' = decision'
    /\ todo' = [todo EXCEPT ![s] = @ \ {d}]
    /\ UNCHANGED <<latest, spoken, sbx, snapshot, editVars, permFile, faults>>

\* One awaited upsert per entry of the file, in the file's order.
LoadDecision(s, d) ==
    /\ sbx[s] = "loading"
    /\ d \in todo[s]
    /\ decision' = [decision EXCEPT ![<<s, d>>] = snapshot[s][d]]
    /\ committed' = decision'
    /\ todo' = [todo EXCEPT ![s] = @ \ {d}]
    /\ UNCHANGED <<latest, spoken, sbx, snapshot, editVars, permFile, faults>>

\* An upsert, or its commit, raises an error the handler does not catch: the rest of
\* the file is not loaded, and the runner goes on.
LoadFails(s) ==
    /\ sbx[s] = "loading"
    /\ Fault
    /\ \E d \in todo[s] :
          decision' \in {decision, [decision EXCEPT ![<<s, d>>] = snapshot[s][d]]}
    /\ sbx' = [sbx EXCEPT ![s] = "up"]
    /\ UNCHANGED <<committed, latest, spoken, snapshot, todo, editVars, permFile>>

\* Bug for a mutant: the answer does not wait for the upserts.
FinishStartEarly(s) ==
    /\ sbx[s] = "loading"
    /\ sbx' = [sbx EXCEPT ![s] = "up"]
    /\ UNCHANGED <<tableVars, snapshot, todo, editVars, permFile, faults>>

\* The handler answers, and only then does the runner launch the sandbox.
FinishStart(s) ==
    /\ sbx[s] = "loading"
    /\ todo[s] = {}
    /\ sbx' = [sbx EXCEPT ![s] = "up"]
    /\ UNCHANGED <<tableVars, snapshot, todo, editVars, permFile, faults>>

-----------------------------------------------------------------------------
(* An edit: set_domain_decision, then _write_permissions_file.             *)

BeginEdit(e, k, v) ==
    /\ epc[e] = "idle"
    /\ epc' = [epc EXCEPT ![e] = "storing"]
    /\ ekey' = [ekey EXCEPT ![e] = k]
    /\ everdict' = [everdict EXCEPT ![e] = v]
    /\ UNCHANGED filing

\* PUT /api/sandboxes/{id}/domains/{domain}.  The Domains pane offers a toggle
\* for the decisions the table lists, and what it shows may be out of date, so
\* the verdict is either one.
Put(e, k, v) ==
    /\ decision[k] # "none"
    /\ BeginEdit(e, k, v)
    /\ spoken' = spoken \cup {<<k, v>>}
    /\ UNCHANGED <<decision, committed, latest, startVars, permFile, faults>>

Table(s) == [d \in Domains |-> decision[<<s, d>>]]

\* The user answers a popup, which only a launched sandbox can have caused; an
\* "Always" then makes the server run an edit, after a commit of the approval's row.
\* Who asks, and when, is the business of ApprovalBroker.
Say(k, v) ==
    /\ sbx[k[1]] = "up"
    /\ spoken' = spoken \cup {<<k, v>>}
    /\ UNCHANGED <<decision, committed, latest, startVars, editVars, permFile, faults>>

Decide(e, k, v) ==
    /\ sbx[k[1]] = "up"
    /\ <<k, v>> \in spoken
    /\ BeginEdit(e, k, v)
    /\ committed' = decision
    /\ UNCHANGED <<decision, latest, spoken, startVars, permFile, faults>>

\* Bug for a mutant: the rows for the file are read before the upsert.
StoreAfterReading(e) ==
    /\ epc[e] = "storing"
    /\ filing' = Append(filing, [edit |-> e, view |-> Table(ekey[e][1])])
    /\ decision' = [decision EXCEPT ![ekey[e]] = everdict[e]]
    /\ committed' = decision'
    /\ latest' = [latest EXCEPT ![ekey[e][2]] = everdict[e]]
    /\ epc' = [epc EXCEPT ![e] = "writing"]
    /\ UNCHANGED <<spoken, startVars, ekey, everdict, permFile, faults>>

\* The upsert and its commit.
StoreVerdict(e) ==
    /\ epc[e] = "storing"
    /\ decision' = [decision EXCEPT ![ekey[e]] = everdict[e]]
    /\ committed' = decision'
    /\ latest' = [latest EXCEPT ![ekey[e][2]] = everdict[e]]
    /\ epc' = [epc EXCEPT ![e] = "reading"]
    /\ UNCHANGED <<spoken, startVars, ekey, everdict, filing, permFile, faults>>

\* The upsert raises and nothing is stored, or the commit raises and the row
\* stays in the connection's open transaction, where every reader sees it.
StoreFails(e) ==
    /\ epc[e] = "storing"
    /\ Fault
    /\ decision' \in {decision, [decision EXCEPT ![ekey[e]] = everdict[e]]}
    /\ epc' = [epc EXCEPT ![e] = "failed"]
    /\ UNCHANGED <<committed, latest, spoken, startVars, ekey, everdict, filing, permFile>>

\* get_domain_decisions, every row of the edited sandbox and of no other.
ReadTable(e) ==
    /\ epc[e] = "reading"
    /\ filing' = Append(filing, [edit |-> e, view |-> Table(ekey[e][1])])
    /\ epc' = [epc EXCEPT ![e] = "writing"]
    /\ UNCHANGED <<tableVars, startVars, ekey, everdict, permFile, faults>>

ReadFails(e) ==
    /\ epc[e] = "reading"
    /\ Fault
    /\ epc' = [epc EXCEPT ![e] = "failed"]
    /\ UNCHANGED <<tableVars, startVars, ekey, everdict, filing, permFile>>

\* write_text of the oldest snapshot.
WriteFile ==
    /\ filing # <<>>
    /\ permFile' = Head(filing).view
    /\ epc' = [epc EXCEPT ![Head(filing).edit] = "stored"]
    /\ filing' = Tail(filing)
    /\ UNCHANGED <<tableVars, startVars, ekey, everdict, faults>>

\* OSError is swallowed: the file is as before, or truncated.
WriteFileFails ==
    /\ filing # <<>>
    /\ Fault
    /\ permFile' \in {permFile, EmptyView}
    /\ epc' = [epc EXCEPT ![Head(filing).edit] = "stored"]
    /\ filing' = Tail(filing)
    /\ UNCHANGED <<tableVars, startVars, ekey, everdict>>

-----------------------------------------------------------------------------
\* A row of another table is committed, and a row left uncommitted with it.
Commit ==
    /\ committed' = decision
    /\ UNCHANGED <<decision, latest, spoken, startVars, editVars, permFile, faults>>

\* The server process dies and a new one opens the same database, without a row that
\* was not committed.  Handlers in flight are gone; a file being written may be left
\* truncated; a sandbox whose start was not answered is never launched.
StoreRestart ==
    /\ Fault
    /\ epc' = [e \in Edits |-> IF epc[e] \in EditRest THEN epc[e] ELSE "lost"]
    /\ filing' = <<>>
    /\ permFile' \in IF filing = <<>> THEN {permFile} ELSE {permFile, EmptyView}
    /\ sbx' = [s \in Sandboxes |-> IF sbx[s] = "loading" THEN "gone" ELSE sbx[s]]
    /\ decision' = committed
    /\ UNCHANGED <<committed, latest, spoken, snapshot, todo, ekey, everdict>>

\* A failure in a component that shares the database: it uses up the bound only.
FaultElsewhere == Fault /\ UNCHANGED <<tableVars, startVars, editVars, permFile>>

StartStep == \E s \in Sandboxes :
    \/ StartSandbox(s) \/ StartFails(s)
    \/ \E d \in Domains : LoadDecision(s, d)
    \/ LoadFails(s) \/ FinishStart(s)

EditStep ==
    \/ \E e \in Edits : StoreVerdict(e) \/ StoreFails(e) \/ ReadTable(e) \/ ReadFails(e)
    \/ WriteFile
    \/ WriteFileFails

PutStep == \E e \in Edits, k \in Keys, v \in Verdicts : Put(e, k, v)

AnswerStep == \E k \in Keys, v \in Verdicts : Say(k, v) \/ \E e \in Edits : Decide(e, k, v)

StoreNext ==
    \/ StartStep \/ EditStep \/ PutStep \/ AnswerStep
    \/ Commit \/ StoreRestart \/ FaultElsewhere

StoreSpec == StoreInit /\ [][StoreNext]_storeVars

-----------------------------------------------------------------------------
(* Properties.                                                             *)

\* When nothing failed, a sandbox that runs has every verdict its file held
\* when it started in the table: the first request of a sandbox already sees
\* them (internal_sandbox_start answers after the last upsert).  A later edit
\* may replace a verdict, it never removes one.
UpMeansLoaded ==
    faults = 0 => \A s \in Sandboxes : sbx[s] = "up" =>
        \A d \in Domains : snapshot[s][d] # "none" => decision[<<s, d>>] # "none"

\* Every decision in the table is one the user gave for that sandbox and that
\* domain, or one its permissions file gave it at its start; no failure or
\* restart leaves another (set_domain_decision).
DecisionsSpoken ==
    \A k \in Keys : decision[k] # "none" => <<k, decision[k]>> \in spoken

EditsQuiet == \A e \in Edits : epc[e] \in EditRest

\* When nothing failed and no edit is under way, the file holds the last
\* verdict stored for every domain, so that the next sandbox started in the
\* directory will not ask for it again (_write_permissions_file).
AlwaysPersists ==
    faults = 0 /\ EditsQuiet =>
        \A d \in Domains : latest[d] # "none" => permFile[d] = latest[d]

=============================================================================
