------------------------------ MODULE Settings ------------------------------
(***************************************************************************)
(* The services of a sandbox: the file .aleash-services.json of its        *)
(* working directory, the Services panes that edit it and the runner that  *)
(* reads it when it starts a sandbox.  A pane keeps a copy, changes it and *)
(* puts all of it to the server (ServicesPane.vue), which replaces the     *)
(* file (put_services).  Requests of the panes may overtake each other and *)
(* be lost.                                                                *)
(* The server handles them one at a time; the runner reads on another      *)
(* thread, and so may find the file while it is being written.             *)
(*                                                                         *)
(* All readers take a service that the file does not name to be as it is   *)
(* by default, so the file is the set of the services that are on, or      *)
(* cannot be read, because it is missing or cut short.  It may have been   *)
(* written by hand before any pane saves.                                  *)
(* FilesystemPane.vue and its file follow the same protocol with mounts in *)
(* place of services, and no two that exclude each other.                  *)
(***************************************************************************)
EXTENDS Integers, FiniteSets

CONSTANTS
    Services,       \* the keys of SERVICES
    SshAgents,      \* SSH_AGENT_SERVICES
    OnByDefault,    \* those with default_enabled
    Flagged,        \* those the runner looks up one by one
    Mounted,        \* those for which bwrap_args has something to mount or to set
    Panes,          \* tabs with the pane
    MaxRequests,    \* bound on the requests of the panes
    NoService       \* stands for a file that cannot be read

ASSUME KnownServices ==
    /\ IsFiniteSet(Services)
    /\ SshAgents \cup OnByDefault \cup Flagged \cup Mounted \subseteq Services
    /\ OnByDefault \cap (SshAgents \cup Mounted) = {}
ASSUME RequestBound == MaxRequests \in Nat
ASSUME NoServiceIsNone == NoService \notin Services

Unreadable == {NoService}

VARIABLES
    file,       \* .aleash-services.json
    writing,    \* what write_text is about to write, Unreadable if nothing
    copy,       \* services.value of each pane, Unreadable until it has loaded
    gets,       \* GETs that the server has not handled
    answers,    \* its answers to others, on their way to the panes
    saves,      \* PUTs that the server has not handled
    requests,   \* requests sent so far
    behind,     \* panes that were not told of the last change of the file, or had a
                \* save lost or not written
    crossed,    \* panes that had a request or an answer overtaken
    start,      \* "off", "flags", "binds", "up": how far the runner is
    flags,      \* services that it found on, one by one
    looked,     \* services that it has looked up in this way
    binds,      \* services that _load_services mounts
    begun,      \* the file when this start began
    kept        \* it was not written to since

requestVars == <<gets, answers, saves, requests>>
paneVars == <<copy, behind, crossed, requestVars>>
launchVars == <<start, flags, looked, binds>>
settingVars == <<file, writing, paneVars, launchVars, begun, kept>>

Choices == SUBSET Services
Contents == Choices \cup {Unreadable}

Query == [pane : Panes, n : 1..MaxRequests]
Carried == [pane : Panes, n : 1..MaxRequests, on : Choices]

SettingsTypeOK ==
    /\ file \in Contents /\ writing \in Contents
    /\ copy \in [Panes -> Contents]
    /\ gets \subseteq Query /\ answers \subseteq Carried /\ saves \subseteq Carried
    /\ requests \in 0..MaxRequests
    /\ behind \subseteq Panes /\ crossed \subseteq Panes
    /\ start \in {"off", "flags", "binds", "up"}
    /\ flags \subseteq Flagged /\ looked \subseteq Flagged /\ binds \subseteq Mounted
    /\ begun \in Contents /\ kept \in BOOLEAN

SettingsInit ==
    /\ file \in Contents /\ writing = Unreadable
    /\ copy = [p \in Panes |-> Unreadable]
    /\ gets = {} /\ answers = {} /\ saves = {} /\ requests = 0
    /\ behind = {} /\ crossed = {}
    /\ start = "off" /\ flags = {} /\ looked = {} /\ binds = {}
    /\ begun = file /\ kept = TRUE

\* The services that are on in a file: config.get(id, {}).get("enabled", default).
Enabled(f) == IF f = Unreadable THEN OnByDefault ELSE f

OneAgent(on) == Cardinality(on \cap SshAgents) <= 1

\* What is on its way from or to a pane.
Of(p, sent) == {r \in sent : r.pane = p}
AtRest(p) == Of(p, gets \cup answers \cup saves) = {}

\* The panes of which r overtakes something.
Overtakes(r, sent) == IF \E o \in Of(r.pane, sent) : o.n < r.n THEN {r.pane} ELSE {}

\* The file changes, perhaps in the sight of a runner that is starting.
FileBecomes(f) == file' = f /\ kept' = FALSE

-----------------------------------------------------------------------------
(* The panes.                                                              *)

\* The pane is mounted, or shown again, whatever it has still on the way.  If nothing, it
\* starts afresh.
Load(p) ==
    /\ requests < MaxRequests
    /\ requests' = requests + 1
    /\ gets' = gets \cup {[pane |-> p, n |-> requests + 1]}
    /\ IF AtRest(p) /\ p \in crossed
       THEN crossed' = crossed \ {p} /\ behind' = behind \cup {p}
       ELSE UNCHANGED <<crossed, behind>>
    /\ UNCHANGED <<file, writing, copy, answers, saves, launchVars, begun, kept>>

Loaded(a) ==
    /\ a \in answers
    /\ answers' = answers \ {a}
    /\ copy' = [copy EXCEPT ![a.pane] = a.on]
    /\ crossed' = crossed \cup Overtakes(a, answers)
    /\ UNCHANGED <<file, writing, gets, saves, requests, behind, launchVars, begun, kept>>

\* The request or the answer is lost, or the server fails (500): the pane stays as it is.
GetFails(r) ==
    /\ r \in gets \cup answers
    /\ gets' = gets \ {r} /\ answers' = answers \ {r}
    /\ behind' = behind \cup {r.pane}
    /\ UNCHANGED <<file, writing, copy, saves, requests, crossed, launchVars, begun, kept>>

\* Bug for a mutant: the other agent stays on.
FlippedAlone(on, s) == IF s \in on THEN on \ {s} ELSE on \cup {s}

\* A switch is flipped; one SSH agent takes the place of the other.
Flipped(on, s) ==
    IF s \in on THEN on \ {s}
    ELSE (on \ IF s \in SshAgents THEN SshAgents ELSE {}) \cup {s}

\* The switch is flipped in the copy, and save puts all of it.  An answer that was asked
\* for before will undo it there.
Toggle(p, s) ==
    /\ copy[p] # Unreadable /\ requests < MaxRequests
    /\ requests' = requests + 1
    /\ copy' = [copy EXCEPT ![p] = Flipped(@, s)]
    /\ saves' = saves \cup {[pane |-> p, n |-> requests + 1, on |-> Flipped(copy[p], s)]}
    /\ crossed' = IF Of(p, gets \cup answers) = {} THEN crossed ELSE crossed \cup {p}
    /\ UNCHANGED <<file, writing, gets, answers, behind, launchVars, begun, kept>>

-----------------------------------------------------------------------------
(* The server.                                                             *)

\* _services_status
HandleGet(g) ==
    /\ g \in gets /\ writing = Unreadable
    /\ gets' = gets \ {g}
    /\ answers' = answers \cup {[pane |-> g.pane, n |-> g.n, on |-> Enabled(file)]}
    /\ behind' = behind \ {g.pane}
    /\ crossed' = crossed \cup Overtakes(g, gets \cup saves)
    /\ UNCHANGED <<file, writing, copy, saves, requests, launchVars, begun, kept>>

\* put_services: two SSH agents are refused with 422, at which the pane does not look.
Refuse(m) ==
    /\ m \in saves /\ writing = Unreadable
    /\ ~OneAgent(m.on)
    /\ saves' = saves \ {m}
    /\ crossed' = crossed \cup Overtakes(m, gets \cup saves)
    /\ UNCHANGED <<file, writing, copy, gets, answers, requests, behind, launchVars,
                   begun, kept>>

\* Bug for a mutant: the server trusts the pane.
ReplaceUnchecked(m) ==
    /\ m \in saves /\ writing = Unreadable
    /\ saves' = saves \ {m}
    /\ writing' = m.on
    /\ behind' = Panes \ {m.pane}
    /\ crossed' = crossed \cup Overtakes(m, gets \cup saves)
    /\ FileBecomes(Unreadable)
    /\ UNCHANGED <<copy, gets, answers, requests, launchVars, begun>>

\* Otherwise the file is replaced: write_text first empties it.
Replace(m) ==
    /\ m \in saves /\ writing = Unreadable
    /\ OneAgent(m.on)
    /\ saves' = saves \ {m}
    /\ writing' = m.on
    /\ behind' = Panes \ {m.pane}
    /\ crossed' = crossed \cup Overtakes(m, gets \cup saves)
    /\ FileBecomes(Unreadable)
    /\ UNCHANGED <<copy, gets, answers, requests, launchVars, begun>>

NotSaved(m) ==
    /\ saves' = saves \ {m}
    /\ behind' = behind \cup {m.pane}
    /\ crossed' = crossed \cup Overtakes(m, gets \cup saves)
    /\ UNCHANGED <<file, writing, copy, gets, answers, requests, launchVars, begun, kept>>

\* The request is lost, or the server fails before it gets to the file (500).
SaveFails(m) == m \in saves /\ NotSaved(m)

\* The file cannot be opened: the error is swallowed, the answer is 200.
ReplaceFails(m) == m \in saves /\ writing = Unreadable /\ OneAgent(m.on) /\ NotSaved(m)

Written ==
    /\ writing # Unreadable
    /\ writing' = Unreadable
    /\ FileBecomes(writing)
    /\ UNCHANGED <<paneVars, launchVars, begun>>

\* The disk is full.
CutShort ==
    /\ writing # Unreadable
    /\ writing' = Unreadable
    /\ behind' = Panes
    /\ UNCHANGED <<file, copy, crossed, requestVars, launchVars, begun, kept>>

-----------------------------------------------------------------------------
(* The runner.                                                             *)

BeginStart ==
    /\ start \in {"off", "up"}
    /\ start' = "flags"
    /\ flags' = {} /\ looked' = {} /\ binds' = {}
    /\ begun' = file /\ kept' = TRUE
    /\ UNCHANGED <<file, writing, paneVars>>

\* _browser_service_enabled and its like: one read of the file each, those for the
\* D-Bus proxy before its start, that for podman after _load_services.
LookUp(s) ==
    /\ start \in {"flags", "binds"} /\ s \in Flagged \ looked
    /\ looked' = looked \cup {s}
    /\ flags' = IF s \in Enabled(file) THEN flags \cup {s} ELSE flags
    /\ UNCHANGED <<file, writing, paneVars, start, binds, begun, kept>>

\* _load_services: nothing if the file cannot be read, the defaults included.
LoadServices ==
    /\ start = "flags"
    /\ start' = "binds"
    /\ binds' = IF file = Unreadable THEN {} ELSE file \cap Mounted
    /\ UNCHANGED <<file, writing, paneVars, flags, looked, begun, kept>>

Launched ==
    /\ start = "binds" /\ looked = Flagged
    /\ start' = "up"
    /\ UNCHANGED <<file, writing, paneVars, flags, looked, binds, begun, kept>>

-----------------------------------------------------------------------------
PaneStep ==
    \/ \E p \in Panes : Load(p) \/ \E s \in Services : Toggle(p, s)
    \/ \E a \in answers : Loaded(a)

ServerStep ==
    \/ \E g \in gets : HandleGet(g)
    \/ \E m \in saves : Refuse(m) \/ Replace(m) \/ ReplaceFails(m)
    \/ Written \/ CutShort

Losses == (\E r \in gets \cup answers : GetFails(r)) \/ \E m \in saves : SaveFails(m)

LaunchStep == BeginStart \/ LoadServices \/ Launched \/ \E s \in Flagged : LookUp(s)

SettingsNext == PaneStep \/ ServerStep \/ Losses \/ LaunchStep

SettingsSpec == SettingsInit /\ [][SettingsNext]_settingVars

-----------------------------------------------------------------------------
(* Properties                                                              *)

\* A pane with nothing on its way shows what is in the file, however many saves and loads
\* of its own overlapped, if none overtook another, it has loaded since another pane saved
\* and its last save was written.  The server then has refused nothing that it shows, unless
\* the file was written by hand with two SSH agents (toggle, load and save of
\* ServicesPane.vue, put_services).
PaneShowsFile ==
    \A p \in Panes \ (behind \cup crossed) :
        /\ copy[p] # Unreadable /\ AtRest(p)
        /\ writing = Unreadable /\ OneAgent(file)
        => copy[p] = Enabled(file)

\* When a sandbox is up, nothing having been saved during its start, it has the services
\* that such a pane shows, those it looks up and those it mounts, also where there is no
\* file yet.  And whatever is saved during the start, it is not given two SSH agents, which
\* set the same variable, unless the file had two when the start began (_load_services,
\* _browser_service_enabled and its like, put_services).
StartsAsShown ==
    [][ Launched =>
        /\ kept /\ OneAgent(file) => \A p \in Panes \ (behind \cup crossed) :
               copy[p] # Unreadable /\ AtRest(p) /\ writing = Unreadable =>
                   flags = copy[p] \cap Flagged /\ binds = copy[p] \cap Mounted
        /\ OneAgent(begun) => OneAgent(binds) ]_settingVars
=============================================================================
