--------------------------- MODULE ApprovalGate ---------------------------
(***************************************************************************)
(* What POST /api/proxy/request-approval promises, whatever happens inside *)
(* the server: a request is about one sandbox and one domain, it is        *)
(* answered at most once, and an answer that carries a verdict carries one *)
(* that the user, or the permissions file read at the sandbox's start,     *)
(* gave for that very sandbox and domain.  A request may always end up     *)
(* blocked without a verdict (time out, internal error) or unanswered (the *)
(* server died).                                                           *)
(***************************************************************************)
CONSTANTS Requests, Keys, Verdicts

VARIABLES
    status,     \* where each request is
    about,      \* the key of each request
    verdicts    \* pairs <<key, verdict>> spoken so far

gateVars == <<status, about, verdicts>>

Ended == Verdicts \cup {"blocked", "lost"}

GateTypeOK ==
    /\ status \in [Requests -> {"idle", "open"} \cup Ended]
    /\ about \in [Requests -> Keys]
    /\ verdicts \in SUBSET (Keys \X Verdicts)

GateInit ==
    /\ status = [r \in Requests |-> "idle"]
    /\ about \in [Requests -> Keys]
    /\ verdicts = {}

Ask(r, k) ==
    /\ status[r] = "idle"
    /\ status' = [status EXCEPT ![r] = "open"]
    /\ about' = [about EXCEPT ![r] = k]
    /\ UNCHANGED verdicts

Speak(new) ==
    /\ verdicts' = verdicts \cup new
    /\ UNCHANGED <<status, about>>

Answer(r, v) ==
    /\ status[r] = "open"
    /\ <<about[r], v>> \in verdicts
    /\ status' = [status EXCEPT ![r] = v]
    /\ UNCHANGED <<about, verdicts>>

Block(r) ==
    /\ status[r] = "open"
    /\ status' = [status EXCEPT ![r] = "blocked"]
    /\ UNCHANGED <<about, verdicts>>

\* Every open request dies with the server.
Lose ==
    /\ status' = [r \in Requests |-> IF status[r] = "open" THEN "lost" ELSE status[r]]
    /\ UNCHANGED <<about, verdicts>>

GateNext ==
    \/ \E r \in Requests :
        \/ \E k \in Keys : Ask(r, k)
        \/ \E v \in Verdicts : Answer(r, v)
        \/ Block(r)
    \/ \E new \in SUBSET (Keys \X Verdicts) : Speak(new)
    \/ Lose

GateSpec == GateInit /\ [][GateNext]_gateVars
=============================================================================
