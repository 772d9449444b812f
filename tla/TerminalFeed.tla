--------------------------- MODULE TerminalFeed ---------------------------
(***************************************************************************)
(* How the output of a sandbox reaches a browser tab.  The runner process  *)
(* appends chunks to the terminal_log table (db.append_terminal_log); the  *)
(* server, another process, serves /ws/terminal: it replays the rows there *)
(* are, then reads the largest row id, then polls for rows with a larger   *)
(* id, at most Limit at a time (server.terminal_ws).                       *)
(*                                                                         *)
(* A row is named by its id.  Ids are given in commit order to the rows of *)
(* all sandboxes, so the table is the sequence of the rows' sandboxes.  A  *)
(* query result is an interval of ids (pos, upto] of which the handler     *)
(* sends the sandbox's own, one await each.                                *)
(***************************************************************************)
EXTENDS Integers, Sequences, FiniteSets

CONSTANTS
    Sandboxes,  \* sandbox ids
    Tabs,       \* browser tabs
    Limit,      \* rows per poll; 200 in db.get_terminal_log_after
    MaxRows     \* bound on the rows appended

ASSUME LimitIsPositive == Limit \in Nat \ {0}
ASSUME RowBound == MaxRows \in Nat

VARIABLES
    log,    \* terminal_log: the sandbox of each row
    cpc,    \* where the handler of a tab's socket is
    shows,  \* the sandbox the tab shows
    pos,    \* id of the last row sent, or last_id
    upto,   \* the query result at hand: the sandbox's rows with ids in (pos, upto]
    screen  \* ids of the rows written to the tab's terminal, oldest first

vars == <<log, cpc, shows, pos, upto, screen>>

Serving == {"accepted", "replaying", "polling", "sending", "silent"}

Ids == 0..MaxRows

FeedTypeOK ==
    /\ log \in Seq(Sandboxes) /\ Len(log) <= MaxRows
    /\ cpc \in [Tabs -> Serving \cup {"closed"}]
    /\ shows \in [Tabs -> Sandboxes]
    /\ pos \in [Tabs -> Ids]
    /\ upto \in [Tabs -> Ids]
    /\ screen \in [Tabs -> Seq(1..MaxRows)]

Init ==
    /\ log = <<>>
    /\ cpc = [t \in Tabs |-> "closed"]
    /\ shows \in [Tabs -> Sandboxes]
    /\ pos = [t \in Tabs |-> 0]
    /\ upto = [t \in Tabs |-> 0]
    /\ screen = [t \in Tabs |-> <<>>]

Own(t) == {i \in 1..Len(log) : log[i] = shows[t]}

\* The runner of s commits a chunk; autoincrement gives it the next id.
AppendRow(s) ==
    /\ Len(log) < MaxRows
    /\ log' = Append(log, s)
    /\ UNCHANGED <<cpc, shows, pos, upto, screen>>

\* The tab opens its socket, with an empty terminal, for the sandbox it shows.
Connect(t, s) ==
    /\ cpc[t] = "closed"
    /\ cpc' = [cpc EXCEPT ![t] = "accepted"]
    /\ shows' = [shows EXCEPT ![t] = s]
    /\ pos' = [pos EXCEPT ![t] = 0]
    /\ upto' = [upto EXCEPT ![t] = 0]
    /\ screen' = [screen EXCEPT ![t] = <<>>]
    /\ UNCHANGED log

\* get_terminal_log: all rows so far.
ReadLog(t) ==
    /\ cpc[t] = "accepted"
    /\ cpc' = [cpc EXCEPT ![t] = "replaying"]
    /\ upto' = [upto EXCEPT ![t] = Len(log)]
    /\ UNCHANGED <<log, shows, pos, screen>>

Unsent(t) == {i \in Own(t) : pos[t] < i /\ i <= upto[t]}

\* The next row of the result, in id order.
Send(t) ==
    /\ cpc[t] \in {"replaying", "sending"}
    /\ \E i \in Unsent(t) :
        /\ \A j \in Unsent(t) : i <= j
        /\ screen' = [screen EXCEPT ![t] = Append(@, i)]
        /\ pos' = [pos EXCEPT ![t] = i]
    /\ UNCHANGED <<log, cpc, shows, upto>>

\* Bug for a mutant: polling starts from the first row.
PollFromStart(t) ==
    /\ cpc[t] = "replaying"
    /\ Unsent(t) = {}
    /\ cpc' = [cpc EXCEPT ![t] = "polling"]
    /\ pos' = [pos EXCEPT ![t] = 0]
    /\ UNCHANGED <<log, shows, upto, screen>>

\* get_terminal_log_last_id, a query of its own once the replay is over.
ReadLastId(t) ==
    /\ cpc[t] = "replaying"
    /\ Unsent(t) = {}
    /\ cpc' = [cpc EXCEPT ![t] = "polling"]
    /\ \E last \in Own(t) \cup {0} :
        /\ \A i \in Own(t) : i <= last
        /\ pos' = [pos EXCEPT ![t] = last]
    /\ UNCHANGED <<log, shows, upto, screen>>

Fresh(t) == {i \in Own(t) : pos[t] < i}

\* get_terminal_log_after: the first Limit rows with a larger id.
Poll(t) ==
    /\ cpc[t] = "polling"
    /\ Fresh(t) # {}
    /\ cpc' = [cpc EXCEPT ![t] = "sending"]
    /\ \E last \in Fresh(t) :
        /\ LET batch == {i \in Fresh(t) : i <= last}
           IN  \/ Cardinality(batch) = Limit
               \/ batch = Fresh(t) /\ Cardinality(batch) < Limit
        /\ upto' = [upto EXCEPT ![t] = last]
    /\ UNCHANGED <<log, shows, pos, screen>>

\* Bug for a mutant: rows that a full batch left out are forgotten.
PollOnce(t) ==
    /\ cpc[t] = "sending"
    /\ Unsent(t) = {}
    /\ Fresh(t) = {}
    /\ cpc' = [cpc EXCEPT ![t] = "polling"]
    /\ UNCHANGED <<log, shows, pos, upto, screen>>

\* The batch is sent; the handler sleeps and polls again.
EndBatch(t) ==
    /\ cpc[t] = "sending"
    /\ Unsent(t) = {}
    /\ cpc' = [cpc EXCEPT ![t] = "polling"]
    /\ UNCHANGED <<log, shows, pos, upto, screen>>

\* An error other than WebSocketDisconnect ends _poll_output.  The socket stays open,
\* as nobody looks at the task before the tab goes away.
PollDies(t) ==
    /\ cpc[t] \in {"polling", "sending"}
    /\ cpc' = [cpc EXCEPT ![t] = "silent"]
    /\ UNCHANGED <<log, shows, pos, upto, screen>>

\* The tab goes away or turns to another sandbox; its terminal keeps what it
\* shows until it connects again.
Disconnect(t) ==
    /\ cpc[t] \in Serving
    /\ cpc' = [cpc EXCEPT ![t] = "closed"]
    /\ UNCHANGED <<log, shows, pos, upto, screen>>

Handler(t) ==
    ReadLog(t) \/ Send(t) \/ ReadLastId(t) \/ Poll(t) \/ EndBatch(t)

Next ==
    \/ \E s \in Sandboxes : AppendRow(s)
    \/ \E t \in Tabs :
        \/ \E s \in Sandboxes : Connect(t, s)
        \/ Handler(t)
        \/ PollDies(t)
        \/ Disconnect(t)

Spec == Init /\ [][Next]_vars

\* The server keeps serving an open socket; nobody has to write or to connect.
FairSpec == Spec /\ \A t \in Tabs : WF_vars(Handler(t))

-----------------------------------------------------------------------------
(* Properties.                                                             *)

\* A terminal shows chunks in the order the sandbox wrote them, none twice, and
\* none of another sandbox, whatever is appended between the three queries.
OrderedOnce ==
    \A t \in Tabs :
        /\ \A i, j \in 1..Len(screen[t]) : i < j => screen[t][i] < screen[t][j]
        /\ \A i \in 1..Len(screen[t]) : screen[t][i] \in Own(t)

Shown(t) == {screen[t][i] : i \in 1..Len(screen[t])}

\* A chunk that polling has yet to reach gets to the terminal, however far the
\* terminal lags behind, as long as the tab stays connected and no error ends the
\* polling of an open socket (terminal_ws._poll_output).
LaterRowsShown ==
    \A t \in Tabs, i \in 1..MaxRows :
        cpc[t] \in {"polling", "sending"} /\ i \in Fresh(t)
            ~> i \in Shown(t) \/ cpc[t] \in {"closed", "silent"}

\* What the comment in terminal_ws says: the log is replayed, and then followed
\* from its last row.  A terminal that follows the log shows all of it up to there.
NothingSkipped ==
    \A t \in Tabs : cpc[t] \in {"polling", "sending"} =>
        \A i \in Own(t) : i <= pos[t] => i \in Shown(t)

=============================================================================
