--------------------------- MODULE TerminalSize ---------------------------
(***************************************************************************)
(* How the size of a sandbox's terminal reaches the browser tabs, while    *)
(* the local terminal controls it.  The runner posts each new size to the  *)
(* server (runner._on_sigwinch, _push_size_to_server), which keeps it and  *)
(* sends it to the sockets in the list _terminal_sockets                   *)
(* (internal_terminal_resize, _broadcast); terminal_ws adds a socket to    *)
(* that list, and takes it out when the tab has gone.                      *)
(*                                                                         *)
(* Sizes are numbered in the order the window takes them, sockets in the   *)
(* order in which they are opened.  As a socket is added at the end of the *)
(* list and once only, the list is the set of its sockets in the order of  *)
(* their numbers.  A loop over the list keeps an index into it, as in      *)
(* Python, and so goes on at the same index when an earlier entry leaves.  *)
(***************************************************************************)
EXTENDS Integers, FiniteSets

CONSTANTS
    MaxSockets, \* bound on the sockets opened
    MaxResizes  \* bound on the sizes the window takes

ASSUME SizeBounds == MaxSockets \in Nat /\ MaxResizes \in Nat

Sockets == 1..MaxSockets
Resizes == 1..MaxResizes
Sizes == 0..MaxResizes

VARIABLES
    window,     \* the size of the window and of the PTY
    posts,      \* sizes posted to terminal-resize and not handled yet
    size,       \* _sandbox_sizes
    wpc,        \* where the handler of a socket is
    registered, \* _terminal_sockets
    shown,      \* the size of the tab's terminal
    at,         \* index of the entry that the broadcast of a size waits for
    dead,       \* the list of that name of a broadcast
    disturbed   \* a post was lost or overlapped another, or entries moved under a loop

sizeVars == <<window, posts, size, wpc, registered, shown, at, dead, disturbed>>

\* A tab that leaves during the replay is "lost": its handler returns at once.
Stages == {"unused", "replaying", "serving", "leaving", "gone", "lost"}
NotBegun == -1
Done == 0

SizeTypeOK ==
    /\ window \in Sizes /\ size \in Sizes /\ posts \subseteq Resizes
    /\ wpc \in [Sockets -> Stages]
    /\ registered \subseteq Sockets
    /\ shown \in [Sockets -> Sizes]
    /\ at \in [Resizes -> {NotBegun, Done} \cup Sockets]
    /\ dead \in [Resizes -> SUBSET Sockets]
    /\ disturbed \in BOOLEAN

SizeInit ==
    /\ window = 0 /\ posts = {} /\ size = 0
    /\ wpc = [w \in Sockets |-> "unused"]
    /\ registered = {}
    /\ shown = [w \in Sockets |-> 0]
    /\ at = [n \in Resizes |-> NotBegun]
    /\ dead = [n \in Resizes |-> {}]
    /\ disturbed = FALSE

Live(w) == wpc[w] \in {"replaying", "serving"}
UnderWay(n) == at[n] \in Sockets
Quiet == posts = {} /\ \A n \in Resizes : ~UnderWay(n)

\* Position in the list, from 1.
Index(w) == Cardinality({v \in registered : v <= w})

-----------------------------------------------------------------------------
(* The runner.                                                             *)

\* _on_sigwinch: the post is a task of its own.
WindowResized ==
    /\ window < MaxResizes
    /\ window' = window + 1
    /\ posts' = posts \cup {window + 1}
    /\ disturbed' = (disturbed \/ ~Quiet)
    /\ UNCHANGED <<size, wpc, registered, shown, at, dead>>

\* The errors of _push_size_to_server are swallowed.
PostFails(n) ==
    /\ n \in posts
    /\ posts' = posts \ {n}
    /\ disturbed' = TRUE
    /\ UNCHANGED <<window, size, wpc, registered, shown, at, dead>>

-----------------------------------------------------------------------------
(* _broadcast.  A send to a tab that has gone raises at once, the others   *)
(* are awaited; when the loop is through, the dead sockets are removed.    *)

Ahead(i) == {w \in registered : Index(w) >= i}
FirstLive(i, w) == w \in Ahead(i) /\ Live(w) /\ \A v \in Ahead(i) : Live(v) => w <= v

\* The sockets that fail before the next live one is reached.
Failing(i) == {w \in Ahead(i) : ~Live(w) /\ \A v \in Ahead(i) : Live(v) => w < v}

\* The loop of the broadcast of size n goes on at index i.
GoOn(n, i) ==
    \/ \E w \in Sockets :
        /\ FirstLive(i, w)
        /\ shown' = [shown EXCEPT ![w] = n]
        /\ at' = [at EXCEPT ![n] = Index(w)]
        /\ dead' = [dead EXCEPT ![n] = @ \cup Failing(i)]
        /\ UNCHANGED <<registered, disturbed>>
    \/ /\ \A w \in Ahead(i) : ~Live(w)
       /\ registered' = registered \ (dead[n] \cup Failing(i))
       /\ at' = [at EXCEPT ![n] = Done]
       /\ disturbed' = (disturbed \/ \E o \in Resizes \ {n} : UnderWay(o))
       /\ UNCHANGED <<shown, dead>>

\* Bug for a mutant: the size is sent on but not kept.
HandleResizeForget(n) ==
    /\ n \in posts
    /\ posts' = posts \ {n}
    /\ GoOn(n, 1)
    /\ UNCHANGED <<window, size, wpc>>

\* internal_terminal_resize, up to the first send that is awaited.
HandleResize(n) ==
    /\ n \in posts
    /\ posts' = posts \ {n}
    /\ size' = n
    /\ GoOn(n, 1)
    /\ UNCHANGED <<window, wpc>>

Continue(n) ==
    /\ UnderWay(n)
    /\ GoOn(n, at[n] + 1)
    /\ UNCHANGED <<window, posts, size, wpc>>

-----------------------------------------------------------------------------
(* terminal_ws                                                             *)

\* The socket is accepted and enters the list; the size is read and sent in the
\* message of type "init" with no await in between.
Open(w) ==
    /\ wpc[w] = "unused" /\ \A v \in Sockets : v < w => wpc[v] # "unused"
    /\ wpc' = [wpc EXCEPT ![w] = "replaying"]
    /\ registered' = registered \cup {w}
    /\ shown' = [shown EXCEPT ![w] = size]
    /\ UNCHANGED <<window, posts, size, at, dead, disturbed>>

\* The replay is over; input is received and output polled.
Serve(w) ==
    /\ wpc[w] = "replaying"
    /\ wpc' = [wpc EXCEPT ![w] = "serving"]
    /\ UNCHANGED <<window, posts, size, registered, shown, at, dead, disturbed>>

\* A send of the replay fails: the handler returns, and the socket stays listed.
LeaveReplay(w) ==
    /\ wpc[w] = "replaying"
    /\ wpc' = [wpc EXCEPT ![w] = "lost"]
    /\ UNCHANGED <<window, posts, size, registered, shown, at, dead, disturbed>>

\* receive_json raises; the finally clause first waits for the polling task.
Leave(w) ==
    /\ wpc[w] = "serving"
    /\ wpc' = [wpc EXCEPT ![w] = "leaving"]
    /\ UNCHANGED <<window, posts, size, registered, shown, at, dead, disturbed>>

\* Without w the entries behind it move up, under a loop that has passed w.
Shifts(w) == w \in registered /\ \E n \in Resizes : UnderWay(n) /\ Index(w) <= at[n]

\* Bug for a mutant: the entry of another socket is removed.
UnregisterFirst(w) ==
    /\ wpc[w] = "leaving"
    /\ wpc' = [wpc EXCEPT ![w] = "gone"]
    /\ registered' = registered \ {v \in registered : Index(v) = 1}
    /\ disturbed' = (disturbed \/ Shifts(w))
    /\ UNCHANGED <<window, posts, size, shown, at, dead>>

\* The rest of the finally clause; a socket removed before is no error.
Unregister(w) ==
    /\ wpc[w] = "leaving"
    /\ wpc' = [wpc EXCEPT ![w] = "gone"]
    /\ registered' = registered \ {w}
    /\ disturbed' = (disturbed \/ Shifts(w))
    /\ UNCHANGED <<window, posts, size, shown, at, dead>>

-----------------------------------------------------------------------------
Resizing == \/ WindowResized
            \/ \E n \in Resizes : PostFails(n) \/ HandleResize(n) \/ Continue(n)

Sessions == \E w \in Sockets : Open(w) \/ Serve(w) \/ LeaveReplay(w) \/ Leave(w) \/ Unregister(w)

SizeNext == Resizing \/ Sessions

SizeSpec == SizeInit /\ [][SizeNext]_sizeVars

-----------------------------------------------------------------------------
(* Properties                                                              *)

\* A tab that is being served is in the list, whatever broadcasts and departures
\* remove from it; an entry without a tab is one whose handler has yet to remove
\* it or was left by a tab that went away during the replay (terminal_ws).
ListedWhileLive ==
    /\ \A w \in Sockets : Live(w) => w \in registered
    /\ \A w \in registered : wpc[w] \in {"replaying", "serving", "leaving", "lost"}

\* Once every size posted has been handled, the tabs show the size of the window,
\* those that connected in the middle of it included, provided no post was lost or
\* overlapped another and no tab before the one being sent to went away meanwhile: the
\* loop of _broadcast then passes over the next one (internal_terminal_resize,
\* terminal_ws).
TabsShowWindow ==
    Quiet /\ ~disturbed => \A w \in Sockets : Live(w) => shown[w] = window
=============================================================================
