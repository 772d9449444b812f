--------------------------- MODULE SandboxRunner ---------------------------
(***************************************************************************)
(* One run of a sandbox (run_sandbox and _stream_pty in runner.py): the    *)
(* helper processes it starts one after the other, the command, the thread *)
(* that reads the terminal, and the cleanup, with an error or an           *)
(* interrupt at any await.  The server's threads belong to the same        *)
(* process and open files of their own, under numbers the run has freed.   *)
(***************************************************************************)
EXTENDS Naturals

CONSTANTS
    MaxChunks,      \* bound on the pieces of output of the command
    MaxInterrupts   \* bound on SIGINTs

ASSUME RunnerBounds == MaxChunks \in Nat /\ MaxInterrupts \in Nat

VARIABLES
    mode,       \* stdin is a terminal "tty", or a pipe not forwarded "pipe", or "forward"
    xdgWanted,  \* a service of the working directory needs xdg-dbus-proxy
    pc,         \* where run_sandbox is
    cutAt,      \* where an error or the cancellation hit it
    interrupts, \* SIGINTs so far
    hurried,    \* the second one came during the cleanup
    missed,     \* what failed of telling the table and the server of the end
    row,        \* the sandbox's row in the table
    current,    \* _current_sandbox_id of the server names it
    helper,     \* the helper processes
    held,       \* those that a variable of run_sandbox holds
    child,      \* the command (bwrap)
    files,      \* what it has put into the file system
    raw,        \* the user's terminal is in raw mode
    stdinW,     \* the number child_stdin_w
    stdinVar,   \* child_stdin_w is not None
    master,     \* the number master_fd
    reader,     \* the thread of _stream_pty
    forwarding, \* has_piped_stdin of the thread
    printed, queued, marked, logged,    \* pieces printed, read, None queued, stored
    harmed      \* history: numbers used after they had come to name another's file

vars == <<mode, xdgWanted, pc, cutAt, interrupts, hurried, missed, row, current, helper, held,
          child, files, raw, stdinW, stdinVar, master, reader, forwarding,
          printed, queued, marked, logged, harmed>>

run == <<row, current, helper, held, child, files, raw>>
fds == <<stdinW, stdinVar, master, harmed>>
output == <<printed, queued, marked, logged>>
thread == <<reader, forwarding>>
setting == <<mode, xdgWanted>>
signal == <<interrupts, hurried, missed>>

Helpers == {"certs", "xdg", "mitm", "gateway"}

BeforeTry == {"announced", "certs", "certs wait"}
Startup == {"xdg", "xdg wait", "mitm", "mitm wait", "preparing", "spawning", "info",
            "gateway", "connecting"}
Streaming == {"streaming", "logging"}
Awaiting == BeforeTry \cup Startup \cup Streaming \cup {"closing", "waiting"}
Cleanup == {"fds", "pty", "kill", "tmp", "row", "tell"}

\* Where a helper runs that no variable holds.
Unheld == {<<"certs", "certs wait">>, <<"xdg", "xdg wait">>, <<"mitm", "mitm wait">>}

Number == {"none", "own", "free", "foreign"}

RunnerTypeOK ==
    /\ mode \in {"tty", "pipe", "forward"} /\ xdgWanted \in BOOLEAN
    /\ pc \in Awaiting \cup Cleanup \cup {"idle", "over"}
    /\ cutAt \in Awaiting \cup {"none", "idle"}
    /\ interrupts \in 0..MaxInterrupts /\ hurried \in BOOLEAN
    /\ missed \subseteq {"row", "server"}
    /\ row \in {"none", "open", "ended"} /\ current \in BOOLEAN
    /\ helper \in [Helpers -> {"none", "running", "dead"}] /\ held \subseteq Helpers
    /\ child \in {"none", "running", "exited"}
    /\ files \subseteq {"tmpdir", "socket"}
    /\ raw \in BOOLEAN
    /\ stdinW \in Number /\ stdinVar \in BOOLEAN /\ master \in Number
    /\ reader \in {"none", "reading", "ended"} /\ forwarding \in BOOLEAN
    /\ printed \in 0..MaxChunks
    /\ logged \in 0..queued /\ queued \in 0..printed /\ marked \in BOOLEAN
    /\ harmed \subseteq {"stdin", "master"}

Init ==
    /\ mode \in {"tty", "pipe", "forward"} /\ xdgWanted \in BOOLEAN
    /\ pc = "idle" /\ cutAt = "none"
    /\ interrupts = 0 /\ hurried = FALSE /\ missed = {}
    /\ row = "none" /\ current = FALSE
    /\ helper = [h \in Helpers |-> "none"] /\ held = {}
    /\ child = "none"
    /\ files = {}
    /\ raw = FALSE
    /\ stdinW = "none" /\ stdinVar = FALSE /\ master = "none"
    /\ reader = "none" /\ forwarding = FALSE
    /\ printed = 0 /\ queued = 0 /\ marked = FALSE /\ logged = 0
    /\ harmed = {}

-----------------------------------------------------------------------------
(* Numbers of open files.                                                  *)

\* What a close of a number leaves: an error for a free one is swallowed.
Closed(n) == IF n = "none" THEN "none" ELSE "free"

Harm(n, what) == IF n = "foreign" THEN {what} ELSE {}

-----------------------------------------------------------------------------
(* From the start to the try block.                                        *)

Goto(p) == pc' = p /\ UNCHANGED cutAt

\* sandbox-start reaches the server.  The insert may fail; its status is not
\* looked at.
Announce ==
    /\ pc = "idle" /\ Goto("announced")
    /\ files' = files \cup {"tmpdir"}
    /\ row' \in {"open", "none"} /\ current' = TRUE
    /\ UNCHANGED <<helper, held, child, raw, setting, signal, fds, thread, output>>

\* No answer comes in time, or an interrupt comes before it; the server may have
\* been reached.
AnnounceFails ==
    /\ pc = "idle"
    /\ pc' = "over" /\ cutAt' = "idle"
    /\ files' = files \cup {"tmpdir"}
    /\ \/ row' \in {"open", "none"} /\ current' = TRUE
       \/ UNCHANGED <<row, current>>
    /\ UNCHANGED <<helper, held, child, raw, setting, signal, fds, thread, output>>

\* The certificates of mitmproxy are there, or are made by running it briefly.
Announced ==
    /\ pc = "announced"
    /\ \/ Goto("certs")
       \/ Goto(IF xdgWanted THEN "xdg" ELSE "mitm")
    /\ UNCHANGED <<run, setting, signal, fds, thread, output>>

Spawn(h) == helper' = [helper EXCEPT ![h] = "running"]
Kill(h) == helper' = [helper EXCEPT ![h] = "dead"]

CertsStart ==
    /\ pc = "certs" /\ Goto("certs wait")
    /\ Spawn("certs")
    /\ UNCHANGED <<row, current, held, child, files, raw, setting, signal, fds, thread, output>>

CertsMade ==
    /\ pc = "certs wait" /\ Goto(IF xdgWanted THEN "xdg" ELSE "mitm")
    /\ Kill("certs")
    /\ UNCHANGED <<row, current, held, child, files, raw, setting, signal, fds, thread, output>>

-----------------------------------------------------------------------------
(* The try block up to the stream.                                         *)

XdgStart ==
    /\ pc = "xdg" /\ Goto("xdg wait")
    /\ Spawn("xdg")
    /\ UNCHANGED <<row, current, held, child, files, raw, setting, signal, fds, thread, output>>

XdgReady ==
    /\ pc = "xdg wait" /\ Goto("mitm")
    /\ held' = held \cup {"xdg"}
    /\ UNCHANGED <<row, current, helper, child, files, raw, setting, signal, fds, thread, output>>

\* Its socket never appears.
XdgNever ==
    /\ pc = "xdg wait"
    /\ Kill("xdg")
    /\ pc' = "fds" /\ cutAt' = pc
    /\ UNCHANGED <<row, current, held, child, files, raw, setting, signal, fds, thread, output>>

MitmStart ==
    /\ pc = "mitm" /\ Goto("mitm wait")
    /\ Spawn("mitm")
    /\ UNCHANGED <<row, current, held, child, files, raw, setting, signal, fds, thread, output>>

\* Half a second later; then the terminal and the pipe for stdin are made and the
\* socket for the browser's keyboard is being opened.
MitmReady ==
    /\ pc = "mitm wait" /\ Goto("preparing")
    /\ held' = held \cup {"mitm"}
    /\ master' = "own"
    /\ IF mode = "tty" THEN UNCHANGED <<stdinW, stdinVar>>
       ELSE stdinW' = "own" /\ stdinVar' = TRUE
    /\ files' = files \cup {"socket"}
    /\ UNCHANGED <<row, current, helper, child, raw, setting, signal, harmed, thread, output>>

\* The arguments of the command cannot be built.
BuildFails ==
    /\ pc = "mitm wait"
    /\ held' = held \cup {"mitm"}
    /\ pc' = "fds" /\ cutAt' = "preparing"
    /\ UNCHANGED <<row, current, helper, child, files, raw, setting, signal, fds, thread, output>>

\* The size has been pushed to the server.
Prepared ==
    /\ pc = "preparing" /\ Goto("spawning")
    /\ UNCHANGED <<run, setting, signal, fds, thread, output>>

\* Bug for a mutant: the variable keeps the number that was closed.
SpawnChildKeepsNumber ==
    /\ pc = "spawning" /\ Goto("info")
    /\ child' = "running"
    /\ stdinW' = IF mode = "pipe" THEN Closed(stdinW) ELSE stdinW
    /\ UNCHANGED <<row, current, helper, held, files, raw, stdinVar, master, harmed,
                   setting, signal, thread, output>>

\* The command runs; without --forward-stdin its end of the pipe is closed.
SpawnChild ==
    /\ pc = "spawning" /\ Goto("info")
    /\ child' = "running"
    /\ IF mode = "pipe" /\ stdinVar
       THEN /\ stdinW' = Closed(stdinW) /\ stdinVar' = FALSE
            /\ harmed' = harmed \cup Harm(stdinW, "stdin")
       ELSE UNCHANGED <<stdinW, stdinVar, harmed>>
    /\ UNCHANGED <<row, current, helper, held, files, raw, master, setting, signal, thread, output>>

\* The thread starts before the log is opened, the terminal is raw by then.
StartReader ==
    /\ Goto("connecting")
    /\ raw' = (mode = "tty")
    /\ reader' = "reading" /\ forwarding' = stdinVar

\* bwrap tells the number of its child, or does not within ten seconds.
InfoRead ==
    /\ pc = "info" /\ Goto("gateway")
    /\ UNCHANGED <<run, setting, signal, fds, thread, output>>

InfoNever ==
    /\ pc = "info" /\ StartReader
    /\ UNCHANGED <<row, current, helper, held, child, files, setting, signal, fds, output>>

GatewayStart ==
    /\ pc = "gateway" /\ StartReader
    /\ Spawn("gateway") /\ held' = held \cup {"gateway"}
    /\ UNCHANGED <<row, current, child, files, setting, signal, fds, output>>

-----------------------------------------------------------------------------
(* _stream_pty                                                             *)

LogOpen ==
    /\ pc = "connecting" /\ Goto("streaming")
    /\ UNCHANGED <<run, setting, signal, fds, thread, output>>

\* A piece is taken from the queue, then stored.  It counts as stored once the
\* insert is committed.
Take ==
    /\ pc = "streaming" /\ logged < queued /\ Goto("logging")
    /\ UNCHANGED <<run, setting, signal, fds, thread, output>>

Store ==
    /\ pc = "logging" /\ Goto("streaming")
    /\ logged' = logged + 1
    /\ UNCHANGED <<run, setting, signal, fds, thread, printed, queued, marked>>

\* None is taken: the finally clause restores the terminal and closes the log.
StreamEnds ==
    /\ pc = "streaming" /\ logged = queued /\ marked
    /\ Goto("closing")
    /\ raw' = FALSE
    /\ UNCHANGED <<row, current, helper, held, child, files, setting, signal, fds, thread, output>>

LogClosed ==
    /\ pc = "closing" /\ Goto(IF cutAt = "none" THEN "waiting" ELSE "fds")
    /\ UNCHANGED <<run, setting, signal, fds, thread, output>>

ChildAwaited ==
    /\ pc = "waiting" /\ child = "exited" /\ Goto("fds")
    /\ UNCHANGED <<run, setting, signal, fds, thread, output>>

-----------------------------------------------------------------------------
(* The finally clause of run_sandbox, which does not await.                *)

CloseStdin ==
    /\ pc = "fds" /\ Goto("pty")
    /\ IF stdinVar
       THEN /\ stdinW' = Closed(stdinW) /\ stdinVar' = FALSE
            /\ harmed' = harmed \cup Harm(stdinW, "stdin")
       ELSE UNCHANGED <<stdinW, stdinVar, harmed>>
    /\ UNCHANGED <<run, setting, signal, master, thread, output>>

ClosePty ==
    /\ pc = "pty" /\ Goto("kill")
    /\ files' = files \ {"socket"}
    /\ master' = Closed(master)
    /\ harmed' = harmed \cup Harm(master, "master")
    /\ UNCHANGED <<row, current, helper, held, child, raw, setting, signal, stdinW, stdinVar,
                   thread, output>>

\* Bug for a mutant: the gateway is forgotten.
KillHelpersButGateway ==
    /\ pc = "kill" /\ Goto("tmp")
    /\ helper' = [h \in Helpers |-> IF h \in held \ {"gateway"} /\ helper[h] = "running"
                                    THEN "dead" ELSE helper[h]]
    /\ UNCHANGED <<row, current, held, child, files, raw, setting, signal, fds, thread, output>>

KillHelpers ==
    /\ pc = "kill" /\ Goto("tmp")
    /\ helper' = [h \in Helpers |-> IF h \in held /\ helper[h] = "running"
                                    THEN "dead" ELSE helper[h]]
    /\ UNCHANGED <<row, current, held, child, files, raw, setting, signal, fds, thread, output>>

RemoveTmp ==
    /\ pc = "tmp" /\ Goto("row")
    /\ files' = files \ {"tmpdir"}
    /\ UNCHANGED <<row, current, helper, held, child, raw, setting, signal, fds, thread, output>>

Ended == IF row = "open" THEN "ended" ELSE row

\* The update of the row, without the server.
EndRow ==
    /\ pc = "row" /\ Goto("tell")
    /\ row' = Ended
    /\ UNCHANGED <<current, helper, held, child, files, raw, setting, signal, fds, thread, output>>

\* sandbox-end: the server updates the row too.
TellServer ==
    /\ pc = "tell" /\ Goto("over")
    /\ row' = Ended /\ current' = FALSE
    /\ UNCHANGED <<helper, held, child, files, raw, setting, signal, fds, thread, output>>

\* Either may fail without a word; the server forgets the id before it updates the row.
EndRowFails ==
    /\ pc = "row" /\ Goto("tell")
    /\ missed' = missed \cup {"row"}
    /\ UNCHANGED <<run, setting, interrupts, hurried, fds, thread, output>>

ServerNotTold ==
    /\ pc = "tell" /\ Goto("over")
    /\ missed' = missed \cup {"server"}
    /\ current' = FALSE \/ UNCHANGED current
    /\ UNCHANGED <<row, helper, held, child, files, raw, setting, interrupts, hurried, fds,
                   thread, output>>

-----------------------------------------------------------------------------
(* An error, or the cancellation by the first SIGINT, at an await.         *)

\* Bug for a mutant: the stream has no finally clause.
CutWithoutFinally ==
    /\ cutAt' = IF cutAt = "none" THEN pc ELSE cutAt
    /\ pc' = IF pc \in BeforeTry THEN "over" ELSE "fds"
    /\ UNCHANGED run

Cut ==
    /\ cutAt' = IF cutAt = "none" THEN pc ELSE cutAt
    /\ \/ pc \in BeforeTry /\ pc' = "over" /\ UNCHANGED raw
       \/ pc \in Startup \cup {"closing", "waiting"} /\ pc' = "fds" /\ UNCHANGED raw
       \/ pc \in Streaming /\ pc' = "closing" /\ raw' = FALSE
    /\ UNCHANGED <<row, current, helper, held, child, files>>

\* Polls, timers and the queue raise nothing; what info raises is caught.
Fails ==
    /\ pc \in {"announced", "certs", "xdg", "mitm", "preparing", "spawning", "gateway",
               "connecting", "logging", "closing"}
    /\ Cut
    /\ UNCHANGED <<setting, signal, fds, thread, output>>

Interrupt ==
    /\ interrupts < MaxInterrupts /\ interrupts' = interrupts + 1
    /\ pc \in Awaiting
    /\ Cut
    /\ UNCHANGED <<setting, hurried, missed, fds, thread, output>>

\* Bug for a mutant: the cleanup awaits, so that the first SIGINT ends it.
InterruptAwaitingCleanup ==
    /\ interrupts < MaxInterrupts /\ interrupts' = interrupts + 1
    /\ pc \in Cleanup
    /\ pc' = "over" /\ hurried' = (interrupts > 0)
    /\ UNCHANGED <<cutAt, run, setting, missed, fds, thread, output>>

\* Code that does not await notices a SIGINT only if it is not the first.
InterruptCleanup ==
    /\ interrupts < MaxInterrupts /\ interrupts' = interrupts + 1
    /\ pc \in Cleanup
    /\ IF interrupts = 0 THEN UNCHANGED <<pc, hurried>> ELSE pc' = "over" /\ hurried' = TRUE
    /\ UNCHANGED <<cutAt, run, setting, missed, fds, thread, output>>

-----------------------------------------------------------------------------
(* The thread of _stream_pty (_reader).                                    *)

\* Bug for a mutant: the thread stops as soon as the command has exited.
SeeEndEarly ==
    /\ reader = "reading" /\ master = "own" /\ child = "exited"
    /\ reader' = "ended" /\ marked' = TRUE
    /\ UNCHANGED <<pc, cutAt, run, setting, signal, fds, forwarding, printed, queued, logged>>

\* Bug for a mutant: the thread ends without a word.
SeeEndSilently ==
    /\ reader = "reading" /\ master = "own" /\ child = "exited" /\ queued = printed
    /\ reader' = "ended"
    /\ UNCHANGED <<pc, cutAt, run, setting, signal, fds, forwarding, output>>

ReadPiece ==
    /\ reader = "reading" /\ master = "own" /\ queued < printed
    /\ queued' = queued + 1
    /\ UNCHANGED <<pc, cutAt, run, setting, signal, fds, thread, printed, marked, logged>>

\* The other side of the terminal is closed and everything has been read.
SeeEnd ==
    /\ reader = "reading" /\ master = "own" /\ child = "exited" /\ queued = printed
    /\ reader' = "ended" /\ marked' = TRUE
    /\ UNCHANGED <<pc, cutAt, run, setting, signal, fds, forwarding, printed, queued, logged>>

\* The number is closed: select raises.  If it names another's file, that file
\* is read, and typed into.
SeeClosed ==
    /\ reader = "reading" /\ master = "free"
    /\ reader' = "ended" /\ marked' = TRUE
    /\ UNCHANGED <<pc, cutAt, run, setting, signal, fds, forwarding, printed, queued, logged>>

UseOthers ==
    /\ reader = "reading" /\ master = "foreign"
    /\ harmed' = harmed \cup {"master"}
    /\ UNCHANGED <<pc, cutAt, run, setting, signal, stdinW, stdinVar, master, thread, output>>

\* stdin is exhausted: the thread closes the pipe; the variable keeps the number.
StdinEnds ==
    /\ reader = "reading" /\ forwarding
    /\ forwarding' = FALSE
    /\ stdinW' = Closed(stdinW)
    /\ harmed' = harmed \cup Harm(stdinW, "stdin")
    /\ UNCHANGED <<pc, cutAt, run, setting, signal, stdinVar, master, reader, output>>

\* Input for a pipe that is closed by now.
StdinRefused ==
    /\ reader = "reading" /\ forwarding /\ stdinW \in {"free", "foreign"}
    /\ forwarding' = (stdinW = "foreign")
    /\ harmed' = harmed \cup Harm(stdinW, "stdin")
    /\ UNCHANGED <<pc, cutAt, run, setting, signal, stdinW, stdinVar, master, reader, output>>

-----------------------------------------------------------------------------
(* The command, the helpers and the other threads of the process.          *)

CommandPrints ==
    /\ child = "running" /\ printed < MaxChunks
    /\ printed' = printed + 1
    /\ UNCHANGED <<pc, cutAt, run, setting, signal, fds, thread, queued, marked, logged>>

ChildExits ==
    /\ child = "running"
    /\ child' = "exited"
    /\ UNCHANGED <<pc, cutAt, row, current, helper, held, files, raw, setting, signal, fds,
                   thread, output>>

HelperDies(h) ==
    /\ helper[h] = "running"
    /\ Kill(h)
    /\ UNCHANGED <<pc, cutAt, row, current, held, child, files, raw, setting, signal, fds,
                   thread, output>>

\* A thread of the server, or of the database, is given a number that is free.
OthersOpen ==
    /\ \/ stdinW = "free" /\ stdinW' = "foreign" /\ UNCHANGED master
       \/ master = "free" /\ master' = "foreign" /\ UNCHANGED stdinW
    /\ UNCHANGED <<pc, cutAt, run, setting, signal, stdinVar, harmed, thread, output>>

-----------------------------------------------------------------------------
Start == \/ Announce \/ AnnounceFails \/ Announced \/ CertsStart \/ CertsMade
         \/ XdgStart \/ XdgReady \/ XdgNever \/ MitmStart \/ MitmReady \/ BuildFails \/ Prepared
         \/ SpawnChild \/ InfoRead \/ InfoNever \/ GatewayStart

Stream == LogOpen \/ Take \/ Store \/ StreamEnds \/ LogClosed \/ ChildAwaited

Finally == \/ CloseStdin \/ ClosePty \/ KillHelpers \/ RemoveTmp
           \/ EndRow \/ EndRowFails \/ TellServer \/ ServerNotTold

Reader == ReadPiece \/ SeeEnd \/ SeeClosed \/ UseOthers \/ StdinEnds \/ StdinRefused

World == \/ Interrupt \/ InterruptCleanup \/ CommandPrints \/ ChildExits \/ OthersOpen
         \/ \E h \in Helpers : HelperDies(h)

Next == Start \/ Stream \/ Finally \/ Fails \/ Reader \/ World

Spec == Init /\ [][Next]_vars

\* Helpers come up or are given up within their time limits, requests to the
\* server are answered or time out, and both threads are run.  The command and
\* the user owe nothing.
Fairness == WF_vars(Start \/ Stream \/ Finally) /\ WF_vars(ReadPiece \/ SeeEnd)

FairSpec == Spec /\ Fairness

-----------------------------------------------------------------------------
(* Properties                                                              *)

\* A helper that outlives the run was being waited for when the run was cut:
\* its coroutine had started it and nobody held it yet (_start_mitmdump,
\* _start_xdg_dbus_proxy, _ensure_mitmproxy_ca).
HelpersStopped ==
    pc = "over" /\ ~hurried =>
        \A h \in Helpers : helper[h] = "running" => <<h, cutAt>> \in Unheld

\* A run that was cut anywhere in the try block leaves nothing: no directory, no
\* socket, and its row is ended unless neither the update nor the server
\* succeeded (the finally clause of run_sandbox).
EndRecorded ==
    pc = "over" /\ ~hurried /\ cutAt \notin BeforeTry \cup {"idle"} =>
        /\ files = {}
        /\ row = "open" => missed = {"row", "server"}
        /\ current => "server" \in missed

\* What the command has printed is in the log when the stream ends by itself,
\* and what is in the log was printed (_reader, _stream_pty).
OutputComplete ==
    cutAt = "none" /\ pc \in {"closing", "waiting"} \cup Cleanup \cup {"over"} =>
        logged = printed

\* The run uses a number that has come to name another's file in two cases
\* only: the pipe that the thread closed is closed again, which takes
\* --forward-stdin, and the thread goes on after the stream was cut.
OwnFilesOnly ==
    /\ "stdin" \in harmed => mode = "forward"
    /\ "master" \in harmed => cutAt \in Streaming \cup {"connecting"}

\* The user's terminal is restored, unless opening the log failed
\* (_stream_pty sets raw mode before its try block).
TerminalRestored == pc = "over" /\ raw => cutAt = "connecting"

\* A run ends once its command has exited or the user has interrupted it.
RunEnds == child = "exited" \/ interrupts > 0 ~> pc = "over"
=============================================================================
