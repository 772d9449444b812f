--------------------------- MODULE TerminalInput ---------------------------
(***************************************************************************)
(* How keystrokes and sizes get from browser tabs to the terminal of a     *)
(* sandbox.  The handler of each tab's socket (terminal_ws._recv_input)    *)
(* writes them to a Unix socket of the runner, over a connection that the  *)
(* server keeps for all tabs (_pty_writer); the runner writes what it      *)
(* reads to the PTY, except for resize frames (_make_input_handler).       *)
(*                                                                         *)
(* A message is named by its tab and number.  On the stream it is a token, *)
(* or two if it is a resize frame, as a read may end inside it.  What a    *)
(* program that has closed its terminal leaves unread counts as typed.     *)
(***************************************************************************)
EXTENDS Integers, Sequences, FiniteSets

CONSTANTS
    Typists,        \* tabs whose socket is being served
    MaxMessages     \* bound on the messages of a tab

ASSUME MessageBound == MaxMessages \in Nat
ASSUME FewTypists == IsFiniteSet(Typists)

VARIABLES
    browserMaster,  \* _sandbox_browser_master: the tabs control the size
    runner,         \* "starting", "listening" on the socket, "over"
    ipc,            \* where the handler of a tab stands
    kind,           \* the message it has at hand
    received,       \* how many it has received
    writer,         \* _pty_input_writers: the connection of the entry, 0 if none
    opened,         \* connections opened so far; they are numbered
    openers,        \* tabs that opened them
    stream,         \* tokens that each connection has yet to deliver
    typed,          \* tokens written to the PTY
    applied,        \* frames taken for a new size
    cut,            \* frames in which a read ended
    dropped         \* messages that led to nothing

inputVars == <<browserMaster, runner, ipc, kind, received, writer, opened, openers,
               stream, typed, applied, cut, dropped>>

Messages == Typists \X (1..MaxMessages)
Token == [m : Messages, part : {"key", "head", "tail"}]

InputTypeOK ==
    /\ browserMaster \in BOOLEAN
    /\ runner \in {"starting", "listening", "over"}
    /\ ipc \in [Typists -> {"idle", "opening", "draining"}]
    /\ kind \in [Typists -> {"key", "size"}]
    /\ received \in [Typists -> 0..MaxMessages]
    /\ opened \in Nat /\ writer \in 0..opened
    /\ openers \subseteq Typists
    /\ stream \in [1..opened -> Seq(Token)]
    /\ typed \in Seq(Token)
    /\ applied \subseteq Messages /\ cut \subseteq Messages /\ dropped \subseteq Messages

InputInit ==
    /\ browserMaster \in BOOLEAN
    /\ runner = "starting"
    /\ ipc = [t \in Typists |-> "idle"]
    /\ kind = [t \in Typists |-> "key"]
    /\ received = [t \in Typists |-> 0]
    /\ writer = 0 /\ opened = 0 /\ openers = {} /\ stream = <<>>
    /\ typed = <<>> /\ applied = {} /\ cut = {} /\ dropped = {}

AtHand(t) == <<t, received[t]>>
Tokens(m, k) == IF k = "key" THEN <<[m |-> m, part |-> "key"]>>
                ELSE <<[m |-> m, part |-> "head"], [m |-> m, part |-> "tail"]>>

-----------------------------------------------------------------------------
(* terminal_ws._recv_input, write_pty_input, resize_pty                    *)

\* The next message of t; a size counts only if the browser is the master.
Receive(t, k) ==
    /\ ipc[t] = "idle" /\ received[t] < MaxMessages
    /\ received' = [received EXCEPT ![t] = @ + 1]
    /\ kind' = [kind EXCEPT ![t] = k]

Ignore(t) ==
    /\ Receive(t, "size") /\ ~browserMaster
    /\ dropped' = dropped \cup {AtHand(t)'}
    /\ UNCHANGED <<browserMaster, runner, ipc, writer, opened, openers, stream, typed,
                   applied, cut>>

Taken(t, k) == Receive(t, k) /\ (k = "size" => browserMaster)

\* _pty_writer returns the connection it has: no await before the write.
WriteCached(t, k) ==
    /\ Taken(t, k) /\ writer # 0
    /\ stream' = [stream EXCEPT ![writer] = @ \o Tokens(AtHand(t)', k)]
    /\ ipc' = [ipc EXCEPT ![t] = "draining"]
    /\ UNCHANGED <<browserMaster, runner, writer, opened, openers, typed, applied, cut,
                   dropped>>

\* No connection, or one that is closing already, and no socket to connect to.
NoSocket(t, k) ==
    /\ Taken(t, k) /\ runner # "listening"
    /\ dropped' = dropped \cup {AtHand(t)'}
    /\ UNCHANGED <<browserMaster, runner, ipc, writer, opened, openers, stream, typed,
                   applied, cut>>

\* Bug for a mutant: a connection for each message.
BeginOpenAlways(t, k) ==
    /\ Taken(t, k) /\ runner = "listening"
    /\ ipc' = [ipc EXCEPT ![t] = "opening"]
    /\ UNCHANGED <<browserMaster, runner, writer, opened, openers, stream, typed, applied,
                   cut, dropped>>

\* open_unix_connection is called.
BeginOpen(t, k) ==
    /\ Taken(t, k) /\ writer = 0 /\ runner = "listening"
    /\ ipc' = [ipc EXCEPT ![t] = "opening"]
    /\ UNCHANGED <<browserMaster, runner, writer, opened, openers, stream, typed, applied,
                   cut, dropped>>

\* It returns: the entry is replaced, whatever became of it meanwhile.
Opened(t) ==
    /\ ipc[t] = "opening" /\ runner = "listening"
    /\ opened' = opened + 1 /\ writer' = opened + 1
    /\ openers' = openers \cup {t}
    /\ stream' = Append(stream, Tokens(AtHand(t), kind[t]))
    /\ ipc' = [ipc EXCEPT ![t] = "draining"]
    /\ UNCHANGED <<browserMaster, runner, kind, received, typed, applied, cut, dropped>>

OpenFails(t) ==
    /\ ipc[t] = "opening" /\ runner = "over"
    /\ dropped' = dropped \cup {AtHand(t)}
    /\ ipc' = [ipc EXCEPT ![t] = "idle"]
    /\ UNCHANGED <<browserMaster, runner, kind, received, writer, opened, openers, stream,
                   typed, applied, cut>>

\* drain returns, or raises because the connection is lost: the entry is removed.  A
\* Unix socket loses it only when its other side closes, and the runner's does so only
\* at the end of the run: a handler that returns earlier leaves it open.
Drained(t) ==
    /\ ipc[t] = "draining"
    /\ ipc' = [ipc EXCEPT ![t] = "idle"]
    /\ writer' \in {writer} \cup IF runner = "over" THEN {0} ELSE {}
    /\ UNCHANGED <<browserMaster, runner, kind, received, opened, openers, stream, typed,
                   applied, cut, dropped>>

-----------------------------------------------------------------------------
(* The runner.                                                             *)

Listen ==
    /\ runner = "starting"
    /\ runner' = "listening"
    /\ UNCHANGED <<browserMaster, ipc, kind, received, writer, opened, openers, stream,
                   typed, applied, cut, dropped>>

\* Frames that lie in a chunk whole, and the ends of one that was cut.
Whole(chunk) ==
    {chunk[i].m : i \in {j \in 1..(Len(chunk) - 1) : chunk[j].part = "head"}}
Ends(chunk) ==
    {x.m : x \in {chunk[i] : i \in {j \in 1..Len(chunk) : chunk[j].part # "key"}}} \ Whole(chunk)

\* What the loop of the handler writes of a chunk: all but its frames, in order.
Outside(chunk, frames) ==
    LET Rest[i \in 0..Len(chunk)] ==
            IF i = 0 THEN <<>>
            ELSE IF chunk[i].m \in frames THEN Rest[i - 1] ELSE Append(Rest[i - 1], chunk[i])
    IN  Rest[Len(chunk)]

\* Bug for a mutant: what follows a frame in the chunk is forgotten.
ReadUpToFrame(c) ==
    /\ runner = "listening" /\ stream[c] # <<>>
    /\ \E n \in 1..Len(stream[c]) :
        LET chunk == SubSeq(stream[c], 1, n) IN
        /\ typed' = typed \o IF Whole(chunk) # {} THEN <<>> ELSE chunk
        /\ applied' = applied \cup Whole(chunk)
        /\ cut' = cut \cup Ends(chunk)
        /\ stream' = [stream EXCEPT ![c] = SubSeq(@, n + 1, Len(@))]
    /\ UNCHANGED <<browserMaster, runner, ipc, kind, received, writer, opened, openers,
                   dropped>>

\* One turn of the loop of _handle: read returns what has arrived, or a part of it;
\* nothing is kept for the next turn.
Read(c) ==
    /\ runner = "listening" /\ stream[c] # <<>>
    /\ \E n \in 1..Len(stream[c]) :
        LET chunk == SubSeq(stream[c], 1, n) IN
        /\ typed' = typed \o Outside(chunk, Whole(chunk))
        /\ applied' = applied \cup Whole(chunk)
        /\ cut' = cut \cup Ends(chunk)
        /\ stream' = [stream EXCEPT ![c] = SubSeq(@, n + 1, Len(@))]
    /\ UNCHANGED <<browserMaster, runner, ipc, kind, received, writer, opened, openers,
                   dropped>>

\* The run ends: the socket is removed, and asyncio.run cancels the handlers.  One that
\* was woken in the same turn of the event loop as the run still reads once, and writes to
\* a number that is closed; this read is left out.
EndRun ==
    /\ runner = "listening"
    /\ runner' = "over"
    /\ UNCHANGED <<browserMaster, ipc, kind, received, writer, opened, openers, stream,
                   typed, applied, cut, dropped>>

\* internal_sandbox_end removes the entry.
ForgetWriter ==
    /\ runner = "over" /\ writer # 0
    /\ writer' = 0
    /\ UNCHANGED <<browserMaster, runner, ipc, kind, received, opened, openers, stream,
                   typed, applied, cut, dropped>>

-----------------------------------------------------------------------------
ServerStep ==
    \/ \E t \in Typists :
        \/ \E k \in {"key", "size"} : WriteCached(t, k) \/ NoSocket(t, k) \/ BeginOpen(t, k)
        \/ Ignore(t) \/ Opened(t) \/ OpenFails(t) \/ Drained(t)
    \/ ForgetWriter

RunnerStep == Listen \/ EndRun \/ \E c \in 1..opened : Read(c)

InputNext == ServerStep \/ RunnerStep

InputSpec == InputInit /\ [][InputNext]_inputVars

-----------------------------------------------------------------------------
(* Properties                                                              *)

MessagesIn(s) == {s[i].m : i \in 1..Len(s)}

\* Every message taken is on its way, on the terminal, applied or dropped; the
\* program is typed each key once, and no part of a resize frame unless a read ended
\* inside it; and the keys of a tab arrive in order unless several tabs had found no
\* connection and each opened one (_pty_writer, _make_input_handler).
InputArrives ==
    /\ \A t \in Typists : \A n \in 1..received[t] :
        \/ <<t, n>> \in MessagesIn(typed) \cup applied \cup dropped
        \/ n = received[t] /\ ipc[t] = "opening"
        \/ \E c \in 1..opened : <<t, n>> \in MessagesIn(stream[c])
    /\ \A i, j \in 1..Len(typed) : i < j =>
        /\ typed[i] # typed[j]
        /\ typed[i].m[1] = typed[j].m[1] /\ opened <= 1 => typed[i].m[2] <= typed[j].m[2]
    /\ \A i \in 1..Len(typed) : typed[i].part # "key" => typed[i].m \in cut

\* However the tabs race to open a connection, each opens one at most in the
\* lifetime of the runner's socket (_pty_writer).
FewConnections == opened <= Cardinality(Typists)
=============================================================================
