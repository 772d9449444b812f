---------------------------- MODULE ByteStreams ----------------------------
(***************************************************************************)
(* What TcpConn and _connect of _tun_gateway.py promise of the streams     *)
(* between the programs of a sandbox and the hosts, whatever becomes of    *)
(* packets.  Each connection to a host is made for one program, and only   *)
(* the two of them are joined.  The program reads a prefix of what its     *)
(* host sends, and sees the end of it only after the whole, unless the     *)
(* connection broke or the program has closed its own side.  The host gets *)
(* units of that program alone, and gets them in order and once as long as *)
(* no packet was lost or sent again.                                       *)
(***************************************************************************)
EXTENDS Naturals, Sequences

CONSTANTS
    Keys,           \* one program after the other connects with each key
    Connections,    \* to hosts
    Nobody,         \* no connection yet
    Units           \* the numbers of the units that a program may write

VARIABLES
    reader,     \* the present program of each key
    pipe,       \* the connections
    calm        \* no packet was lost, and none but a SYN sent again

streamVars == <<reader, pipe, calm>>

Program(use) == [use |-> use, closed |-> FALSE, from |-> Nobody, got |-> <<>>, eof |-> FALSE]

StreamInit ==
    /\ reader = [k \in Keys |-> Program(0)]
    /\ pipe = [c \in Connections |-> [owner |-> <<>>, sent |-> 0, broken |-> FALSE, taken |-> <<>>]]
    /\ calm = TRUE

-----------------------------------------------------------------------------
(* The programs.                                                           *)

Change(k, program) == /\ reader' = [reader EXCEPT ![k] = program]
                      /\ UNCHANGED <<pipe, calm>>

\* The next program connects.
Comes(k) == Change(k, Program(reader[k].use + 1))

\* It is joined to a connection that was made for it.
IsJoined(k, c) ==
    /\ reader[k].from = Nobody
    /\ pipe[c].owner = <<k, reader[k].use>>
    /\ Change(k, [reader[k] EXCEPT !.from = c])

Reads(k, c) ==
    /\ reader[k].from = c /\ ~reader[k].eof
    /\ Len(reader[k].got) < pipe[c].sent
    /\ Change(k, [reader[k] EXCEPT !.got = Append(@, Len(@) + 1)])

\* To close one's own side ends both directions.
SeesEnd(k, c) ==
    /\ reader[k].from = c /\ ~reader[k].eof
    /\ Len(reader[k].got) = pipe[c].sent \/ pipe[c].broken \/ reader[k].closed
    /\ Change(k, [reader[k] EXCEPT !.eof = TRUE])

Closes(k) ==
    /\ reader[k].from # Nobody /\ ~reader[k].closed
    /\ Change(k, [reader[k] EXCEPT !.closed = TRUE])

-----------------------------------------------------------------------------
(* The connections.                                                        *)

Alter(c, connection) == /\ pipe' = [pipe EXCEPT ![c] = connection]
                        /\ UNCHANGED <<reader, calm>>

\* A connection is made for a program, which may have gone since.
IsMade(c, k, use) ==
    /\ pipe[c].owner = <<>>
    /\ Alter(c, [pipe[c] EXCEPT !.owner = <<k, use>>])

EndSeen(c) == \E k \in Keys : reader[k].from = c /\ reader[k].eof

Sends(c) ==
    /\ pipe[c].owner # <<>> /\ ~pipe[c].broken /\ ~EndSeen(c)
    /\ Alter(c, [pipe[c] EXCEPT !.sent = @ + 1])

Breaks(c) ==
    /\ pipe[c].owner # <<>> /\ ~pipe[c].broken /\ ~EndSeen(c)
    /\ Alter(c, [pipe[c] EXCEPT !.broken = TRUE])

\* Two connections are made for one program if its SYN was sent again.
Alone(c) == \A d \in Connections : d # c => pipe[d].owner # pipe[c].owner

\* The host takes the n-th unit of the program.
Takes(c, n) ==
    /\ pipe[c].owner # <<>>
    /\ calm /\ Alone(c) => n = Len(pipe[c].taken) + 1
    /\ Alter(c, [pipe[c] EXCEPT !.taken = Append(@, <<pipe[c].owner[2], n>>)])

Fails == calm' = FALSE /\ UNCHANGED <<reader, pipe>>

-----------------------------------------------------------------------------
\* Most steps of an implementation change nothing here, so that is asked first.
StreamNext ==
    \/ UNCHANGED streamVars
    \/ \E k \in Keys : \/ Comes(k) \/ Closes(k)
                       \/ \E c \in Connections : IsJoined(k, c) \/ Reads(k, c) \/ SeesEnd(k, c)
    \/ \E c \in Connections : \/ Sends(c) \/ Breaks(c)
                              \/ \E k \in Keys : \E use \in 0..reader[k].use : IsMade(c, k, use)
                              \/ \E n \in Units : Takes(c, n)
    \/ Fails

StreamSpec == StreamInit /\ [][StreamNext]_streamVars
=============================================================================
