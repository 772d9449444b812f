---------------------------- MODULE TcpGateway ----------------------------
(***************************************************************************)
(* TCP in the gateway of a sandbox (_tun_gateway.py).  The gateway reads   *)
(* the packets that the sandbox's kernel routes to the TUN device, plays   *)
(* the server's side of every TCP connection, asks the server of aleash    *)
(* whether the connection is allowed, opens a socket to the real host and  *)
(* relays bytes between the two.                                           *)
(*                                                                         *)
(* The sandbox's kernel and its programs (the client) and the host are     *)
(* external: they are modelled as TCP lets them behave.  A key is the      *)
(* 4-tuple of a connection; programs reuse it.  An attempt is one run of   *)
(* _connect with the TcpConn that comes out of it.                         *)
(*                                                                         *)
(* A sequence number is a pair <<initial number, offset>>.  The initial    *)
(* numbers are drawn at random by both sides and taken to be distinct: the *)
(* client's is the number of its use of the key, the gateway's that of the *)
(* attempt.  A segment of data carries one unit.                           *)
(*                                                                         *)
(* Of the buffers towards a host only one thing is kept: that the host has *)
(* stopped taking what is written, so that something is left in them.      *)
(***************************************************************************)
EXTENDS Integers, Sequences, FiniteSets

CONSTANTS
    Keys,           \* (source address, source port, destination, port)
    NoConn,         \* no entry in the table
    MaxUses,        \* bound on how often a program connects with a key
    MaxAttempts,    \* bound on the runs of _connect
    MaxUp, MaxDown, \* bounds on the units either side sends per connection
    MaxInjected,    \* bound on segments injected that the kernel has yet to take
    MaxUnread,      \* bound on segments the programs leave the gateway to read
    Awkward,        \* bound: attempts whose host may stop taking data, be slow to end,
                    \* or break after its end
    MaxFaults       \* bound on lost segments and untimely retransmissions

Attempts == 1..MaxAttempts

ASSUME GatewayBounds ==
    /\ MaxUses \in Nat /\ MaxAttempts \in Nat
    /\ MaxUp \in Nat /\ MaxDown \in Nat /\ MaxFaults \in Nat
    /\ MaxInjected \in Nat \ {0} /\ MaxUnread \in Nat \ {0}
ASSUME NoConnIsNoAttempt == NoConn \notin Attempts
ASSUME SomeKey == Keys # {}
ASSUME AwkwardAttempts == Awkward \subseteq Attempts

AnyKey == CHOOSE k \in Keys : TRUE    \* a value for the attempts not made yet

VARIABLES
    dest,       \* where each key leads: "gated", "host" (_HOST_IP) or "web" (80, 443)
    pending,    \* _pending: keys whose attempt is under way
    tcp,        \* _tcp: the attempt whose TcpConn the table holds for each key
    conn,       \* the attempts
    host,       \* the other end of each attempt's socket
    client,     \* the sandbox's end of each key
    toGw,       \* segments on their way from the sandbox, per key
    toClient,   \* segments injected into the TUN device, per key
    faults

vars == <<dest, pending, tcp, conn, host, client, toGw, toClient, faults>>

Initial == 0..MaxUses \cup Attempts
SeqNo == Initial \X Nat
Foreign == <<0, 0>>     \* the literal 0, which no connection expects

UpSegment == [f : {"SYN", "DATA", "FIN", "RST", "ACK"}, seq : SeqNo, ack : SeqNo]
DownSegment == [f : {"SYNACK", "RSTACK", "RST", "DATA", "FIN", "ACK"},
                seq : SeqNo, ack : SeqNo, unit : Nat]

Up(f, seq, ack) == [f |-> f, seq |-> seq, ack |-> ack]
Down(f, seq, ack) == [f |-> f, seq |-> seq, ack |-> ack, unit |-> 0]

Phase == {"unused", "gating", "opening", "up", "ended"}
ClientState == {"closed", "synsent", "established", "refused", "reset"}

Attempt == [at : Phase, key : Keys, isn : Initial, allowed : BOOLEAN,
            cnext : Nat, snext : Nat]
HostEnd == [sent : 0..MaxDown, eof : BOOLEAN, broken : BOOLEAN, shut : BOOLEAN,
            stalled : BOOLEAN, got : Seq(SeqNo)]
ClientEnd == [st : ClientState, isn : 0..MaxUses, snd : Nat, una : Nat, fin : BOOLEAN,
              peer : Initial, rcv : Nat, got : Seq(Nat), eof : BOOLEAN]

GatewayTypeOK ==
    /\ dest \in [Keys -> {"gated", "host", "web"}]
    /\ pending \subseteq Keys
    /\ tcp \in [Keys -> Attempts \cup {NoConn}]
    /\ conn \in [Attempts -> Attempt]
    /\ host \in [Attempts -> HostEnd]
    /\ client \in [Keys -> ClientEnd]
    /\ toGw \in [Keys -> Seq(UpSegment)]
    /\ toClient \in [Keys -> Seq(DownSegment)]
    /\ faults \in 0..MaxFaults

NewClient(st, isn) ==
    [st |-> st, isn |-> isn, snd |-> 1, una |-> 0, fin |-> FALSE,
     peer |-> 0, rcv |-> 0, got |-> <<>>, eof |-> FALSE]

Init ==
    /\ dest \in [Keys -> {"gated", "host", "web"}]
    /\ pending = {}
    /\ tcp = [k \in Keys |-> NoConn]
    /\ conn = [c \in Attempts |-> [at |-> "unused", key |-> AnyKey, isn |-> 0,
                                   allowed |-> FALSE, cnext |-> 0, snext |-> 0]]
    /\ host = [c \in Attempts |-> [sent |-> 0, eof |-> FALSE, broken |-> FALSE,
                                   shut |-> FALSE, stalled |-> FALSE, got |-> <<>>]]
    /\ client = [k \in Keys |-> NewClient("closed", 0)]
    /\ toGw = [k \in Keys |-> <<>>]
    /\ toClient = [k \in Keys |-> <<>>]
    /\ faults = 0

Used == {c \in Attempts : conn[c].at # "unused"}
InUse(c) == conn[c].at \in {"gating", "opening", "up"}

-----------------------------------------------------------------------------
(* Segments of the gateway.                                                *)

\* _inject: a write to the TUN device.
Inject(k, s) == /\ Len(toClient[k]) < MaxInjected
                /\ toClient' = [toClient EXCEPT ![k] = Append(@, s)]

SynAck(c) == Down("SYNACK", <<c, 0>>, <<conn[c].isn, 1>>)
Refusal(isn) == Down("RSTACK", Foreign, <<isn, 1>>)
Ack(c, cnext) == Down("ACK", <<c, conn[c].snext>>, <<conn[c].isn, cnext>>)

-----------------------------------------------------------------------------
(* _handle_tcp: the next packet of a key is read and handled.              *)

Incoming(k, f) == /\ toGw[k] # <<>>
                  /\ Head(toGw[k]).f = f
                  /\ toGw' = [toGw EXCEPT ![k] = Tail(@)]

\* A SYN for a key that is being gated already.
SynWhilePending(k) ==
    /\ Incoming(k, "SYN")
    /\ k \in pending
    /\ UNCHANGED <<dest, pending, tcp, conn, host, client, toClient, faults>>

\* Bug for a mutant: the answer acknowledges the SYN at hand.
SynAgainAnyIsn(k) ==
    /\ Incoming(k, "SYN")
    /\ k \notin pending /\ tcp[k] # NoConn
    /\ Inject(k, Down("SYNACK", <<tcp[k], 0>>, <<Head(toGw[k]).seq[1], 1>>))
    /\ UNCHANGED <<dest, pending, tcp, conn, host, client, faults>>

\* A SYN for a key in the table: the SYN-ACK of that connection again.
SynAgain(k) ==
    /\ Incoming(k, "SYN")
    /\ k \notin pending /\ tcp[k] # NoConn
    /\ Inject(k, SynAck(tcp[k]))
    /\ UNCHANGED <<dest, pending, tcp, conn, host, client, faults>>

\* A connection straight to the ports that the proxy serves.
SynToWeb(k) ==
    /\ Incoming(k, "SYN")
    /\ k \notin pending /\ tcp[k] = NoConn /\ dest[k] = "web"
    /\ Inject(k, Refusal(Head(toGw[k]).seq[1]))
    /\ UNCHANGED <<dest, pending, tcp, conn, host, client, faults>>

\* Bug for a mutant: _pending is not looked at.
SynNewTwice(k, c) ==
    /\ Incoming(k, "SYN")
    /\ tcp[k] = NoConn /\ dest[k] # "web"
    /\ conn[c].at = "unused"
    /\ pending' = pending \cup {k}
    /\ conn' = [conn EXCEPT ![c] =
                 [at |-> IF dest[k] = "host" THEN "opening" ELSE "gating", key |-> k,
                  isn |-> Head(toGw[k]).seq[1], allowed |-> dest[k] = "host",
                  cnext |-> 0, snext |-> 0]]
    /\ UNCHANGED <<dest, tcp, host, client, toClient, faults>>

\* A new connection: _connect is started, and goes on to the gate, or for the
\* alias of the host straight to open_connection.
SynNew(k, c) ==
    /\ Incoming(k, "SYN")
    /\ k \notin pending /\ tcp[k] = NoConn /\ dest[k] # "web"
    /\ conn[c].at = "unused"
    /\ pending' = pending \cup {k}
    /\ conn' = [conn EXCEPT ![c] =
                 [at |-> IF dest[k] = "host" THEN "opening" ELSE "gating", key |-> k,
                  isn |-> Head(toGw[k]).seq[1], allowed |-> dest[k] = "host",
                  cnext |-> 0, snext |-> 0]]
    /\ UNCHANGED <<dest, tcp, host, client, toClient, faults>>

\* Any other segment of a key that is not in the table.
Stray(k, f) ==
    /\ f \in {"DATA", "FIN", "ACK"} /\ Incoming(k, f)
    /\ tcp[k] = NoConn
    /\ Inject(k, Down("RST", Head(toGw[k]).ack, Foreign))
    /\ UNCHANGED <<dest, pending, tcp, conn, host, client, faults>>

StrayReset(k) ==
    /\ Incoming(k, "RST")
    /\ tcp[k] = NoConn
    /\ UNCHANGED <<dest, pending, tcp, conn, host, client, toClient, faults>>

(* TcpConn.on_data: a segment of a key in the table.  Its sequence number  *)
(* is not looked at.                                                       *)

\* A pure acknowledgement changes nothing.
OnAck(k) ==
    /\ Incoming(k, "ACK")
    /\ tcp[k] # NoConn
    /\ UNCHANGED <<dest, pending, tcp, conn, host, client, toClient, faults>>

\* A write to a host_writer that was closed is ignored.
OnData(k, c) ==
    /\ Incoming(k, "DATA")
    /\ tcp[k] = c
    /\ host' = [host EXCEPT ![c].got = IF host[c].shut THEN @
                                       ELSE Append(@, Head(toGw[k]).seq)]
    /\ conn' = [conn EXCEPT ![c].cnext = @ + 1]
    /\ Inject(k, Ack(c, conn[c].cnext + 1))
    /\ UNCHANGED <<dest, pending, tcp, client, faults>>

\* host_writer.close() closes both directions of the socket: what the host sends is no
\* longer read, and what the program has written is flushed first.
OnFin(k, c) ==
    /\ Incoming(k, "FIN")
    /\ tcp[k] = c
    /\ host' = [host EXCEPT ![c].shut = TRUE]
    /\ conn' = [conn EXCEPT ![c].cnext = @ + 1]
    /\ Inject(k, Ack(c, conn[c].cnext + 1))
    /\ UNCHANGED <<dest, pending, tcp, client, faults>>

\* Bug for a mutant: the key stays in the table.
OnResetKeep(k, c) ==
    /\ Incoming(k, "RST")
    /\ tcp[k] = c
    /\ host' = [host EXCEPT ![c].shut = TRUE]
    /\ conn' = [conn EXCEPT ![c].at = "ended"]
    /\ UNCHANGED <<dest, pending, tcp, client, toClient, faults>>

\* The relay is cancelled; it ends before another connection is open with the key.
OnReset(k, c) ==
    /\ Incoming(k, "RST")
    /\ tcp[k] = c
    /\ host' = [host EXCEPT ![c].shut = TRUE]
    /\ conn' = [conn EXCEPT ![c].at = "ended"]
    /\ tcp' = [tcp EXCEPT ![k] = NoConn]
    /\ UNCHANGED <<dest, pending, client, toClient, faults>>

-----------------------------------------------------------------------------
(* _connect, cut at its awaits.                                            *)

\* _gate returns; an error or its timeout counts as a refusal.
GateAllows(c) ==
    /\ conn[c].at = "gating"
    /\ conn' = [conn EXCEPT ![c].at = "opening", ![c].allowed = TRUE]
    /\ UNCHANGED <<dest, pending, tcp, host, client, toGw, toClient, faults>>

\* Bug for a mutant: the key stays pending.
RefuseKeepPending(c) ==
    /\ conn' = [conn EXCEPT ![c].at = "ended"]
    /\ Inject(conn[c].key, Refusal(conn[c].isn))
    /\ UNCHANGED <<dest, pending, tcp, host, client, toGw, faults>>

\* The end of _connect that tells the program no.
Refuse(c) ==
    /\ conn' = [conn EXCEPT ![c].at = "ended"]
    /\ pending' = pending \ {conn[c].key}
    /\ Inject(conn[c].key, Refusal(conn[c].isn))
    /\ UNCHANGED <<dest, tcp, host, client, toGw, faults>>

\* Bug for a mutant: an error of the gate counts as consent.
GateFailsOpen(c) ==
    /\ conn[c].at = "gating"
    /\ conn' = [conn EXCEPT ![c].at = "opening"]
    /\ UNCHANGED <<dest, pending, tcp, host, client, toGw, toClient, faults>>

GateRefuses(c) == conn[c].at = "gating" /\ Refuse(c)

OpenFails(c) == conn[c].at = "opening" /\ Refuse(c)

\* open_connection returns: the SYN-ACK, the TcpConn with its relay, the table.
Opened(c) ==
    LET k == conn[c].key IN
    /\ conn[c].at = "opening"
    /\ conn' = [conn EXCEPT ![c].at = "up", ![c].cnext = 1, ![c].snext = 1]
    /\ Inject(k, SynAck(c))
    /\ tcp' = [tcp EXCEPT ![k] = c]
    /\ pending' = pending \ {k}
    /\ UNCHANGED <<dest, host, client, toGw, faults>>

-----------------------------------------------------------------------------
(* TcpConn._host_relay                                                     *)

Relayed(c) == conn[c].snext - 1

\* One read of the host's stream, injected as data.  Before each read the relay waits
\* for the host to take what is written (drain), if that is more than the buffer's limit:
\* of a host that has stalled it may still read, and need not.
Relay(c) ==
    /\ conn[c].at = "up"
    /\ Relayed(c) < host[c].sent
    /\ Inject(conn[c].key, [f |-> "DATA", seq |-> <<c, conn[c].snext>>,
                            ack |-> <<conn[c].isn, conn[c].cnext>>,
                            unit |-> Relayed(c) + 1])
    /\ conn' = [conn EXCEPT ![c].snext = @ + 1]
    /\ UNCHANGED <<dest, pending, tcp, host, client, toGw, faults>>

\* Bug for a mutant: the loop ends with units still to read.
RelayEndsEarly(c) ==
    /\ conn[c].at = "up"
    /\ host[c].eof \/ host[c].broken \/ (host[c].shut /\ ~host[c].stalled)
    /\ Inject(conn[c].key, Down("FIN", <<c, conn[c].snext>>, <<conn[c].isn, conn[c].cnext>>))
    /\ conn' = [conn EXCEPT ![c].at = "ended", ![c].snext = @ + 1]
    /\ tcp' = [tcp EXCEPT ![conn[c].key] = NoConn]
    /\ UNCHANGED <<dest, pending, host, client, toGw, faults>>

\* Bug for a mutant: the FIN has the number after its own.
RelayEndsAhead(c) ==
    /\ conn[c].at = "up"
    /\ \/ host[c].eof /\ Relayed(c) = host[c].sent
       \/ host[c].broken
       \/ host[c].shut /\ ~host[c].stalled
    /\ Inject(conn[c].key,
              Down("FIN", <<c, conn[c].snext + 1>>, <<conn[c].isn, conn[c].cnext>>))
    /\ conn' = [conn EXCEPT ![c].at = "ended", ![c].snext = @ + 1]
    /\ tcp' = [tcp EXCEPT ![conn[c].key] = NoConn]
    /\ UNCHANGED <<dest, pending, host, client, toGw, faults>>

\* The loop ends: at the end of the stream, or with an error, or because host_writer was
\* closed and all that was written is flushed.  The key leaves the table, whoever it names.
RelayEnds(c) ==
    /\ conn[c].at = "up"
    /\ \/ host[c].eof /\ Relayed(c) = host[c].sent
       \/ host[c].broken
       \/ host[c].shut /\ ~host[c].stalled
    /\ Inject(conn[c].key, Down("FIN", <<c, conn[c].snext>>, <<conn[c].isn, conn[c].cnext>>))
    /\ conn' = [conn EXCEPT ![c].at = "ended", ![c].snext = @ + 1]
    /\ tcp' = [tcp EXCEPT ![conn[c].key] = NoConn]
    /\ UNCHANGED <<dest, pending, host, client, toGw, faults>>

-----------------------------------------------------------------------------
(* The host (external).                                                    *)

Talking(c) == conn[c].at = "up" /\ ~host[c].eof /\ ~host[c].broken /\ ~host[c].shut

HostSends(c) ==
    /\ Talking(c) /\ host[c].sent < MaxDown
    /\ host' = [host EXCEPT ![c].sent = @ + 1]
    /\ UNCHANGED <<dest, pending, tcp, conn, client, toGw, toClient, faults>>

HostCloses(c) ==
    /\ Talking(c)
    /\ host' = [host EXCEPT ![c].eof = TRUE]
    /\ UNCHANGED <<dest, pending, tcp, conn, client, toGw, toClient, faults>>

\* The connection to the host is reset: what was not read is lost.
HostBreaks(c) ==
    /\ conn[c].at = "up" /\ ~host[c].broken /\ ~host[c].shut
    /\ host[c].eof => c \in Awkward
    /\ host' = [host EXCEPT ![c].broken = TRUE, ![c].stalled = FALSE]
    /\ UNCHANGED <<dest, pending, tcp, conn, client, toGw, toClient, faults>>

\* The host stops taking what the program writes, whether or not it goes on sending.
HostStalls(c) ==
    /\ c \in Awkward
    /\ conn[c].at = "up" /\ ~host[c].broken /\ ~host[c].shut
    /\ ~host[c].stalled /\ host[c].got # <<>>
    /\ host' = [host EXCEPT ![c].stalled = TRUE]
    /\ UNCHANGED <<dest, pending, tcp, conn, client, toGw, toClient, faults>>

\* It goes on, or, once host_writer is closed, drops what is left.
HostTakes(c) ==
    /\ conn[c].at = "up" /\ host[c].stalled
    /\ host' = [host EXCEPT ![c].stalled = FALSE]
    /\ UNCHANGED <<dest, pending, tcp, conn, client, toGw, toClient, faults>>

-----------------------------------------------------------------------------
(* The programs of the sandbox (external).                                 *)

Send(k, s) == toGw' = [toGw EXCEPT ![k] = Append(@, s)]

AckOf(k) == <<client[k].peer, client[k].rcv>>

\* Room for one more segment of the programs' own.
Room(k) == Len(toGw[k]) < MaxUnread

Syn(k) == Up("SYN", <<client[k].isn, 0>>, Foreign)

\* SYNs the gateway has not read; they count against the bound on attempts.
SynsUnread ==
    UNION {{<<k, i>> : i \in {j \in 1..Len(toGw[k]) : toGw[k][j].f = "SYN"}} : k \in Keys}
SynAllowed == Cardinality(Used) + Cardinality(SynsUnread) < MaxAttempts

\* A program connects, possibly with a key that was used before.
Connect(k) ==
    /\ client[k].st \notin {"synsent", "established"}
    /\ client[k].isn < MaxUses /\ SynAllowed /\ Room(k)
    /\ client' = [client EXCEPT ![k] = NewClient("synsent", @.isn + 1)]
    /\ Send(k, Up("SYN", <<client[k].isn + 1, 0>>, Foreign))
    /\ UNCHANGED <<dest, pending, tcp, conn, host, toClient, faults>>

\* The kernel gives up an unanswered connection without a word.
GiveUp(k) ==
    /\ client[k].st = "synsent"
    /\ client' = [client EXCEPT ![k].st = "closed"]
    /\ UNCHANGED <<dest, pending, tcp, conn, host, toGw, toClient, faults>>

Write(k) ==
    /\ client[k].st = "established" /\ ~client[k].fin /\ client[k].snd <= MaxUp /\ Room(k)
    /\ client' = [client EXCEPT ![k].snd = @ + 1]
    /\ Send(k, Up("DATA", <<client[k].isn, client[k].snd>>, AckOf(k)))
    /\ UNCHANGED <<dest, pending, tcp, conn, host, toClient, faults>>

ShutDown(k) ==
    /\ client[k].st = "established" /\ ~client[k].fin /\ Room(k)
    /\ client' = [client EXCEPT ![k].snd = @ + 1, ![k].fin = TRUE]
    /\ Send(k, Up("FIN", <<client[k].isn, client[k].snd>>, AckOf(k)))
    /\ UNCHANGED <<dest, pending, tcp, conn, host, toClient, faults>>

Abort(k) ==
    /\ client[k].st = "established" /\ Room(k)
    /\ client' = [client EXCEPT ![k].st = "closed"]
    /\ Send(k, Up("RST", <<client[k].isn, client[k].snd>>, AckOf(k)))
    /\ UNCHANGED <<dest, pending, tcp, conn, host, toClient, faults>>

-----------------------------------------------------------------------------
(* The kernel of the sandbox (external): RFC 9293, RFC 5961.               *)

\* A SYN is sent again until it is answered.
ResendSyn(k) ==
    /\ client[k].st = "synsent" /\ SynAllowed
    /\ \A i \in 1..Len(toGw[k]) : toGw[k][i].f # "SYN"
    /\ Send(k, Syn(k))
    /\ UNCHANGED <<dest, pending, tcp, conn, host, client, toClient, faults>>

ClientGone(k) == client[k].st \in {"closed", "refused", "reset"}

Arriving(k, s) == /\ toClient[k] # <<>>
                  /\ s = Head(toClient[k])
                  /\ toClient' = [toClient EXCEPT ![k] = Tail(@)]
                  /\ UNCHANGED <<dest, pending, tcp, conn, host, faults>>

\* An acknowledgement replaces one that is still the last in the queue.
Acknowledge(k, rcvd) ==
    LET q == toGw[k]
        a == Up("ACK", <<client[k].isn, client[k].snd>>, rcvd)
    IN  toGw' = [toGw EXCEPT ![k] = IF q # <<>> /\ q[Len(q)].f = "ACK"
                                    THEN [q EXCEPT ![Len(q)] = a] ELSE Append(q, a)]

\* An answer to a SYN that is not this one: it is reset.
Unacceptable(k, s) ==
    /\ client[k].st = "synsent"
    /\ Arriving(k, s)
    /\ s.f # "RST" /\ s.ack # <<client[k].isn, 1>>
    /\ IF s.f = "RSTACK" THEN UNCHANGED toGw ELSE Send(k, Up("RST", s.ack, Foreign))
    /\ UNCHANGED client

SynAnswered(k, s) ==
    /\ client[k].st = "synsent"
    /\ Arriving(k, s)
    /\ s.ack = <<client[k].isn, 1>>
    /\ \/ /\ s.f = "SYNACK"
          /\ client' = [client EXCEPT ![k].st = "established", ![k].una = 1,
                                      ![k].peer = s.seq[1], ![k].rcv = 1]
          /\ Acknowledge(k, <<s.seq[1], 1>>)
       \/ /\ s.f = "RSTACK"
          /\ client' = [client EXCEPT ![k].st = "refused"]
          /\ UNCHANGED toGw

\* Before the SYN-ACK only a reset or a SYN-ACK counts, and a reset only if it
\* acknowledges the SYN; no reset concerns a connection that is over.
Ignored(k, s) ==
    /\ Arriving(k, s)
    /\ \/ client[k].st = "synsent" /\ s.f = "RST"
       \/ /\ client[k].st = "synsent" /\ s.ack = <<client[k].isn, 1>>
          /\ s.f \in {"DATA", "FIN", "ACK"}
       \/ ClientGone(k) /\ s.f \in {"RST", "RSTACK"}
    /\ UNCHANGED <<client, toGw>>

\* A segment of a connection that is over.
Over(k, s) ==
    /\ ClientGone(k)
    /\ Arriving(k, s)
    /\ s.f \notin {"RST", "RSTACK"}
    /\ Send(k, Up("RST", s.ack, Foreign))
    /\ UNCHANGED client

\* Established: a reset counts if it has the next sequence number.
ResetArrives(k, s) ==
    /\ client[k].st = "established"
    /\ Arriving(k, s)
    /\ s.f \in {"RST", "RSTACK"}
    /\ IF s.seq = AckOf(k)
       THEN client' = [client EXCEPT ![k].st = "reset"] /\ UNCHANGED toGw
       ELSE /\ IF s.seq[1] = client[k].peer /\ s.seq[2] > client[k].rcv
               THEN Acknowledge(k, AckOf(k)) ELSE UNCHANGED toGw
            /\ UNCHANGED client

InOrder(k, s) == /\ s.seq = AckOf(k)
                 /\ s.ack[1] = client[k].isn /\ s.ack[2] <= client[k].snd

Later(a, b) == IF a > b THEN a ELSE b

\* Established: in order, data and FIN are taken; all else is acknowledged.
SegmentArrives(k, s) ==
    /\ client[k].st = "established"
    /\ Arriving(k, s)
    /\ s.f \in {"DATA", "FIN", "ACK", "SYNACK"}
    /\ IF s.f = "SYNACK" \/ ~InOrder(k, s)
       THEN /\ Acknowledge(k, AckOf(k))
            /\ UNCHANGED client
       ELSE /\ client' = [client EXCEPT
                 ![k].una = Later(@, s.ack[2]),
                 ![k].rcv = IF s.f = "ACK" THEN @ ELSE @ + 1,
                 ![k].got = IF s.f = "DATA" THEN Append(@, s.unit) ELSE @,
                 ![k].eof = @ \/ s.f = "FIN"]
            /\ IF s.f = "ACK" THEN UNCHANGED toGw
               ELSE Acknowledge(k, <<client[k].peer, client[k].rcv + 1>>)

\* Both directions are closed.
Finished(k) ==
    /\ client[k].st = "established"
    /\ client[k].fin /\ client[k].eof /\ client[k].una = client[k].snd
    /\ client' = [client EXCEPT ![k].st = "closed"]
    /\ UNCHANGED <<dest, pending, tcp, conn, host, toGw, toClient, faults>>

\* The program has closed its socket, and the host's end does not come in time.
OrphanExpires(k) ==
    /\ client[k].st = "established" /\ client[k].peer \in Awkward
    /\ client[k].fin /\ ~client[k].eof /\ client[k].una = client[k].snd
    /\ client' = [client EXCEPT ![k].st = "closed"]
    /\ UNCHANGED <<dest, pending, tcp, conn, host, toGw, toClient, faults>>

ClientReceives(k) ==
    \E s \in {toClient[k][i] : i \in 1..Len(toClient[k])} :
        \/ Unacceptable(k, s) \/ SynAnswered(k, s) \/ Ignored(k, s)
        \/ Over(k, s) \/ ResetArrives(k, s) \/ SegmentArrives(k, s)

-----------------------------------------------------------------------------
(* Faults                                                                  *)

Fault == faults < MaxFaults /\ faults' = faults + 1

\* The TUN device's queue was full.
LoseUp(k) ==
    /\ Fault /\ toGw[k] # <<>>
    /\ toGw' = [toGw EXCEPT ![k] = Tail(@)]
    /\ UNCHANGED <<dest, pending, tcp, conn, host, client, toClient>>

\* The write failed, or the client's receive buffer was full.
LoseDown(k) ==
    /\ Fault /\ toClient[k] # <<>>
    /\ toClient' = [toClient EXCEPT ![k] = Tail(@)]
    /\ UNCHANGED <<dest, pending, tcp, conn, host, client, toGw>>

\* The retransmission timer fires.
Retransmit(k) ==
    LET x == client[k] IN
    /\ Fault /\ x.st = "established" /\ x.una < x.snd
    /\ Send(k, Up(IF x.fin /\ x.una + 1 = x.snd THEN "FIN" ELSE "DATA",
                  <<x.isn, x.una>>, AckOf(k)))
    /\ UNCHANGED <<dest, pending, tcp, conn, host, client, toClient>>

-----------------------------------------------------------------------------
HandleSyn(k) ==
    \/ SynWhilePending(k) \/ SynAgain(k) \/ SynToWeb(k)
    \/ \E c \in Attempts : c = Cardinality(Used) + 1 /\ SynNew(k, c)

HandleOther(k) ==
    \/ \E f \in {"DATA", "FIN", "ACK"} : Stray(k, f)
    \/ StrayReset(k) \/ OnAck(k)
    \/ \E c \in Attempts : OnData(k, c) \/ OnFin(k, c) \/ OnReset(k, c)

Connecting(c) == GateAllows(c) \/ GateRefuses(c) \/ OpenFails(c) \/ Opened(c)
Relaying(c) == Relay(c) \/ RelayEnds(c)
Gateway == \/ \E k \in Keys : HandleSyn(k) \/ HandleOther(k)
           \/ \E c \in Attempts : Connecting(c) \/ Relaying(c)

HostActs(c) == \/ HostSends(c) \/ HostCloses(c) \/ HostBreaks(c)
               \/ HostStalls(c) \/ HostTakes(c)
Host == \E c \in Attempts : HostActs(c)

Programs == \E k \in Keys : \/ Connect(k) \/ GiveUp(k) \/ Write(k)
                            \/ ShutDown(k) \/ Abort(k)

GoesOut(k) == Finished(k) \/ OrphanExpires(k)
Kernel == \E k \in Keys : ResendSyn(k) \/ ClientReceives(k) \/ GoesOut(k)

Faults == \E k \in Keys : LoseUp(k) \/ LoseDown(k) \/ Retransmit(k)

Next == Gateway \/ Host \/ Programs \/ Kernel \/ Faults

Spec == Init /\ [][Next]_vars

\* The event loop reads what arrives and resumes what has completed; the gate
\* answers within 70 s and open_connection succeeds or fails; the kernel sends
\* SYNs again and takes what is injected.  Programs and hosts owe nothing, and
\* the relay goes on only if the host takes what it is sent.
Fairness ==
    /\ \A k \in Keys : /\ WF_vars(HandleSyn(k) \/ HandleOther(k))
                       /\ WF_vars(ClientReceives(k))
                       /\ WF_vars(ResendSyn(k))
    /\ \A c \in Attempts : /\ WF_vars(Connecting(c))
                           /\ WF_vars(~host[c].stalled /\ Relaying(c))

FairSpec == Spec /\ Fairness

-----------------------------------------------------------------------------
(* Properties                                                              *)

\* Nothing is opened towards a gated destination, and nothing is exchanged
\* with it, unless the gate said yes to that very attempt; the ports of the
\* proxy are never reached (_handle_tcp, _connect).
Consent ==
    \A c \in Attempts :
        conn[c].at = "opening" \/ host[c].got # <<>> \/ host[c].sent > 0 =>
            /\ dest[conn[c].key] # "web"
            /\ dest[conn[c].key] = "gated" => conn[c].allowed

\* A key has at most one attempt under way or one relay, and _pending and _tcp
\* say which: no relay runs that the table does not know (_connect, _host_relay).
OnePerKey ==
    /\ \A c, d \in Attempts : InUse(c) /\ InUse(d) /\ c # d => conn[c].key # conn[d].key
    /\ \A k \in Keys : k \in pending <=>
           \E c \in Attempts : conn[c].key = k /\ conn[c].at \in {"gating", "opening"}
    /\ \A k \in Keys : \A c \in Attempts :
           tcp[k] = c <=> conn[c].key = k /\ conn[c].at = "up"

\* A program that is connected talks to the attempt that its own SYN led to,
\* not to one left by an earlier program that used the key (_handle_tcp).
Paired ==
    \A k \in Keys : client[k].st = "established" =>
        conn[client[k].peer].key = k /\ conn[client[k].peer].isn = client[k].isn

\* As long as no segment is lost and none but a SYN is sent again, the host gets
\* the units that the program sent, in order and once (on_data, which trusts the
\* TUN device).  Excepted is a connection opened twice because a SYN sent again
\* was read after the first connection had ended.
Twice(c) == \E d \in Attempts : /\ d # c /\ conn[d].snext > 0
                                /\ conn[d].key = conn[c].key /\ conn[d].isn = conn[c].isn

HostInOrder ==
    faults = 0 => \A c \in Attempts : ~Twice(c) =>
        host[c].got = [i \in 1..Len(host[c].got) |-> <<conn[c].isn, i>>]

\* A program that sees the end of the stream before it closed its own side has
\* got all the host sent, unless the host's connection broke (_host_relay).
EofMeansAll ==
    \A k \in Keys : LET h == host[client[k].peer] IN
        client[k].eof /\ ~client[k].fin /\ ~h.broken =>
            client[k].got = [i \in 1..h.sent |-> i]

\* The program that uses a key, and the connection of an attempt, as streams.
ReaderOf(k) == [use |-> client[k].isn, closed |-> client[k].fin, from |-> client[k].peer,
                got |-> client[k].got, eof |-> client[k].eof]
PipeOf(c) ==
    [owner |-> IF conn[c].at = "unused" THEN <<>> ELSE <<conn[c].key, conn[c].isn>>,
     sent |-> host[c].sent, broken |-> host[c].broken, taken |-> host[c].got]

\* The gateway keeps the promise of ByteStreams: every program reads a prefix of the
\* stream of one connection that was made for it, and every host takes what one program
\* wrote (TcpConn).
Streams == INSTANCE ByteStreams WITH
    Connections <- Attempts,
    Nobody <- 0,
    Units <- 1..MaxUp,
    reader <- [k \in Keys |-> ReaderOf(k)],
    pipe <- [c \in Attempts |-> PipeOf(c)],
    calm <- faults = 0

KeepsStreams == Streams!StreamSpec

\* Every SYN is answered, whatever became of earlier uses of the key, unless a
\* segment is lost.
EverySynAnswered ==
    \A k \in Keys : client[k].st = "synsent" ~> client[k].st # "synsent" \/ faults > 0

\* The end of the host's stream reaches the program that reads it, unless the host has
\* stopped for good, or stops again and again, to take what the program writes: the relay
\* then waits in drain (_host_relay).
EndReachesClient ==
    \A k \in Keys : \A c \in Attempts :
        client[k].st = "established" /\ client[k].peer = c /\ (host[c].eof \/ host[c].broken)
            ~> \/ client[k].eof \/ client[k].st # "established"
               \/ host[c].stalled \/ faults > 0

\* A key that no program uses is not pending and not in the table for ever, unless its
\* host has stopped as above: the relay then waits in drain, or for what host_writer.close()
\* has still to flush, and nobody tells it that the program is gone (on_data).
KeysForgotten ==
    \A k \in Keys :
        ClientGone(k) ~> \/ k \notin pending /\ tcp[k] = NoConn
                         \/ tcp[k] # NoConn /\ host[tcp[k]].stalled
                         \/ ~ClientGone(k) \/ faults > 0

\* The comment in on_data: "ACK the received data".
AckOnlyReceived ==
    \A c \in Attempts : conn[c].at = "up" /\ ~host[c].shut =>
        \A n \in 1..(conn[c].cnext - 1) :
            \E i \in 1..Len(host[c].got) : host[c].got[i] = <<conn[c].isn, n>>
=============================================================================
